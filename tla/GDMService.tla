----------------------------- MODULE GDMService -----------------------------
(****************************************************************************)
(* The GDM as clients change it over HTTP: the client's read-modify-write   *)
(* (util/restful/client.go, lib/http_state_manager.go and the commands      *)
(* update, init, manifest set and edit), the router's conditional PUT       *)
(* (util/restful/router.go) and the handlers of /gdm, /manifest and         *)
(* /state/deployments.                                                      *)
(*                                                                          *)
(* The store is the primary state manager of one server, its git clone: a   *)
(* sequence of revisions, read with an etag and written by comparing it.  A *)
(* request reads it up to three times (for the precondition, in the         *)
(* handler's factory and in the exchange), and others write between any     *)
(* two, at this server or at another, whose commits a pull brings.  The     *)
(* handlers do not read the database that is beside it (Stores), and files  *)
(* that a failing disk leaves behind are GitStateManager's.                 *)
(****************************************************************************)
EXTENDS Naturals, FiniteSets, TLC

CONSTANTS
    Clients,      \* command-line clients and sibling servers
    Manifests,
    Values,       \* contents of a manifest
    Valid,        \* the contents in which Validate finds no flaw
    MaxRequests,  \* bound on commands
    MaxFaults     \* bound on failures of the store and other servers' commits

ServiceAssumption ==
    /\ IsFiniteSet(Manifests)
    /\ Valid \subseteq Values /\ 0 \notin Values
    /\ MaxRequests \in Nat /\ MaxFaults \in Nat

VARIABLES
    gdm,      \* the content of every manifest at the newest revision
    rev,      \* that revision
    client,   \* where each client's command is and what it carries
    reply,    \* how the last command has ended, until the next
    last,     \* the last commit: what it was about and what it changed
    begun, faults

vars == <<gdm, rev, client, reply, last, begun, faults>>

None == 0                                   \* no such manifest
Docs == [Manifests -> Values \cup {None}]
Empty == [m \in Manifests |-> None]
NoEtag == 0                                 \* revisions start at 1

Flawless(doc) == \A m \in Manifests : doc[m] \in Valid \cup {None}
Changed(old, new) == {m \in Manifests : old[m] # new[m]}

Idle == [at |-> "idle"]
NoReply == [status |-> "none"]

Init ==
    /\ gdm \in {d \in Docs : Flawless(d)}
    /\ rev = 1
    /\ client = [c \in Clients |-> Idle]
    /\ reply = NoReply
    /\ last = [kind |-> "none"]
    /\ begun = 0
    /\ faults = 0

store == <<gdm, rev, last>>

GoTo(c, state) ==
    client' = [client EXCEPT ![c] = state] /\ UNCHANGED <<store, reply, begun>>

(* The command ends.  `held` records whether the store then has the value   *)
(* that the client asked for, and `wrote` whether the request changed it.   *)
End(c, status) ==
    /\ reply' = [status |-> status, kind |-> client[c].kind,
                 held |-> gdm'[client[c].m] = client[c].v,
                 wrote |-> rev' # rev /\ last'.kind # "elsewhere"]
    /\ client' = [client EXCEPT ![c] = Idle]
    /\ UNCHANGED begun

Refuse(c, status) == UNCHANGED store /\ End(c, status)

(* A read of the store: its content and revision, or a failure, which       *)
(* liveState turns into an empty state without an etag when it is that the  *)
(* files do not exist, and into a nil one otherwise.                        *)
Good == [doc |-> gdm, etag |-> rev]
Missing == [doc |-> Empty, etag |-> NoEtag]
Nil == [doc |-> Empty]
Reads == {Good, Missing, Nil}
Fault == faults < MaxFaults /\ faults' = faults + 1
LiveState(s) ==
    \/ s = Good /\ UNCHANGED faults
    \/ s \in {Missing, Nil} /\ Fault

(* What the commit of another server makes of a state.  It changes one file *)
(* like any other, and several are several pulls.                           *)
Elsewhere(doc) == {[doc EXCEPT ![m] = v] : m \in Manifests, v \in Valid \cup {None}}

(* The pull of a read brings it.                                            *)
Pull ==
    /\ Fault
    /\ gdm' \in Elsewhere(gdm) \ {gdm}
    /\ rev' = rev + 1
    /\ last' = [kind |-> "elsewhere"]
    /\ UNCHANGED <<client, reply, begun>>

----------------------------------------------------------------------------
(* The client.                                                              *)

GDMKinds == {"update", "init"}
Kinds == GDMKinds \cup {"set", "sibling"}

(* A command is given: update or init a manifest by replacing the GDM, set  *)
(* a manifest by itself, or, as a sibling server, pass on the deployments   *)
(* it has read with a change of its own.                                    *)
Begin(c, kind, m, v) ==
    /\ client[c] = Idle
    /\ begun < MaxRequests
    /\ begun' = begun + 1
    /\ client' = [client EXCEPT ![c] = [at |-> "get", kind |-> kind, m |-> m, v |-> v]]
    /\ reply' = NoReply
    /\ UNCHANGED <<store, faults>>

(* What each command must find in what it has read.                         *)
UpdateFinds(m, doc) == doc[m] # None
InitFinds(m, doc) == doc[m] = None
Finds(kind, m, doc) == IF kind = "init" THEN InitFinds(m, doc) ELSE UpdateFinds(m, doc)

(* What it then sends: the state it has read with its own change.           *)
Wanted(c, doc) == [doc EXCEPT ![client[c].m] = client[c].v]

(* A GET that is not answered with success is an error to the client;       *)
(* otherwise the body and its Etag are kept for the PUT.                    *)
Retrieve(c, s, accepted) ==
    /\ LiveState(s)
    /\ \/ ~(s # Nil /\ accepted) /\ Refuse(c, "error")
       \/ /\ s # Nil /\ accepted
          /\ GoTo(c, [at |-> "put", kind |-> client[c].kind, m |-> client[c].m,
                      v |-> client[c].v, base |-> s.doc])

(* HTTPStateManager.ReadState, and the start of its WriteState, which sends *)
(* nothing when it finds a flaw.                                            *)
ReadGDM(c) ==
    /\ client[c].at = "get" /\ client[c].kind \in GDMKinds
    /\ \E s \in Reads :
          Retrieve(c, s, Finds(client[c].kind, client[c].m, s.doc)
                         /\ Flawless(Wanted(c, s.doc)))

(* ManifestGet: a manifest that is not there is a 404.                      *)
ReadManifest(c) ==
    /\ client[c].at = "get" /\ client[c].kind = "set"
    /\ \E s \in Reads : Retrieve(c, s, UpdateFinds(client[c].m, s.doc))

(* A sibling has read the same repository and asks for the deployments of   *)
(* this server's cluster to have something to update.                       *)
ReadCluster(c) ==
    /\ client[c].at = "get" /\ client[c].kind = "sibling"
    /\ \E s \in Reads : Retrieve(c, s, s = Good)

(* DELETE of a manifest, in one exchange.  It removes the manifest from the *)
(* state it has read and leaves it at that.                                 *)
DeleteStatus(s, m) ==
    IF s = Nil THEN "500" ELSE IF s.doc[m] = None THEN "404" ELSE "204"
Delete(c, m) ==
    /\ client[c] = Idle
    /\ begun < MaxRequests
    /\ begun' = begun + 1
    /\ \E s \in Reads :
          /\ LiveState(s)
          /\ reply' = [status |-> DeleteStatus(s, m),
                       kind |-> "delete", held |-> gdm[m] = None, wrote |-> FALSE]
    /\ UNCHANGED <<store, client>>

----------------------------------------------------------------------------
(* The server.                                                              *)

(* The Etag that a GET of the resource carries.  That of a manifest is a    *)
(* digest of its content; that of a list of deployments is a digest of an   *)
(* empty copy of it (gdmwrapper.go:43).                                     *)
ManifestEtag(m, doc) == <<"digest", doc[m]>>
GDMEtag == <<"digest of nothing">>
Etag(kind, m, doc) == IF kind = "set" THEN ManifestEtag(m, doc) ELSE GDMEtag

(* PutHandling: If-Match against a GET of its own, synthesized through the  *)
(* router.  When that GET fails there is no Etag to match.                  *)
PutCheck(c) ==
    LET q == client[c] IN
    /\ q.at = "put"
    /\ \E s \in Reads :
          /\ LiveState(s)
          /\ LET matches == s # Nil /\ Etag(q.kind, q.m, s.doc) = Etag(q.kind, q.m, q.base)
             IN \/ ~matches /\ Refuse(c, "412")
                \/ /\ matches
                   /\ GoTo(c, [at |-> IF q.kind = "set" THEN "factory" ELSE "exchange",
                               kind |-> q.kind, m |-> q.m, v |-> q.v, base |-> q.base,
                               checked |-> rev])

Ready(c, doc, etag) ==
    GoTo(c, [at |-> "write", kind |-> client[c].kind, m |-> client[c].m,
             v |-> client[c].v, base |-> client[c].base,
             checked |-> client[c].checked, doc |-> doc, etag |-> etag])

(* PUT /manifest: the factory reads the state, the exchange puts the        *)
(* manifest of the body into it.                                            *)
PutManifest(c) ==
    /\ client[c].at = "factory"
    /\ \E s \in Reads :
          /\ LiveState(s)
          /\ \/ client[c].v \notin Valid /\ Refuse(c, "400")
             \/ client[c].v \in Valid /\ s = Nil /\ Refuse(c, "500")
             \/ client[c].v \in Valid /\ s # Nil /\ Ready(c, Wanted(c, s.doc), s.etag)

(* PUT /gdm: the exchange reads the state anew, takes all its manifests     *)
(* from the body and keeps the etag of what it has read.                    *)
PutGDM(c) ==
    LET body == Wanted(c, client[c].base) IN
    /\ client[c].at = "exchange" /\ client[c].kind \in GDMKinds
    /\ \E s \in Reads :
          /\ LiveState(s)
          /\ \/ s # Good /\ Refuse(c, "500")
             \/ s = Good /\ ~Flawless(body) /\ Refuse(c, "400")
             \/ s = Good /\ Flawless(body) /\ Ready(c, body, s.etag)

(* PUT /state/deployments: the deployments of the body are laid over the    *)
(* state; what the body does not name stays.                                *)
WriteCluster(body, doc) ==
    [m \in Manifests |-> IF body[m] # None THEN body[m] ELSE doc[m]]
PutDeployments(c) ==
    /\ client[c].at = "exchange" /\ client[c].kind = "sibling"
    /\ \E s \in Reads :
          /\ LiveState(s)
          /\ \/ s # Good /\ Refuse(c, "500")
             \/ /\ s = Good
                /\ Ready(c, WriteCluster(Wanted(c, client[c].base), s.doc), s.etag)

(* GitStateManager.WriteState, as one server's requests see it: refused     *)
(* when the etag is not that of the newest revision, when the state cannot  *)
(* be repaired (without an etag it has no clusters for its deployments,     *)
(* with a flaw it is invalid), and when more than one file would change.    *)
MatchesRevisionMutant(etag) == etag # NoEtag   \* mutant: any revision will do
MatchesRevision(etag) == etag = rev
OneFile(doc) == Cardinality(Changed(gdm, doc)) <= 1

OkStatus(kind) ==
    CASE kind \in GDMKinds -> "204" [] kind = "set" -> "200" [] kind = "sibling" -> "202"
BadStatus(kind) == IF kind = "set" THEN "409" ELSE "500"

(* The commit is pushed, at once or after another server's: then it is      *)
(* cherry-picked, and dropped if both are of the same file.                 *)
Rebased(doc, other) == [m \in Manifests |-> IF other[m] # gdm[m] THEN other[m] ELSE doc[m]]
Push(c, other) ==
    LET q == client[c] IN
    /\ gdm' = Rebased(q.doc, other)
    /\ \/ /\ gdm' = other
          /\ rev' = rev + 1
          /\ last' = [kind |-> "elsewhere"]
       \/ /\ gdm' # other
          /\ rev' = IF other = gdm THEN rev + 1 ELSE rev + 2
          /\ last' = [kind |-> q.kind, m |-> q.m, v |-> q.v, base |-> q.base,
                      before |-> other,
                      raced |-> IF q.kind = "set" THEN q.checked # rev ELSE other # gdm]

(* It fails before it has done anything or after it has undone it, or when  *)
(* the commit is in the clone or at the remote already: its tag fails, the  *)
(* attempts run out, the answer to the push is lost.                        *)
WriteState(c) ==
    LET q == client[c] IN
    /\ q.at = "write"
    /\ \/ /\ ~(MatchesRevision(q.etag) /\ Flawless(q.doc) /\ OneFile(q.doc))
          /\ UNCHANGED faults
          /\ Refuse(c, BadStatus(q.kind))
       \/ Fault /\ Refuse(c, BadStatus(q.kind))
       \/ /\ MatchesRevision(q.etag) /\ Flawless(q.doc) /\ q.doc = gdm
          /\ UNCHANGED <<faults, store>>
          /\ End(c, OkStatus(q.kind))
       \/ /\ MatchesRevision(q.etag) /\ Flawless(q.doc) /\ OneFile(q.doc)
          /\ q.doc # gdm
          /\ \E other \in {gdm} \cup Elsewhere(gdm),
                status \in {OkStatus(q.kind), BadStatus(q.kind)} :
                /\ IF other = gdm /\ status = OkStatus(q.kind) THEN UNCHANGED faults ELSE Fault
                /\ Push(c, other)
                /\ End(c, status)

----------------------------------------------------------------------------
ClientStep(c) ==
    \/ \E kind \in Kinds, m \in Manifests, v \in Values : Begin(c, kind, m, v)
    \/ ReadGDM(c)
    \/ ReadManifest(c)
    \/ ReadCluster(c)
    \/ \E m \in Manifests : Delete(c, m)

ServerStep(c) ==
    \/ PutCheck(c)
    \/ PutManifest(c)
    \/ PutGDM(c)
    \/ PutDeployments(c)
    \/ WriteState(c)

Next == Pull \/ \E c \in Clients : ClientStep(c) \/ ServerStep(c)

Spec == Init /\ [][Next]_vars

----------------------------------------------------------------------------
(* Properties.                                                              *)

TypeOK ==
    /\ gdm \in Docs
    /\ rev \in Nat \ {0}
    /\ client \in [Clients -> [at : {"idle"}]
          \cup [at : {"get"}, kind : Kinds, m : Manifests, v : Values]
          \cup [at : {"put"}, kind : Kinds, m : Manifests, v : Values, base : Docs]
          \cup [at : {"factory", "exchange"}, kind : Kinds, m : Manifests, v : Values,
                base : Docs, checked : Nat]
          \cup [at : {"write"}, kind : Kinds, m : Manifests, v : Values,
                base : Docs, checked : Nat, doc : Docs, etag : Nat]]

(* A manifest that a PUT /manifest replaces is the one the client had read, *)
(* and nothing else changes with it, although the precondition, the read    *)
(* and the write are three separate looks at the store; unless another      *)
(* commit falls between the first two.  The Etag of /gdm stops no stale     *)
(* PUT; the check that one file changes does, where it can: an update or    *)
(* init that undoes another's change to another manifest is one whose own   *)
(* change was already there, at least at this server.                       *)
ReplacesSeen ==
    /\ last.kind = "set" =>
          /\ Changed(last.before, gdm) = {last.m}
          /\ ~last.raced => last.before[last.m] = last.base[last.m]
    /\ last.kind \in GDMKinds =>
          \/ last.raced
          \/ Changed(last.before, gdm) = {last.m}
          \/ last.before[last.m] = last.v

----------------------------------------------------------------------------
(* Said of the code by its comments or its use, and not so: see the README. *)

(* The status tells what became of the request: after a success the store   *)
(* has what the client asked for, and with any other status the request has *)
(* changed nothing.                                                         *)
ReplyIsTrue ==
    reply.status # "none" /\ reply.kind # "delete" =>
        IF reply.status \in {"200", "202", "204"} THEN reply.held ELSE ~reply.wrote

(* An update replaces what its client has read (its collisions are noticed  *)
(* and it "should retry").                                                  *)
UpdateReplacesSeen == last.kind \in GDMKinds => last.before = last.base

(* A sibling that passes on what it has read changes no manifest but its    *)
(* own: reading is not writing.                                             *)
SiblingChangesOwn ==
    last.kind = "sibling" => Changed(last.before, gdm) = {last.m}

(* A DELETE answered 204 has removed the manifest.                          *)
DeleteDeletes == reply.status = "204" /\ reply.kind = "delete" => reply.held

=============================================================================
