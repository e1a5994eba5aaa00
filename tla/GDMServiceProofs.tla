-------------------------- MODULE GDMServiceProofs --------------------------
(* What the server's HTTP interface promises, part by part: "gdm", the      *)
(* conditional PUTs of the GDM, for any manifests, values, clients and      *)
(* numbers of requests and failures; "resource", the library of its        *)
(* clients, for any versions of their structs; "content", what becomes of   *)
(* the manifests, for any manifests and defaults.                           *)
EXTENDS HTTPService, SequenceTheorems, FiniteSetTheorems, WellFoundedInduction, TLAPS

----------------------------------------------------------------------------
(* What a command carries: its kind, its manifest and the value it wants.   *)
Carries(q) == q.kind \in GDM!Kinds /\ q.m \in Names /\ q.v \in Values

(* What a request has seen, by how far it is.  A manifest to be set was     *)
(* read, and while no commit has followed the check it still is what was    *)
(* read.  A state to be written has the client's change, and if its etag is *)
(* of the newest revision, that of a manifest has no other.                 *)
RequestInv(q) ==
    /\ q.at # "idle" => Carries(q)
    /\ q.at \in {"put", "factory", "exchange", "write"} =>
          q.base \in GDM!Docs /\ (q.kind = "set" => q.base[q.m] # GDM!None)
    /\ q.at \in {"factory", "exchange", "write"} =>
          /\ q.checked \in Nat /\ q.checked <= rev
          /\ q.kind = "set" /\ q.checked = rev => gdm[q.m] = q.base[q.m]
    /\ q.at = "factory" => q.kind = "set"
    /\ q.at = "exchange" => q.kind # "set"
    /\ q.at = "write" =>
          /\ q.doc \in GDM!Docs /\ q.doc[q.m] = q.v
          /\ q.etag \in Nat /\ q.etag <= rev
          /\ q.kind = "set" /\ q.etag = rev => q.doc = [gdm EXCEPT ![q.m] = q.v]

(* The store as it is between two commits.                                  *)
StoreInv ==
    /\ gdm \in GDM!Docs
    /\ rev \in Nat \ {0}

ServiceInv ==
    /\ StoreInv
    /\ client = [c \in Users |-> client[c]]
    /\ \A c \in Users : RequestInv(client[c])
    /\ GDM!ReplacesSeen

(* The service begins with every client idle.                               *)
LEMMA ServiceInit == GDM!Init => ServiceInv
  BY DEF GDM!Init, ServiceInv, StoreInv, RequestInv, GDM!Idle, GDM!ReplacesSeen,
     GDM!GDMKinds

(* A step of a request that leaves the store alone.                         *)
LEMMA OwnState ==
    ASSUME ServiceInv, NEW c \in Users, NEW state, GDM!GoTo(c, state), RequestInv(state)
    PROVE  ServiceInv'
<1>1. /\ client' = [client EXCEPT ![c] = state]
      /\ UNCHANGED <<gdm, rev, last>>
      /\ client = [d \in Users |-> client[d]]
  BY DEF GDM!GoTo, GDM!store, ServiceInv
<1>2. /\ client' = [d \in Users |-> client'[d]] /\ client'[c] = state
      /\ \A d \in Users : d # c => client'[d] = client[d]
  BY <1>1
<1>3. \A d \in Users : RequestInv(client[d])'
  BY <1>1, <1>2 DEF ServiceInv, RequestInv
<1>4. StoreInv' /\ GDM!ReplacesSeen'
  BY <1>1 DEF ServiceInv, StoreInv, GDM!ReplacesSeen
<1> QED
  BY <1>2, <1>3, <1>4 DEF ServiceInv

(* A request that ends without a commit, refused or with the value there.   *)
LEMMA EndsWithoutCommit ==
    ASSUME ServiceInv, NEW c \in Users, NEW status, UNCHANGED GDM!store, GDM!End(c, status)
    PROVE  ServiceInv'
<1>1. /\ client' = [client EXCEPT ![c] = GDM!Idle]
      /\ UNCHANGED <<gdm, rev, last>>
      /\ client = [d \in Users |-> client[d]]
  BY DEF GDM!End, GDM!store, ServiceInv
<1>2. /\ client' = [d \in Users |-> client'[d]] /\ client'[c] = GDM!Idle
      /\ \A d \in Users : d # c => client'[d] = client[d]
  BY <1>1
<1>3. \A d \in Users : RequestInv(client[d])'
  BY <1>1, <1>2 DEF ServiceInv, RequestInv, GDM!Idle
<1>4. StoreInv' /\ GDM!ReplacesSeen'
  BY <1>1 DEF ServiceInv, StoreInv, GDM!ReplacesSeen
<1> QED
  BY <1>2, <1>3, <1>4 DEF ServiceInv

(* A refused PUT is answered without touching the store or the intent of    *)
(* any other request.                                                       *)
LEMMA RefusedRequest ==
    ASSUME ServiceInv, NEW c \in Users, NEW status, GDM!Refuse(c, status)
    PROVE  ServiceInv'
  BY EndsWithoutCommit DEF GDM!Refuse

(* What one failing or successful read of the store gives.                  *)
LEMMA ReadsAre ==
    ASSUME ServiceInv, NEW s \in GDM!Reads, s # GDM!Nil
    PROVE  /\ s.doc \in GDM!Docs /\ s.etag \in Nat /\ s.etag <= rev
           /\ s.etag = rev => s.doc = gdm
           /\ s = GDM!Good => s.doc = gdm /\ s.etag = rev
           /\ s # GDM!Good => s.doc = GDM!Empty
  BY DEF ServiceInv, StoreInv, GDM!Reads, GDM!Good, GDM!Missing, GDM!Nil, GDM!NoEtag,
     GDM!Docs, GDM!Empty

(* What a command sends differs from what it has read in its manifest.      *)
LEMMA WantedIs ==
    ASSUME NEW c \in Users, Carries(client[c]), NEW d \in GDM!Docs
    PROVE  /\ GDM!Wanted(c, d) \in GDM!Docs
           /\ GDM!Wanted(c, d)[client[c].m] = client[c].v
           /\ GDM!Wanted(c, d) = [d EXCEPT ![client[c].m] = client[c].v]
  BY DEF GDM!Wanted, GDM!Docs, Carries

(* The instance counts as its module does.                                  *)
LEMMA SameCounting ==
    ASSUME NEW S
    PROVE  /\ GDM!IsFiniteSet(S) <=> IsFiniteSet(S)
           /\ GDM!Cardinality(S) = Cardinality(S)
<1>1. GDM!IsFiniteSet(S) <=> IsFiniteSet(S)
  BY DEF GDM!IsFiniteSet, IsFiniteSet
<1>2. GDM!Cardinality(S) = Cardinality(S)
  BY DEF GDM!Cardinality, Cardinality, GDM!IsFiniteSet, IsFiniteSet
<1> QED
  BY <1>1, <1>2

(* Two states that differ in one file at most.                              *)
LEMMA OneFileIs ==
    ASSUME GDM!ServiceAssumption, NEW d \in GDM!Docs, gdm \in GDM!Docs, GDM!OneFile(d), d # gdm
    PROVE  \E m \in Names : GDM!Changed(gdm, d) = {m}
<1>1. GDM!Changed(gdm, d) \in SUBSET Names /\ GDM!Changed(gdm, d) # {}
  BY DEF GDM!Changed, GDM!Docs
<1>2. IsFiniteSet(GDM!Changed(gdm, d)) /\ Cardinality(GDM!Changed(gdm, d)) \in Nat
  BY <1>1, FS_Subset, FS_CardinalityType, SameCounting DEF GDM!ServiceAssumption
<1>3. Cardinality(GDM!Changed(gdm, d)) = 1
  BY <1>1, <1>2, FS_EmptySet, SameCounting DEF GDM!OneFile
<1>4. PICK m : GDM!Changed(gdm, d) = {m}
  BY <1>2, <1>3, FS_Singleton
<1> QED
  BY <1>1, <1>4

(* The commits of other servers are states.                                 *)
LEMMA ElsewhereIsState ==
    ASSUME GDM!ServiceAssumption, gdm \in GDM!Docs, NEW other \in GDM!Elsewhere(gdm)
    PROVE  other \in GDM!Docs
  BY DEF GDM!ServiceAssumption, GDM!Elsewhere, GDM!Docs

(* A commit put on top of another's that is pushed as it is or not at all   *)
(* changes the same file.                                                   *)
LEMMA RebasedIs ==
    ASSUME GDM!ServiceAssumption, gdm \in GDM!Docs, NEW d \in GDM!Docs, NEW other \in GDM!Docs,
           NEW x \in Names, GDM!Changed(gdm, d) = {x}, GDM!Rebased(d, other) # other
    PROVE  /\ GDM!Changed(other, GDM!Rebased(d, other)) = {x}
           /\ other[x] = gdm[x]
<1>1. \A m \in Names : m # x => gdm[m] = d[m]
  BY DEF GDM!Changed
<1>2. \A m \in Names : m # x => GDM!Rebased(d, other)[m] = other[m]
  BY <1>1 DEF GDM!Rebased
<1>3. GDM!Rebased(d, other) = [m \in Names |-> GDM!Rebased(d, other)[m]]
      /\ other = [m \in Names |-> other[m]]
  BY DEF GDM!Rebased, GDM!Docs
<1>4. GDM!Rebased(d, other)[x] # other[x]
  BY <1>2, <1>3
<1> QED
  BY <1>2, <1>4 DEF GDM!Changed, GDM!Rebased

(* The commit of WriteState, of a state whose etag is of the newest         *)
(* revision, alone or after another server's.                               *)
LEMMA Commit ==
    ASSUME GDM!ServiceAssumption, ServiceInv, NEW c \in Users, client[c].at = "write",
           client[c].etag = rev, GDM!OneFile(client[c].doc), client[c].doc # gdm,
           NEW other \in {gdm} \cup GDM!Elsewhere(gdm), NEW status,
           GDM!Push(c, other), GDM!End(c, status)
    PROVE  ServiceInv'
<1> DEFINE q == client[c]
           new == GDM!Rebased(q.doc, other)
<1>1. /\ Carries(q) /\ q.doc \in GDM!Docs /\ q.doc[q.m] = q.v
      /\ q.kind = "set" /\ q.checked = rev => gdm[q.m] = q.base[q.m]
      /\ q.kind = "set" => q.doc = [gdm EXCEPT ![q.m] = q.v]
      /\ gdm \in GDM!Docs /\ rev \in Nat \ {0}
  BY DEF ServiceInv, StoreInv, RequestInv
<1>2. other \in GDM!Docs
  BY <1>1, ElsewhereIsState
<1>3. new \in GDM!Docs
  BY <1>1, <1>2 DEF GDM!Rebased, GDM!Docs
<1>4. /\ client' = [d \in Users |-> client'[d]] /\ client'[c] = GDM!Idle
      /\ \A d \in Users : d # c => client'[d] = client[d]
  BY DEF GDM!End, ServiceInv
<1>5. gdm' = new /\ rev' \in Nat \ {0} /\ rev' > rev
  BY <1>1 DEF GDM!Push
<1>6. \A d \in Users : RequestInv(client[d])'
  <2>1. ASSUME NEW d \in Users, d # c PROVE RequestInv(client[d])'
    <3>1. client'[d] = client[d] /\ RequestInv(client[d])
      BY <1>4, <2>1 DEF ServiceInv
    <3>2. \A n \in Nat : n <= rev => n <= rev' /\ n # rev'
      BY <1>1, <1>5
    <3> QED
      BY <3>1, <3>2 DEF RequestInv, Carries
  <2>2. RequestInv(client[c])'
    BY <1>4 DEF RequestInv, GDM!Idle
  <2> QED
    BY <2>1, <2>2
<1>7. StoreInv'
  BY <1>3, <1>5 DEF StoreInv
<1>8. GDM!ReplacesSeen'
  <2>1. CASE last' = [kind |-> "elsewhere"]
    BY <2>1 DEF GDM!ReplacesSeen, GDM!GDMKinds
  <2>2. CASE /\ gdm' # other
             /\ last' = [kind |-> q.kind, m |-> q.m, v |-> q.v, base |-> q.base,
                         before |-> other,
                         raced |-> IF q.kind = "set" THEN q.checked # rev ELSE other # gdm]
    <3>1. PICK x \in Names : GDM!Changed(gdm, q.doc) = {x}
      BY <1>1, OneFileIs
    <3>2. GDM!Changed(other, new) = {x} /\ other[x] = gdm[x]
      BY <1>1, <1>2, <1>5, <2>2, <3>1, RebasedIs
    <3>3. q.kind = "set" => x = q.m
      BY <1>1, <3>1 DEF GDM!Changed, GDM!Docs, Carries
    <3>4. x # q.m => gdm[q.m] = q.v
      BY <1>1, <3>1 DEF GDM!Changed, Carries
    <3>5. GDM!Changed(last.before, gdm)' = {x}
      <4>1. last'.before = other
        BY <2>2
      <4> QED
        BY <1>5, <3>2, <4>1 DEF GDM!Changed
    <3>6. /\ last'.kind = q.kind /\ last'.m = q.m /\ last'.v = q.v /\ last'.base = q.base
          /\ last'.before = other
      BY <2>2
    <3>7. q.kind = "set" /\ ~last'.raced => q.checked = rev
      BY <2>2
    <3>8. q.kind # "set" /\ ~last'.raced => other = gdm
      BY <2>2
    <3>9. q.kind = "set" => q.kind \notin GDM!GDMKinds
      BY DEF GDM!GDMKinds
    <3> HIDE DEF q, new
    <3> QED
      BY <1>1, <3>2, <3>3, <3>4, <3>5, <3>6, <3>7, <3>8, <3>9 DEF GDM!ReplacesSeen
  <2> QED
    BY <2>1, <2>2 DEF GDM!Push
<1> QED
  BY <1>4, <1>6, <1>7, <1>8 DEF ServiceInv

(* Every step of the clients and of the server preserves ServiceInv.        *)
LEMMA ServiceNext ==
    ASSUME GDM!ServiceAssumption, ServiceInv, [GDM!Next]_(GDM!vars) PROVE ServiceInv'
<1>0. StoreInv /\ \A c \in Users : RequestInv(client[c])
  BY DEF ServiceInv
<1>1. ASSUME NEW c \in Users, NEW kind \in GDM!Kinds, NEW m \in Names, NEW v \in Values,
             GDM!Begin(c, kind, m, v)
      PROVE  ServiceInv'
  <2> DEFINE q == [at |-> "get", kind |-> kind, m |-> m, v |-> v]
  <2>1. RequestInv(q)
    BY DEF RequestInv, Carries
  <2>2. /\ client' = [client EXCEPT ![c] = q] /\ UNCHANGED <<gdm, rev, last>>
        /\ client = [d \in Users |-> client[d]]
    BY <1>1 DEF GDM!Begin, GDM!store, ServiceInv
  <2> HIDE DEF q
  <2>3. /\ client' = [d \in Users |-> client'[d]] /\ client'[c] = q
        /\ \A d \in Users : d # c => client'[d] = client[d]
    BY <2>2
  <2>4. \A d \in Users : RequestInv(client[d])'
    BY <1>0, <2>1, <2>2, <2>3 DEF RequestInv
  <2> QED
    BY <2>2, <2>3, <2>4 DEF ServiceInv, StoreInv, GDM!ReplacesSeen
<1>2. ASSUME NEW c \in Users, NEW m \in Names, GDM!Delete(c, m) PROVE ServiceInv'
  <2>1. UNCHANGED <<gdm, rev, last, client>>
    BY <1>2 DEF GDM!Delete, GDM!store
  <2> QED
    BY <2>1 DEF ServiceInv, StoreInv, RequestInv, GDM!ReplacesSeen
<1>3. ASSUME NEW c \in Users, GDM!ReadGDM(c) \/ GDM!ReadManifest(c) \/ GDM!ReadCluster(c)
      PROVE  ServiceInv'
  <2> DEFINE q == client[c]
  <2>1. q.at = "get" /\ Carries(q)
    BY <1>0, <1>3 DEF GDM!ReadGDM, GDM!ReadManifest, GDM!ReadCluster, RequestInv
  <2>2. PICK s \in GDM!Reads, accepted \in BOOLEAN :
          GDM!Retrieve(c, s, accepted) /\ (accepted /\ q.kind = "set" => s.doc[q.m] # GDM!None)
    BY <1>3 DEF GDM!ReadGDM, GDM!ReadManifest, GDM!ReadCluster, GDM!UpdateFinds, GDM!GDMKinds
  <2>3. CASE GDM!Refuse(c, "error")
    BY <2>1, <2>3, RefusedRequest
  <2>4. CASE /\ s # GDM!Nil /\ accepted
             /\ GDM!GoTo(c, [at |-> "put", kind |-> q.kind, m |-> q.m, v |-> q.v, base |-> s.doc])
    <3>1. s.doc \in GDM!Docs
      BY <2>4, ReadsAre
    <3>2. RequestInv([at |-> "put", kind |-> q.kind, m |-> q.m, v |-> q.v, base |-> s.doc])
      BY <2>1, <2>2, <2>4, <3>1 DEF RequestInv, Carries
    <3> QED
      BY <2>4, <3>2, OwnState
  <2> QED
    BY <2>2, <2>3, <2>4 DEF GDM!Retrieve
<1>4. ASSUME NEW c \in Users, GDM!PutCheck(c) PROVE ServiceInv'
  <2> DEFINE q == client[c]
             next == [at |-> IF q.kind = "set" THEN "factory" ELSE "exchange",
                      kind |-> q.kind, m |-> q.m, v |-> q.v, base |-> q.base,
                      checked |-> rev]
  <2>1. /\ q.at = "put" /\ Carries(q) /\ q.base \in GDM!Docs
        /\ q.kind = "set" => q.base[q.m] # GDM!None
    BY <1>0, <1>4 DEF GDM!PutCheck, RequestInv
  <2>2. PICK s \in GDM!Reads :
          \/ GDM!Refuse(c, "412")
          \/ /\ s # GDM!Nil /\ GDM!Etag(q.kind, q.m, s.doc) = GDM!Etag(q.kind, q.m, q.base)
             /\ GDM!GoTo(c, next)
    BY <1>4 DEF GDM!PutCheck
  <2>3. CASE GDM!Refuse(c, "412")
    BY <2>1, <2>3, RefusedRequest
  <2>4. CASE /\ s # GDM!Nil /\ GDM!Etag(q.kind, q.m, s.doc) = GDM!Etag(q.kind, q.m, q.base)
             /\ GDM!GoTo(c, next)
    <3>1. q.kind = "set" => gdm[q.m] = q.base[q.m]
      <4>1. q.kind = "set" => s.doc[q.m] = q.base[q.m]
        BY <2>4 DEF GDM!Etag, GDM!ManifestEtag
      <4>2. s # GDM!Good => s.doc[q.m] = GDM!None
        BY <2>1, <2>4, ReadsAre DEF GDM!Empty, Carries
      <4>3. s = GDM!Good => s.doc = gdm
        BY <2>4, ReadsAre
      <4> QED
        BY <2>1, <4>1, <4>2, <4>3
    <3>2. rev \in Nat
      BY <1>0 DEF StoreInv
    <3>3. RequestInv(next)
      BY <2>1, <3>1, <3>2 DEF RequestInv, Carries
    <3> QED
      BY <2>4, <3>3, OwnState
  <2> QED
    BY <2>2, <2>3, <2>4
<1>5. ASSUME NEW c \in Users, GDM!PutManifest(c) \/ GDM!PutGDM(c) \/ GDM!PutDeployments(c)
      PROVE  ServiceInv'
  <2> DEFINE q == client[c]
             next(state, etag) == [at |-> "write", kind |-> q.kind, m |-> q.m, v |-> q.v,
                                 base |-> q.base, checked |-> q.checked, doc |-> state,
                                 etag |-> etag]
  <2>1. /\ q.at \in {"factory", "exchange"} /\ Carries(q) /\ q.base \in GDM!Docs
        /\ q.kind = "set" => q.base[q.m] # GDM!None
        /\ q.checked \in Nat /\ q.checked <= rev
        /\ q.kind = "set" /\ q.checked = rev => gdm[q.m] = q.base[q.m]
        /\ q.at = "factory" <=> q.kind = "set"
    BY <1>0, <1>5 DEF GDM!PutManifest, GDM!PutGDM, GDM!PutDeployments, RequestInv
  <2>2. PICK s \in GDM!Reads :
          \/ GDM!Refuse(c, "400") \/ GDM!Refuse(c, "500")
          \/ q.kind = "set" /\ s # GDM!Nil /\ GDM!Ready(c, GDM!Wanted(c, s.doc), s.etag)
          \/ q.kind # "set" /\ s = GDM!Good /\ GDM!Ready(c, GDM!Wanted(c, q.base), s.etag)
          \/ /\ q.kind # "set" /\ s = GDM!Good
             /\ GDM!Ready(c, GDM!WriteCluster(GDM!Wanted(c, q.base), s.doc), s.etag)
    BY <1>5, <2>1 DEF GDM!PutManifest, GDM!PutGDM, GDM!PutDeployments
  <2>3. CASE GDM!Refuse(c, "400") \/ GDM!Refuse(c, "500")
    BY <2>1, <2>3, RefusedRequest
  <2>4. ASSUME NEW state \in GDM!Docs, NEW etag \in Nat, etag <= rev, state[q.m] = q.v,
               q.kind = "set" /\ etag = rev => state = [gdm EXCEPT ![q.m] = q.v],
               GDM!Ready(c, state, etag)
        PROVE  ServiceInv'
    <3>1. RequestInv(next(state, etag))
      BY <2>1, <2>4 DEF RequestInv, Carries
    <3>2. GDM!GoTo(c, next(state, etag))
      BY <2>4 DEF GDM!Ready
    <3> HIDE DEF next
    <3> QED
      BY <3>1, <3>2, OwnState
  <2>5. CASE q.kind = "set" /\ s # GDM!Nil /\ GDM!Ready(c, GDM!Wanted(c, s.doc), s.etag)
    BY <2>1, <2>4, <2>5, ReadsAre, WantedIs
  <2>6. s = GDM!Good => s # GDM!Nil /\ s.doc \in GDM!Docs /\ s.etag = rev /\ s.etag \in Nat
    BY <1>0 DEF GDM!Good, GDM!Nil, StoreInv
  <2>7. CASE q.kind # "set" /\ s = GDM!Good /\ GDM!Ready(c, GDM!Wanted(c, q.base), s.etag)
    BY <2>1, <2>4, <2>6, <2>7, WantedIs
  <2>8. CASE /\ q.kind # "set" /\ s = GDM!Good
             /\ GDM!Ready(c, GDM!WriteCluster(GDM!Wanted(c, q.base), s.doc), s.etag)
    <3>1. /\ GDM!WriteCluster(GDM!Wanted(c, q.base), s.doc) \in GDM!Docs
          /\ GDM!WriteCluster(GDM!Wanted(c, q.base), s.doc)[q.m] = q.v
      <4>1. q.v # GDM!None
        BY <2>1 DEF GDM!ServiceAssumption, GDM!None, Carries
      <4>2. /\ GDM!Wanted(c, q.base) \in GDM!Docs /\ GDM!Wanted(c, q.base)[q.m] = q.v
            /\ s.doc \in GDM!Docs
        BY <2>1, <2>6, <2>8, WantedIs
      <4> QED
        BY <2>1, <4>1, <4>2 DEF GDM!WriteCluster, GDM!Docs, Carries
    <3> QED
      BY <2>1, <2>4, <2>6, <2>8, <3>1
  <2> QED
    BY <2>2, <2>3, <2>5, <2>7, <2>8
<1>6. ASSUME NEW c \in Users, GDM!WriteState(c) PROVE ServiceInv'
  <2> DEFINE q == client[c]
  <2>1. q.at = "write"
    BY <1>6 DEF GDM!WriteState
  <2>2. CASE GDM!Refuse(c, GDM!BadStatus(q.kind))
    BY <2>2, RefusedRequest
  <2>3. CASE UNCHANGED GDM!store /\ GDM!End(c, GDM!OkStatus(q.kind))
    BY <2>3, EndsWithoutCommit
  <2>4. ASSUME GDM!MatchesRevision(q.etag), GDM!OneFile(q.doc), q.doc # gdm,
               NEW other \in {gdm} \cup GDM!Elsewhere(gdm), NEW status,
               GDM!Push(c, other), GDM!End(c, status)
        PROVE  ServiceInv'
    BY <2>1, <2>4, Commit DEF GDM!MatchesRevision
  <2> QED
    BY <1>6, <2>2, <2>3, <2>4 DEF GDM!WriteState
<1>8. CASE GDM!Pull
  <2>1. /\ UNCHANGED client /\ last' = [kind |-> "elsewhere"]
        /\ gdm' \in GDM!Docs /\ rev' = rev + 1 /\ rev \in Nat \ {0}
    BY <1>0, <1>8, ElsewhereIsState DEF GDM!Pull, StoreInv
  <2>2. \A n \in Nat : n <= rev => n <= rev' /\ n # rev'
    BY <2>1
  <2>3. \A c \in Users : RequestInv(client[c])'
    BY <1>0, <2>1, <2>2 DEF RequestInv, Carries
  <2> QED
    BY <2>1, <2>3 DEF ServiceInv, StoreInv, GDM!ReplacesSeen, GDM!GDMKinds
<1>7. CASE UNCHANGED GDM!vars
  BY <1>7 DEF GDM!vars, ServiceInv, StoreInv, RequestInv, GDM!ReplacesSeen
<1> QED
  BY <1>1, <1>2, <1>3, <1>4, <1>5, <1>6, <1>7, <1>8
  DEF GDM!Next, GDM!ClientStep, GDM!ServerStep

(* The other parts of the interface leave the requests of the GDM alone.    *)
LEMMA PartSteps ==
    /\ Init => GDM!Init
    /\ [Next]_vars => [GDM!Next]_(GDM!vars)
BY DEF Init, Next, vars, gdmVars, GDM!vars

(* The inductive invariant of the GDM's clients and their server.           *)
THEOREM ServiceInvariance == Spec => []ServiceInv
<1>1. Init => ServiceInv
  BY PartSteps, ServiceInit
<1>2. ServiceInv /\ [Next]_vars => ServiceInv'
  BY PartSteps, ServiceNext, GDMAssumption
<1> QED
  BY <1>1, <1>2, PTL DEF Spec

(* No PUT /manifest undoes what its client had not seen, unless a commit    *)
(* falls between the router's check and the handler's read, and none        *)
(* changes another manifest; a PUT /gdm that undoes another's change is one *)
(* whose own change was already there.                                      *)
THEOREM ReplacesSeenAlways == Spec => []ReplacesSeen
<1>1. ServiceInv => ReplacesSeen
  BY DEF ServiceInv, ReplacesSeen
<1> QED
  BY <1>1, ServiceInvariance, PTL

----------------------------------------------------------------------------
(* The resource.  Decoding a document into a struct keeps what the struct   *)
(* has a field for.                                                         *)
LEMMA DecodeIs ==
    ASSUME NEW s, NEW d
    PROVE  /\ DOMAIN Resource!Decode(s, d) = Resource!Fields(s)
           /\ Resource!Decode(s, d) = [p \in Resource!Fields(s) |-> Resource!Decode(s, d)[p]]
           /\ \A p \in s.sub : Resource!Decode(s, d)[p] = Resource!Object
           /\ \A p \in Resource!Fields(s) \ s.sub :
                 Resource!Decode(s, d)[p] = IF p \in DOMAIN d THEN d[p] ELSE Resource!Zero
<1>1. \A p \in s.sub : p \in Resource!Fields(s)
  BY DEF Resource!Fields
<1> QED
  BY <1>1 DEF Resource!Decode

(* Encoding a value leaves out the fields that are empty and may be left    *)
(* out.                                                                     *)
LEMMA EncodeIs ==
    ASSUME NEW s, NEW d
    PROVE  /\ DOMAIN Resource!Encode(s, d) =
                 {p \in Resource!Fields(s) : p \in s.omit => d[p] # Resource!Zero}
           /\ \A p \in DOMAIN Resource!Encode(s, d) : Resource!Encode(s, d)[p] = d[p]
  BY DEF Resource!Encode

(* Whether applyChanges goes on below a path.                               *)
Descends(base, changed, q) ==
    /\ q \in DOMAIN base /\ base[q] = Resource!Object
    /\ q \in DOMAIN changed /\ changed[q] = Resource!Object
Sets(base, changed, q) ==
    /\ q \in DOMAIN changed
    /\ q \in DOMAIN base => changed[q] = Resource!Object \/ ~Resource!Same(base[q], changed[q])
Deletes(base, changed, q) == q \in DOMAIN base \ DOMAIN changed

(* n is where applyChanges decides about p.                                 *)
DecidesAt(base, changed, p, n) ==
    /\ n \in 1..Len(p)
    /\ \A k \in 1..(n - 1) : Descends(base, changed, SubSeq(p, 1, k))
    /\ n < Len(p) => ~Descends(base, changed, SubSeq(p, 1, n))

(* Every path is decided about somewhere.                                   *)
LEMMA DeciderIs ==
    ASSUME NEW base, NEW changed, NEW p \in Seq(STRING) \ {<<>>}
    PROVE  \E n : /\ DecidesAt(base, changed, p, n)
                  /\ Resource!Decider(base, changed, p) = SubSeq(p, 1, n)
<1> DEFINE Stops == {n \in 1..Len(p) : n < Len(p) => ~Descends(base, changed, SubSeq(p, 1, n))}
<1>1. Len(p) \in Nat \ {0}
  BY EmptySeq, LenProperties
<1>2. Stops \subseteq Nat /\ Len(p) \in Stops
  BY <1>1
<1>3. PICK n \in Stops : \A k \in Stops : ~(<<k, n>> \in OpToRel(<, Nat))
  <2> HIDE DEF Stops
  <2> QED BY <1>2, NatLessThanWellFounded, WFMin
<1>4. ASSUME NEW k \in 1..(n - 1)
      PROVE  Descends(base, changed, SubSeq(p, 1, k))
  <2>1. k \in Nat /\ n \in Nat /\ k < n /\ k \in 1..Len(p) /\ k < Len(p)
    BY <1>1
  <2>2. <<k, n>> \in OpToRel(<, Nat)
    BY <2>1 DEF OpToRel
  <2>3. k \notin Stops
    BY <1>3, <2>2
  <2> QED
    BY <2>1, <2>3
<1>5. DecidesAt(base, changed, p, n)
  BY <1>1, <1>3, <1>4 DEF DecidesAt
<1> DEFINE stop == CHOOSE m \in 1..Len(p) :
                      /\ \A k \in 1..(m - 1) : Descends(base, changed, SubSeq(p, 1, k))
                      /\ m < Len(p) => ~Descends(base, changed, SubSeq(p, 1, m))
<1>6. DecidesAt(base, changed, p, stop)
  BY <1>5 DEF DecidesAt
<1>7. Resource!Decider(base, changed, p) = SubSeq(p, 1, stop)
  BY DEF Resource!Decider, Descends
<1> QED
  BY <1>6, <1>7

(* What becomes of a path is decided where its Decider is.                  *)
LEMMA ApplyIs ==
    ASSUME NEW base, NEW changed, NEW target, NEW p
    PROVE  LET q == Resource!Decider(base, changed, p)
               set == p \in DOMAIN changed /\ Sets(base, changed, q)
               stay == p \in DOMAIN target /\ ~Sets(base, changed, q) /\ ~Deletes(base, changed, q)
               result == Resource!ApplyChanges(base, changed, target)
           IN  /\ p \in DOMAIN result <=> set \/ stay
               /\ set => result[p] = changed[p]
               /\ stay => result[p] = target[p]
  BY DEF Resource!ApplyChanges, Sets, Deletes

(* A struct as the server or a client has it, and a value of that struct.   *)
Struct(s) == s \in Resource!Structs
ValueOf(s, d) ==
    /\ d = [p \in Resource!Fields(s) |-> d[p]]
    /\ \A p \in s.sub : d[p] = Resource!Object
Leaves(s) == s.plain \cup s.omit

(* What decoding gives is a value.                                          *)
LEMMA DecodeIsValue ==
    ASSUME NEW s, NEW d
    PROVE  ValueOf(s, Resource!Decode(s, d))
  BY DecodeIs DEF ValueOf

(* So is what a user makes of it in one field.                              *)
LEMMA EditIsValue ==
    ASSUME Resource!SchemaAssumption, NEW s, Struct(s),
           NEW d, ValueOf(s, d), NEW e \in Resource!Edits(s, d)
    PROVE  ValueOf(s, e)
<1>1. PICK p \in Leaves(s), a \in {Resource!Zero, "one"} : e = [d EXCEPT ![p] = a]
  BY DEF Resource!Edits, Leaves
<1>2. p \notin s.sub
  BY <1>1 DEF Resource!SchemaAssumption, Struct, Leaves
<1>3. DOMAIN d = Resource!Fields(s)
  BY DEF ValueOf
<1>4. s.sub \subseteq Resource!Fields(s)
  BY DEF Resource!Fields
<1> QED
  BY <1>1, <1>2, <1>3, <1>4 DEF ValueOf

(* Reading a document: nested structs are there, and an absent field reads  *)
(* as one that is empty.                                                    *)
LEMMA EncodedValue ==
    ASSUME Resource!SchemaAssumption, NEW s, Struct(s), NEW d, ValueOf(s, d)
    PROVE  /\ DOMAIN Resource!Encode(s, d) \subseteq Resource!Fields(s)
           /\ \A p \in s.sub : /\ p \in DOMAIN Resource!Encode(s, d)
                               /\ Resource!Encode(s, d)[p] = Resource!Object
           /\ \A p \in Leaves(s) :
                 IF p \in DOMAIN Resource!Encode(s, d)
                 THEN Resource!Encode(s, d)[p] = d[p] ELSE d[p] = Resource!Zero
<1>1. /\ s.sub \subseteq Resource!Fields(s) /\ Leaves(s) \subseteq Resource!Fields(s)
      /\ \A p \in s.sub : p \notin s.omit
  BY DEF Resource!Fields, Leaves, Resource!SchemaAssumption, Struct
<1>2. DOMAIN Resource!Encode(s, d) =
         {p \in Resource!Fields(s) : p \in s.omit => d[p] # Resource!Zero}
  BY EncodeIs
<1>3. \A p \in DOMAIN Resource!Encode(s, d) : Resource!Encode(s, d)[p] = d[p]
  BY EncodeIs
<1>4. \A p \in s.sub : d[p] = Resource!Object
  BY DEF ValueOf
<1> HIDE DEF Resource!Encode
<1>5. \A p \in s.sub : /\ p \in DOMAIN Resource!Encode(s, d)
                       /\ Resource!Encode(s, d)[p] = Resource!Object
  BY <1>1, <1>2, <1>3, <1>4
<1>6. \A p \in Leaves(s) : p \notin DOMAIN Resource!Encode(s, d) => d[p] = Resource!Zero
  BY <1>1, <1>2
<1> QED
  BY <1>2, <1>3, <1>5, <1>6

(* What a client is given, and what the server makes of a document.         *)
LEMMA DecodedEncoding ==
    ASSUME Resource!SchemaAssumption, NEW s, Struct(s), NEW o, Struct(o), NEW d, ValueOf(o, d),
           NEW p \in Leaves(s)
    PROVE  Resource!Decode(s, Resource!Encode(o, d))[p] =
              IF p \in Resource!Fields(o) THEN d[p] ELSE Resource!Zero
<1>1. p \in Resource!Fields(s) \ s.sub /\ p \notin o.sub
  BY DEF Leaves, Resource!Fields, Resource!SchemaAssumption, Struct
<1>2. p \in Resource!Fields(o) => p \in Leaves(o)
  BY <1>1 DEF Leaves, Resource!Fields
<1> QED
  BY <1>1, <1>2, DecodeIs, EncodedValue

(* A path of which a version knows nothing is decided about where that      *)
(* version has nothing.                                                     *)
LEMMA DecidedOutside ==
    ASSUME Resource!SchemaAssumption, NEW s, Struct(s), NEW o, Struct(o), NEW d, ValueOf(s, d),
           NEW e, ValueOf(s, e), NEW p \in Resource!Fields(o) \ Resource!Fields(s)
    PROVE  Resource!Decider(Resource!Encode(s, d), Resource!Encode(s, e), p)
              \notin DOMAIN Resource!Encode(s, d) \cup DOMAIN Resource!Encode(s, e)
<1> DEFINE base == Resource!Encode(s, d)
           changed == Resource!Encode(s, e)
<1>1. /\ p \in Seq(STRING) \ {<<>>}
      /\ \A n \in 1..(Len(p) - 1) : SubSeq(p, 1, n) \in o.sub
  BY DEF Resource!SchemaAssumption, Struct
<1>2. PICK n : /\ DecidesAt(base, changed, p, n)
               /\ Resource!Decider(base, changed, p) = SubSeq(p, 1, n)
  BY <1>1, DeciderIs
<1>3. Len(p) \in Nat /\ n \in 1..Len(p)
  BY <1>1, <1>2, LenProperties DEF DecidesAt
<1>4. CASE n = Len(p)
  <2>1. SubSeq(p, 1, n) = p
    BY <1>1, <1>4, SubSeqFull
  <2> QED
    BY <1>2, <2>1, EncodedValue
<1>5. CASE n # Len(p)
  <2> DEFINE q == SubSeq(p, 1, n)
  <2>1. q \in o.sub /\ ~Descends(base, changed, q)
    BY <1>1, <1>2, <1>3, <1>5 DEF DecidesAt
  <2>2. q \notin Leaves(s)
    BY <2>1 DEF Leaves, Resource!SchemaAssumption, Struct
  <2>3. q \notin s.sub
    BY <2>1, EncodedValue DEF Descends
  <2>4. q \notin Resource!Fields(s)
    BY <2>2, <2>3 DEF Leaves, Resource!Fields
  <2> QED
    BY <1>2, <2>4, EncodedValue
<1> QED
  BY <1>4, <1>5

(* A field that a version has is decided about by itself.                   *)
LEMMA DecidedItself ==
    ASSUME Resource!SchemaAssumption, NEW s, Struct(s), NEW d, ValueOf(s, d), NEW e, ValueOf(s, e),
           NEW p \in Leaves(s)
    PROVE  Resource!Decider(Resource!Encode(s, d), Resource!Encode(s, e), p) = p
<1> DEFINE base == Resource!Encode(s, d)
           changed == Resource!Encode(s, e)
<1>1. /\ p \in Seq(STRING) \ {<<>>}
      /\ \A n \in 1..(Len(p) - 1) : SubSeq(p, 1, n) \in s.sub
  BY DEF Resource!SchemaAssumption, Struct, Leaves, Resource!Fields
<1>2. PICK n : /\ DecidesAt(base, changed, p, n)
               /\ Resource!Decider(base, changed, p) = SubSeq(p, 1, n)
  BY <1>1, DeciderIs
<1>3. Len(p) \in Nat /\ n \in 1..Len(p)
  BY <1>1, <1>2, LenProperties DEF DecidesAt
<1>4. n = Len(p)
  <2> SUFFICES ASSUME n # Len(p) PROVE FALSE
    OBVIOUS
  <2>1. SubSeq(p, 1, n) \in s.sub /\ ~Descends(base, changed, SubSeq(p, 1, n))
    BY <1>1, <1>2, <1>3 DEF DecidesAt
  <2> QED
    BY <2>1, EncodedValue DEF Descends
<1> QED
  BY <1>1, <1>2, <1>4, SubSeqFull

(* An update of a document, by a client who has read it: what the client's  *)
(* struct does not know stays, and what it knows is as the client wants it. *)
LEMMA UpdateIs ==
    ASSUME Resource!SchemaAssumption, NEW s, Struct(s), NEW o, Struct(o), NEW d, ValueOf(o, d),
           NEW e, ValueOf(s, e)
    PROVE  LET rendered == Resource!Encode(o, d)
               fields == Resource!PutbackJSON(rendered,
                            Resource!Encode(s, Resource!Decode(s, rendered)),
                            Resource!Encode(s, e))
               new == Resource!Decode(o, fields)
           IN  /\ \A p \in Leaves(o) \ Leaves(s) : new[p] = d[p]
               /\ \A p \in Leaves(o) \cap Leaves(s) : new[p] = e[p]
<1> DEFINE rendered == Resource!Encode(o, d)
           value == Resource!Decode(s, rendered)
           base == Resource!Encode(s, value)
           changed == Resource!Encode(s, e)
           fields == Resource!ApplyChanges(base, changed, rendered)
           new == Resource!Decode(o, fields)
<1>1. ValueOf(s, value)
  BY DecodeIsValue
<1>2. \A p \in Leaves(o) : new[p] = IF p \in DOMAIN fields THEN fields[p] ELSE Resource!Zero
  <2>1. \A p \in Leaves(o) : p \in Resource!Fields(o) \ o.sub
    BY DEF Leaves, Resource!Fields, Resource!SchemaAssumption, Struct
  <2> HIDE DEF fields
  <2> QED BY <2>1, DecodeIs
<1>3. \A p \in Leaves(o) :
         IF p \in DOMAIN rendered THEN rendered[p] = d[p] ELSE d[p] = Resource!Zero
  BY EncodedValue
<1>4. \A p \in Leaves(s) :
         IF p \in DOMAIN base THEN base[p] = value[p] ELSE value[p] = Resource!Zero
  <2> HIDE DEF value
  <2> QED BY <1>1, EncodedValue
<1>5. \A p \in Leaves(s) : IF p \in DOMAIN changed THEN changed[p] = e[p] ELSE e[p] = Resource!Zero
  BY EncodedValue
<1>6. ASSUME NEW p \in Leaves(o) \ Leaves(s)
      PROVE  new[p] = d[p]
  <2>1. p \in Resource!Fields(o) \ Resource!Fields(s)
    BY DEF Leaves, Resource!Fields, Resource!SchemaAssumption, Struct
  <2> DEFINE q == Resource!Decider(base, changed, p)
  <2>2. q \notin DOMAIN base \cup DOMAIN changed
    <3> HIDE DEF value
    <3> QED BY <1>1, <2>1, DecidedOutside
  <2>3. p \notin DOMAIN changed
    BY <2>1, EncodedValue
  <2>4. ~Sets(base, changed, q) /\ ~Deletes(base, changed, q)
    BY <2>2 DEF Sets, Deletes
  <2> HIDE DEF rendered, base, changed
  <2>5. p \in DOMAIN fields <=> p \in DOMAIN rendered
    BY <2>3, <2>4, ApplyIs
  <2>6. p \in DOMAIN rendered => fields[p] = rendered[p]
    BY <2>4, ApplyIs
  <2> HIDE DEF fields, new
  <2> QED
    BY <1>2, <1>3, <2>5, <2>6
<1>7. ASSUME NEW p \in Leaves(o) \cap Leaves(s)
      PROVE  new[p] = e[p]
  <2>1. Resource!Decider(base, changed, p) = p
    <3> HIDE DEF value
    <3> QED BY <1>1, DecidedItself
  <2>2. value[p] = d[p]
    <3>1. p \in Resource!Fields(o)
      BY DEF Leaves, Resource!Fields
    <3> QED BY <3>1, DecodedEncoding
  <2> HIDE DEF rendered, base, changed, value
  <2>3. /\ p \in DOMAIN fields <=> \/ p \in DOMAIN changed /\ Sets(base, changed, p)
                                   \/ /\ p \in DOMAIN rendered
                                      /\ ~Sets(base, changed, p) /\ ~Deletes(base, changed, p)
        /\ p \in DOMAIN changed /\ Sets(base, changed, p) => fields[p] = changed[p]
        /\ p \in DOMAIN rendered /\ ~Sets(base, changed, p) /\ ~Deletes(base, changed, p) =>
              fields[p] = rendered[p]
    BY <2>1, ApplyIs
  <2> HIDE DEF fields, new
  <2>4. CASE p \in DOMAIN changed /\ Sets(base, changed, p)
    BY <1>2, <1>5, <2>3, <2>4
  <2>5. CASE p \in DOMAIN changed /\ ~Sets(base, changed, p)
    <3>1. p \in DOMAIN base /\ changed[p] = base[p]
      BY <2>5 DEF Sets, Resource!Same
    <3>2. e[p] = d[p]
      BY <1>4, <1>5, <2>2, <2>5, <3>1
    <3>3. ~Deletes(base, changed, p)
      BY <2>5 DEF Deletes
    <3> QED
      BY <1>2, <1>3, <2>3, <2>5, <3>2, <3>3
  <2>6. CASE p \notin DOMAIN changed /\ p \in DOMAIN base
    <3>1. ~Sets(base, changed, p) /\ Deletes(base, changed, p)
      BY <2>6 DEF Sets, Deletes
    <3> QED
      BY <1>2, <1>5, <2>3, <2>6, <3>1
  <2>7. CASE p \notin DOMAIN changed /\ p \notin DOMAIN base
    <3>1. ~Sets(base, changed, p) /\ ~Deletes(base, changed, p)
      BY <2>7 DEF Sets, Deletes
    <3>2. d[p] = Resource!Zero /\ e[p] = Resource!Zero
      BY <1>4, <1>5, <2>2, <2>7
    <3> QED
      BY <1>2, <1>3, <2>3, <2>7, <3>1, <3>2
  <2> QED
    BY <2>4, <2>5, <2>6, <2>7
<1> QED
  BY <1>6, <1>7 DEF Resource!PutbackJSON

(* When the server accepts a request to put something.                      *)
LEMMA AcceptedPut ==
    ASSUME NEW body, NEW match, Resource!PutStatus(body, match) = "200"
    PROVE  /\ match # "none"
           /\ match = "star" => Resource!GetStatus \in {"404", "405"}
           /\ match = "etag" => /\ Resource!GetStatus = "200"
                                /\ body.etag = Resource!Etag /\ body.canary = Resource!Etag
<1> DEFINE status == Resource!PutStatus(body, match)
<1>1. match = "none" => status \in {"405", "428"}
  BY DEF Resource!PutStatus
<1>2. match = "star" /\ Resource!GetStatus \notin {"404", "405"} => status \in {"405", "412"}
  BY DEF Resource!PutStatus
<1>3. match = "etag" /\ (Resource!GetStatus # "200" \/ body.etag # Resource!Etag)
          => status \in {"405", "412"}
  BY DEF Resource!PutStatus
<1>4. match = "etag" /\ body.canary # Resource!Etag => status \in {"405", "412", "400"}
  BY DEF Resource!PutStatus, Resource!ValidCanary
<1> QED
  BY <1>1, <1>2, <1>3, <1>4

(* The server's struct and the clients' are structs.                        *)
LEMMA TheStructs ==
    /\ Struct(Resource!Server)
    /\ \A c \in Clients : Struct(Schema[c])
  BY DEF Struct, Resource!Structs, Resource!Server

(* Something is rendered of every document there is.                        *)
LEMMA SomethingRendered ==
    ASSUME Resource!SchemaAssumption, ValueOf(Resource!Server, doc)
    PROVE  Resource!Etag # <<>> /\ doc # <<>>
<1>1. PICK p : p \in Resource!Fields(Resource!Server) /\ p \notin Resource!Server.omit
  BY DEF Resource!SchemaAssumption
<1>2. p \in DOMAIN doc
  BY <1>1 DEF ValueOf
<1>3. p \in DOMAIN Resource!Encode(Resource!Server, doc)
  BY <1>1, EncodeIs
<1>4. DOMAIN <<>> = {}
  OBVIOUS
<1> QED
  BY <1>2, <1>3, <1>4 DEF Resource!Etag, Resource!Rendered

----------------------------------------------------------------------------
(* A client that may update has the document, its etag and its canary from  *)
(* one reading, and the value that its struct has of it.                    *)
HeldInv(c) ==
    held[c].at = "read" =>
        /\ held[c].body = held[c].etag /\ held[c].canary = held[c].etag
        /\ held[c].value = Resource!Decode(Schema[c], held[c].etag)

ResourceInv ==
    /\ doc = Resource!Absent \/ ValueOf(Resource!Server, doc)
    /\ held = [c \in Clients |-> held[c]]
    /\ \A c \in Clients : HeldInv(c)

(* The resource begins with a document of the server's, or none.            *)
LEMMA ResourceInit == Resource!SchemaAssumption /\ Resource!Init => ResourceInv
  BY DEF Resource!SchemaAssumption, Resource!Init, ResourceInv, HeldInv, ValueOf, Resource!Nothing

(* A document put by a client who sends its whole struct is accepted only   *)
(* where none can be seen.                                                  *)
LEMMA PlainPutRefused ==
    ASSUME Resource!SchemaAssumption, ResourceInv, Resource!Present, "get" \in caps,
           NEW fields, NEW etag, NEW match \in {"star", "none", "etag"}
    PROVE  Resource!PutStatus([fields |-> fields, canary |-> Resource!NoEtag, etag |-> etag], match)
              # "200"
<1>1. Resource!GetStatus = "200"
  BY DEF Resource!GetStatus, Resource!Installed
<1>2. Resource!Etag # Resource!NoEtag
  BY SomethingRendered DEF ResourceInv, Resource!Present, Resource!NoEtag
<1> QED
  BY <1>1, <1>2, AcceptedPut

(* What the server knows and what a client does, of a document.             *)
LEMMA SameUnknown ==
    ASSUME Resource!SchemaAssumption, NEW s, NEW o, Struct(o),
           NEW d, ValueOf(o, d), NEW e, ValueOf(o, e),
           \A p \in Leaves(o) \ Leaves(s) : e[p] = d[p]
    PROVE  Resource!Unknown(s, e) = Resource!Unknown(s, d)
<1>1. DOMAIN d = Resource!Fields(o) /\ DOMAIN e = Resource!Fields(o)
  BY DEF ValueOf
<1>2. \A p \in Resource!Fields(o) \ Leaves(s) : e[p] = d[p]
  BY DEF ValueOf, Leaves, Resource!Fields
<1> QED
  BY <1>1, <1>2 DEF Resource!Unknown, Leaves

(* A struct that has the same of two documents has decoded them alike.      *)
LEMMA SameKnown ==
    ASSUME Resource!SchemaAssumption, NEW s, Struct(s), NEW o, Struct(o),
           NEW d, ValueOf(o, d), NEW e, ValueOf(o, e),
           \A p \in Leaves(o) \cap Leaves(s) : e[p] = d[p]
    PROVE  Resource!Decode(s, Resource!Encode(o, e)) = Resource!Decode(s, Resource!Encode(o, d))
<1> DEFINE D(a) == Resource!Decode(s, Resource!Encode(o, a))
<1>1. \A a : /\ D(a) = [p \in Resource!Fields(s) |-> D(a)[p]]
             /\ \A p \in s.sub : D(a)[p] = Resource!Object
  BY DecodeIs
<1>2. \A p \in Leaves(s) : p \in Resource!Fields(o) => p \in Leaves(o)
  BY DEF Leaves, Resource!Fields, Resource!SchemaAssumption, Struct
<1>3. \A p \in Leaves(s) : D(e)[p] = D(d)[p]
  BY <1>2, DecodedEncoding
<1>4. \A p \in Resource!Fields(s) : D(e)[p] = D(d)[p]
  BY <1>1, <1>3 DEF Resource!Fields, Leaves
<1> QED
  BY <1>1, <1>4

(* The invariant and the property over one request.                         *)
Kept == ResourceInv' /\ (requests' # requests => Resource!KeepsUnknown /\ Resource!SetsKnown)

(* A request that leaves the document alone, or is refused.                 *)
LEMMA ReadOnly ==
    ASSUME ResourceInv, UNCHANGED doc,
           held' = [c \in Clients |-> held'[c]], \A c \in Clients : HeldInv(c)',
           answer'.what # "put" \/ answer'.status # "200"
    PROVE  Kept
  BY DEF Kept, ResourceInv, Resource!KeepsUnknown, Resource!SetsKnown, ValueOf

(* An update is accepted only of the document that is there.               *)
LEMMA UpdateKeeps ==
    ASSUME Resource!SchemaAssumption, ResourceInv, NEW c \in Clients, held[c].at = "read",
           NEW v \in Resource!Edits(Schema[c], held[c].value), NEW lost \in BOOLEAN,
           Resource!Update(c, v, lost)
    PROVE  Kept
<1> DEFINE body == [fields |-> Resource!PutbackJSON(held[c].body,
                                  Resource!Encode(Schema[c], held[c].value),
                                  Resource!Encode(Schema[c], v)),
                    canary |-> held[c].canary, etag |-> held[c].etag]
           status == Resource!PutStatus(body, "etag")
           value == held[c].value
<1>1. /\ held' = [held EXCEPT ![c] = [at |-> "spent", etag |-> held[c].etag]]
      /\ held = [d \in Clients |-> held[d]]
      /\ doc' = IF status = "200" THEN Resource!Decode(Resource!Server, body.fields) ELSE doc
      /\ answer' = [status |-> Resource!Answer(status, lost), by |-> c, what |-> "put",
                    from |-> value, to |-> v]
  BY DEF Resource!Update, ResourceInv
<1> HIDE DEF body
<1>2. held' = [d \in Clients |-> held'[d]] /\ \A d \in Clients : HeldInv(d)'
  BY <1>1 DEF HeldInv, ResourceInv
<1>3. CASE status # "200"
  <2>1. answer'.status # "200"
    BY <1>1, <1>3 DEF Resource!Answer
  <2>2. UNCHANGED doc
    BY <1>1, <1>3
  <2> QED
    BY <1>2, <2>1, <2>2, ReadOnly
<1>4. CASE status = "200"
  <2>1. /\ Resource!GetStatus = "200"
        /\ held[c].etag = Resource!Etag
    BY <1>4, AcceptedPut DEF body
  <2>2. ValueOf(Resource!Server, doc)
    BY <2>1 DEF Resource!GetStatus, Resource!Present, ResourceInv
  <2>3. /\ held[c].body = Resource!Encode(Resource!Server, doc)
        /\ value = Resource!Decode(Schema[c], Resource!Encode(Resource!Server, doc))
    BY <2>1 DEF ResourceInv, HeldInv, Resource!Etag, Resource!Rendered
  <2>4. ValueOf(Schema[c], value) /\ ValueOf(Schema[c], v)
    BY <2>3, DecodeIsValue, EditIsValue, TheStructs
  <2>5. /\ ValueOf(Resource!Server, doc')
        /\ \A p \in Leaves(Resource!Server) \ Leaves(Schema[c]) : doc'[p] = doc[p]
        /\ \A p \in Leaves(Resource!Server) \cap Leaves(Schema[c]) : doc'[p] = v[p]
    <3>1. doc' = Resource!Decode(Resource!Server,
                    Resource!PutbackJSON(Resource!Encode(Resource!Server, doc),
                       Resource!Encode(Schema[c],
                          Resource!Decode(Schema[c], Resource!Encode(Resource!Server, doc))),
                       Resource!Encode(Schema[c], v)))
      BY <1>1, <1>4, <2>3 DEF body
    <3>2. ValueOf(Resource!Server, doc')
      BY <3>1, DecodeIsValue
    <3> QED
      BY <2>2, <2>4, <3>1, <3>2, UpdateIs, TheStructs
  <2>6. answer'.by = c /\ answer'.from = value /\ answer'.to = v
    BY <1>1
  <2>7. Resource!KeepsUnknown
    BY <2>2, <2>5, <2>6, SameUnknown, TheStructs DEF Resource!KeepsUnknown
  <2>8. Resource!SetsKnown
    <3> DEFINE o == Resource!Server
               wanted == Resource!Decode(o, v)
    <3>1. ValueOf(o, wanted)
      BY DecodeIsValue
    <3>2. \A p \in Leaves(o) \cap Leaves(Schema[c]) : wanted[p] = v[p]
      <4>1. \A p \in Leaves(o) \cap Leaves(Schema[c]) :
               p \in Resource!Fields(o) \ o.sub /\ p \in DOMAIN v
        BY <2>4, TheStructs DEF Leaves, Resource!Fields, Resource!SchemaAssumption, Struct, ValueOf
      <4> QED
        BY <4>1, DecodeIs
    <3> HIDE DEF wanted
    <3>3. Resource!Decode(Schema[c], Resource!Encode(o, doc'))
             = Resource!Decode(Schema[c], Resource!Encode(o, wanted))
      BY <2>5, <3>1, <3>2, SameKnown, TheStructs
    <3> QED
      BY <2>3, <2>6, <3>3 DEF Resource!SetsKnown, wanted
  <2>9. ResourceInv'
    BY <1>2, <2>5 DEF ResourceInv
  <2> QED
    BY <2>7, <2>8, <2>9 DEF Kept
<1> QED
  BY <1>3, <1>4

(* A whole struct that is accepted comes to where nothing could be seen.    *)
LEMMA PlainPutKeeps ==
    ASSUME Resource!SchemaAssumption, ResourceInv, NEW c \in Clients, NEW v,
           NEW match \in {"star", "none", "etag"}, Resource!PlainPut(c, v, match)
    PROVE  Kept
<1>1. PICK etag : LET body == [fields |-> Resource!Encode(Schema[c], v), canary |-> Resource!NoEtag,
                               etag |-> etag]
                  IN  doc' = IF Resource!PutStatus(body, match) = "200"
                             THEN Resource!Decode(Resource!Server, body.fields) ELSE doc
  BY DEF Resource!PlainPut
<1>2. Resource!Present /\ "get" \in caps => doc' = doc
  BY <1>1, PlainPutRefused
<1>3. answer'.what = "plain" /\ UNCHANGED held
  BY DEF Resource!PlainPut
<1>4. doc' = Resource!Absent \/ ValueOf(Resource!Server, doc')
  BY <1>1, DecodeIsValue DEF ResourceInv
<1>5. ResourceInv'
  BY <1>3, <1>4 DEF ResourceInv, HeldInv
<1> QED
  BY <1>2, <1>3, <1>5 DEF Kept, Resource!KeepsUnknown, Resource!SetsKnown

(* Each request.                                                            *)
LEMMA ResourceNext ==
    ASSUME Resource!SchemaAssumption, ResourceInv, [Resource!Next]_(Resource!vars)
    PROVE  Kept
<1>1. ASSUME NEW c \in Clients, Resource!Retrieve(c)
      PROVE  Kept
  <2>1. /\ held = [d \in Clients |-> held[d]]
        /\ held' = [held EXCEPT ![c] =
              IF Resource!GetStatus # "200" THEN Resource!Nothing ELSE
                [at |-> "read", body |-> Resource!Rendered, canary |-> Resource!Etag,
                 etag |-> Resource!Etag, value |-> Resource!Decode(Schema[c], Resource!Rendered)]]
        /\ UNCHANGED doc /\ answer'.what = "get"
    BY <1>1 DEF Resource!Retrieve, ResourceInv
  <2>2. held' = [d \in Clients |-> held'[d]] /\ \A d \in Clients : HeldInv(d)'
    BY <2>1 DEF HeldInv, ResourceInv, Resource!Nothing, Resource!Etag
  <2> QED
    BY <2>1, <2>2, ReadOnly
<1>2. ASSUME NEW c \in Clients, Resource!UpdateAgain(c)
      PROVE  Kept
  <2>1. UNCHANGED <<doc, held>> /\ answer'.status = "EOF"
    BY <1>2 DEF Resource!UpdateAgain
  <2> QED
    BY <2>1, ReadOnly DEF ResourceInv, HeldInv
<1>3. ASSUME NEW c \in Clients, Resource!Delete(c)
      PROVE  Kept
  <2>1. /\ UNCHANGED held /\ answer'.what = "delete"
        /\ doc' = Resource!Absent \/ doc' = doc
    BY <1>3 DEF Resource!Delete
  <2>2. ResourceInv'
    BY <2>1 DEF ResourceInv, HeldInv, ValueOf
  <2> QED
    BY <2>1, <2>2 DEF Kept, Resource!KeepsUnknown, Resource!SetsKnown
<1>4. ASSUME NEW c \in Clients, Resource!Options(c)
      PROVE  Kept
  <2>1. UNCHANGED <<doc, held>> /\ answer'.what = "options"
    BY <1>4 DEF Resource!Options
  <2> QED
    BY <2>1, ReadOnly DEF ResourceInv, HeldInv
<1>5. CASE UNCHANGED Resource!vars
  BY <1>5 DEF Resource!vars, Kept, ResourceInv, HeldInv, ValueOf
<1> QED
  BY <1>1, <1>2, <1>3, <1>4, <1>5, UpdateKeeps, PlainPutKeeps DEF Resource!Next, Resource!Create

(* The other parts of the interface leave the resource alone.               *)
LEMMA ResourceSteps ==
    /\ Init => Resource!Init
    /\ [Next]_vars => [Resource!Next]_(Resource!vars)
BY DEF Init, Next, vars, resourceVars, Resource!vars

(* A client of any version of the struct changes what it knows, to what it  *)
(* wants, and keeps the rest of the document, of which it does not know     *)
(* (putbackjson.go); and its update is made to what it has read.            *)
THEOREM PutbackIsExactAlways == Spec => PutbackIsExact
<1>1. Init => ResourceInv
  BY ResourceSteps, ResourceInit, ResourceAssumption
<1>2. ResourceInv /\ [Next]_vars
         => /\ ResourceInv'
            /\ [requests' # requests => Resource!KeepsUnknown /\ Resource!SetsKnown]_(Resource!vars)
  BY ResourceSteps, ResourceNext, ResourceAssumption DEF Kept
<1> QED
  BY <1>1, <1>2, PTL DEF Spec, PutbackIsExact, Resource!PutbackIsExact

----------------------------------------------------------------------------
(* The content.  A part counts as its module does.                          *)
LEMMA ContentCounting ==
    ASSUME NEW S
    PROVE  Content!Cardinality(S) = Cardinality(S)
  BY DEF Content!Cardinality, Cardinality, Content!IsFiniteSet, IsFiniteSet

(* Owners in order are determined by which they are.                        *)
LEMMA OrderIsUnique ==
    ASSUME NEW s, NEW t, Content!InOrder(s), Content!InOrder(t),
           NEW n \in Nat, Len(s) = n, Len(t) = n,
           \A i \in 1..n : \E k \in 1..n : s[k] = t[i],
           \A i \in 1..n : \E k \in 1..n : t[k] = s[i]
    PROVE  s = t
<1> DEFINE T == {i \in 1..n : s[i] # t[i]}
<1>1. /\ s \in Seq(Int) /\ t \in Seq(Int)
      /\ DOMAIN s = 1..n /\ DOMAIN t = 1..n
      /\ \A i \in 1..n : s[i] \in Int /\ t[i] \in Int
  BY DEF Content!InOrder
<1>2. /\ \A i, j \in 1..n : i < j => s[i] < s[j]
      /\ \A i, j \in 1..n : i < j => t[i] < t[j]
  BY <1>1 DEF Content!InOrder
<1>3. T = {}
  <2> SUFFICES ASSUME T # {} PROVE FALSE
    OBVIOUS
  <2>1. T \subseteq Nat
    BY <1>1
  <2>2. PICK i \in T : \A k \in T : ~(<<k, i>> \in OpToRel(<, Nat))
    <3> HIDE DEF T
    <3> QED BY <2>1, NatLessThanWellFounded, WFMin
  <2>3. ASSUME NEW k \in 1..n, k < i
        PROVE  s[k] = t[k]
    <3>1. i \in Nat /\ k \in Nat
      OBVIOUS
    <3>2. <<k, i>> \in OpToRel(<, Nat)
      BY <2>3, <3>1, Zenon DEF OpToRel
    <3> QED BY <2>2, <3>2
  <2>4. PICK k \in 1..n : s[k] = t[i]
    OBVIOUS
  <2>5. PICK m \in 1..n : t[m] = s[i]
    OBVIOUS
  <2>6. i \in 1..n /\ s[i] # t[i]
    OBVIOUS
  <2> HIDE DEF T
  <2>7. ~(k < i)
    BY <1>1, <1>2, <2>3, <2>4, <2>6
  <2>8. ~(m < i)
    BY <1>1, <1>2, <2>3, <2>5, <2>6
  <2>9. i < k /\ i < m
    <3>1. k # i /\ m # i
      BY <2>4, <2>5, <2>6
    <3> QED BY <2>4, <2>5, <2>6, <2>7, <2>8, <3>1
  <2>10. s[i] < t[i] /\ t[i] < s[i]
    BY <1>2, <2>4, <2>5, <2>6, <2>9
  <2>11. s[i] \in Int /\ t[i] \in Int
    BY <1>1, <2>6
  <2> QED
    BY <2>10, <2>11
<1>4. \A i \in 1..n : s[i] = t[i]
  BY <1>3
<1>5. s = [i \in 1..n |-> s[i]] /\ t = [i \in 1..n |-> t[i]]
  BY <1>1
<1> QED
  BY <1>4, <1>5

(* Owners in order come out of a set as they went in.                       *)
LEMMA SliceIs ==
    ASSUME NEW s, Content!InOrder(s)
    PROVE  Content!Slice(Content!ToSet(s)) = s
<1> DEFINE S == Content!ToSet(s)
           n == Len(s)
<1>1. /\ s \in Seq(Int) /\ n \in Nat /\ DOMAIN s = 1..n
      /\ \A i, j \in 1..n : i < j => s[i] < s[j]
  BY DEF Content!InOrder
<1>2. S = {s[i] : i \in 1..n}
  BY <1>1 DEF Content!ToSet
<1>3. s \in [1..n -> S]
  BY <1>1, <1>2
<1>4. Content!Cardinality(S) = n
  <2>1. s \in Surjection(1..n, S)
    BY <1>2, <1>3 DEF Surjection
  <2>2. \A i, j \in 1..n : s[i] = s[j] => i = j
    <3> SUFFICES ASSUME NEW i \in 1..n, NEW j \in 1..n, i # j
                 PROVE  s[i] # s[j]
      OBVIOUS
    <3>1. s[i] \in Int /\ s[j] \in Int
      BY <1>1
    <3> QED BY <1>1, <3>1
  <2>3. s \in Injection(1..n, S)
    BY <1>3, <2>2 DEF Injection, IsInjective
  <2>4. ExistsBijection(1..n, S)
    BY <2>1, <2>3 DEF ExistsBijection, Bijection
  <2> QED BY <1>1, <2>4, FS_CountingElements, ContentCounting
<1> DEFINE u == CHOOSE t \in [1..Content!Cardinality(S) -> S] :
                   Content!InOrder(t) /\ Content!ToSet(t) = S
<1>5. Content!Slice(S) = u
  BY DEF Content!Slice
<1>6. u \in [1..n -> S] /\ Content!InOrder(u) /\ Content!ToSet(u) = S
  <2>1. Content!ToSet(s) = S
    OBVIOUS
  <2> HIDE DEF S
  <2> QED BY <1>3, <1>4, <2>1
<1>7. u \in Seq(Int) /\ Len(u) = n
  BY <1>1, <1>6 DEF Content!InOrder
<1>8. {u[i] : i \in 1..n} = S
  BY <1>6, <1>7 DEF Content!ToSet
<1>9. u = s
  <2>1. \A i \in 1..n : \E k \in 1..n : u[k] = s[i]
    BY <1>2, <1>8
  <2>2. \A i \in 1..n : \E k \in 1..n : s[k] = u[i]
    BY <1>2, <1>8
  <2> HIDE DEF u, S
  <2>3. Len(s) = n
    OBVIOUS
  <2> HIDE DEF n
  <2> QED BY <1>1, <1>6, <1>7, <2>1, <2>2, <2>3, OrderIsUnique
<1> QED
  BY <1>5, <1>9

(* And sorting leaves them.                                                 *)
LEMMA SortedIs ==
    ASSUME NEW s, Content!InOrder(s)
    PROVE  Content!Sorted(s) = s
<1> DEFINE n == Len(s)
           Good(t) == Content!Ascending(t) /\ Content!VolumesEqual(t, s)
           u == CHOOSE t \in [DOMAIN s -> Content!ToSet(s)] : Good(t)
<1>1. /\ s \in Seq(Int) /\ n \in Nat /\ DOMAIN s = 1..n
      /\ \A i, j \in 1..n : i < j => s[i] < s[j]
      /\ \A i \in 1..n : s[i] \in Int
  BY DEF Content!InOrder
<1>2. s \in [DOMAIN s -> Content!ToSet(s)]
  BY <1>1 DEF Content!ToSet
<1>3. Content!Ascending(s)
  BY <1>1 DEF Content!Ascending
<1>4. Content!VolumesEqual(s, s)
  BY DEF Content!VolumesEqual
<1>5. u \in [1..n -> Content!ToSet(s)] /\ Good(u)
  <2> HIDE DEF Good
  <2>1. Good(s)
    BY <1>3, <1>4 DEF Good
  <2> QED BY <1>1, <1>2, <2>1
<1>6. Content!Sorted(s) = u
  BY DEF Content!Sorted
<1> HIDE DEF u
<1>7. Content!ToSet(s) = {s[i] : i \in 1..n}
  BY <1>1 DEF Content!ToSet
<1>8. u \in Seq(Int) /\ Len(u) = n
  BY <1>1, <1>5, <1>7
<1>9. ASSUME NEW i \in 1..n
      PROVE  /\ Content!Cardinality(Content!Copies(u, s[i])) = 1
             /\ \E k : Content!Copies(u, s[i]) = {k}
  <2>1. Content!Copies(s, s[i]) = {i}
    <3>1. \A j \in 1..n : s[j] = s[i] => j = i
      BY <1>1
    <3> QED BY <1>1, <3>1 DEF Content!Copies
  <2>2. s[i] \in Content!ToSet(s)
    BY <1>7
  <2>3. Cardinality(Content!Copies(u, s[i])) = 1
    BY <1>5, <2>1, <2>2, FS_Singleton, ContentCounting DEF Content!VolumesEqual
  <2>4. IsFiniteSet(Content!Copies(u, s[i]))
    <3>1. Content!Copies(u, s[i]) \subseteq 1..n
      BY <1>8 DEF Content!Copies
    <3>2. IsFiniteSet(1..n)
      BY <1>1, FS_Interval
    <3> QED BY <3>1, <3>2, FS_Subset
  <2> QED BY <2>3, <2>4, FS_Singleton, ContentCounting
<1>10. \A i \in 1..n : \E k \in 1..n : u[k] = s[i]
  <2> TAKE i \in 1..n
  <2>1. PICK k : Content!Copies(u, s[i]) = {k}
    BY <1>9
  <2>2. k \in DOMAIN u /\ u[k] = s[i]
    BY <2>1 DEF Content!Copies
  <2> QED BY <1>8, <2>2
<1>11. \A i \in 1..n : \E k \in 1..n : s[k] = u[i]
  BY <1>5, <1>7
<1>12. ASSUME NEW i \in 1..n, NEW j \in 1..n, i < j
       PROVE  u[i] < u[j]
  <2>1. u[i] <= u[j] /\ u[i] \in Int /\ u[j] \in Int
    BY <1>5, <1>8, <1>12 DEF Content!Ascending
  <2>2. u[i] # u[j]
    <3> SUFFICES ASSUME u[i] = u[j] PROVE FALSE
      OBVIOUS
    <3>1. PICK k \in 1..n : s[k] = u[i]
      BY <1>11
    <3>2. i \in Content!Copies(u, s[k]) /\ j \in Content!Copies(u, s[k])
      BY <1>8, <3>1 DEF Content!Copies
    <3>3. PICK m : Content!Copies(u, s[k]) = {m}
      BY <1>9
    <3>4. i = j
      BY <3>2, <3>3
    <3> QED BY <1>12, <3>4
  <2> QED BY <2>1, <2>2
<1>13. Content!InOrder(u)
  BY <1>8, <1>12 DEF Content!InOrder
<1>14. u = s
  <2>1. Len(s) = n
    OBVIOUS
  <2> HIDE DEF n
  <2> QED BY <1>1, <1>8, <1>10, <1>11, <1>13, <2>1, OrderIsUnique
<1> QED
  BY <1>6, <1>14

(* There are n positions up to n.                                           *)
LEMMA PositionsUpTo ==
    ASSUME NEW n \in Nat
    PROVE  Content!Cardinality(1..n) = n
<1>1. Cardinality(1..n) = n
  BY FS_Interval
<1> QED BY <1>1, ContentCounting

(* Repairing leaves volumes of which none is nil.                           *)
LEMMA NothingToRepair ==
    ASSUME NEW vs, NEW n \in Nat, vs = [i \in 1..n |-> vs[i]],
           Content!NoVolume \notin Content!ToSet(vs)
    PROVE  Content!RepairedInPlace(vs) = vs
<1> DEFINE kept == {i \in DOMAIN vs : vs[i] # Content!NoVolume}
           nth(k) == CHOOSE i \in kept : Content!Cardinality({j \in kept : j <= i}) = k
<1>1. kept = 1..n
  BY DEF Content!ToSet
<1>2. Content!Cardinality(kept) = n
  <2> HIDE DEF kept
  <2> QED BY <1>1, PositionsUpTo
<1>3. ASSUME NEW k \in 1..n
      PROVE  nth(k) = k
  <2>1. \A i \in 1..n : {j \in 1..n : j <= i} = 1..i
    OBVIOUS
  <2>2. \A i \in 1..n : Content!Cardinality({j \in 1..n : j <= i}) = i
    <3> TAKE i \in 1..n
    <3>1. i \in Nat /\ i >= 1
      OBVIOUS
    <3> QED BY <2>1, <3>1, PositionsUpTo
  <2> HIDE DEF kept
  <2> QED BY <1>1, <2>2
<1>4. Content!WithoutNil(vs) = [k \in 1..n |-> vs[nth(k)]]
  <2> HIDE DEF nth
  <2>1. Content!WithoutNil(vs) = [k \in 1..Content!Cardinality(kept) |-> vs[nth(k)]]
    BY DEF Content!WithoutNil, nth
  <2> HIDE DEF kept
  <2> QED BY <1>2, <2>1
<1> HIDE DEF nth, kept
<1>5. Content!WithoutNil(vs) = vs
  BY <1>3, <1>4
<1> QED
  BY <1>5 DEF Content!RepairedInPlace

(* What the fold over a single spec goes through.                          *)
IterOf(w, f) == CHOOSE iter : iter = [s \in SUBSET (DOMAIN <<w>>) |->
                   IF s = {} THEN Content!Empty
                   ELSE LET x == Content!Max(s) IN Content!Over(iter[s \ {x}], <<w>>[x][f])]

(* The fold is taken at its end.                                           *)
LEMMA FoldIs == ASSUME NEW w, NEW f
  PROVE Content!FoldLeft(LAMBDA own, s : Content!Over(own, s[f]), Content!Empty, <<w>>) = IterOf(w, f)[DOMAIN <<w>>]
BY Zenon DEF Content!FoldLeft, Content!MapThenFoldSet, IterOf

(* It takes one step.                                                       *)
LEMMA IterIs == ASSUME NEW w, NEW f
  PROVE IterOf(w, f)[{1}] = Content!Over(Content!Empty, w[f])
<1> DEFINE g == [s \in SUBSET {1} |-> IF s = {} THEN Content!Empty ELSE Content!Over(Content!Empty, w[f])]
           it == IterOf(w, f)
<1>1. DOMAIN <<w>> = {1} /\ <<w>>[1] = w
  OBVIOUS
<1>2. Content!Max({1}) = 1
  BY DEF Content!Max
<1>3. \A s \in SUBSET {1} : s # {} => s = {1}
  OBVIOUS
<1>4. g = [s \in SUBSET (DOMAIN <<w>>) |->
                   IF s = {} THEN Content!Empty
                   ELSE LET x == Content!Max(s) IN Content!Over(g[s \ {x}], <<w>>[x][f])]
  <2> DEFINE step(s) == IF s = {} THEN Content!Empty
                        ELSE LET x == Content!Max(s) IN Content!Over(g[s \ {x}], <<w>>[x][f])
  <2>1. {1} \ {1} = {} /\ {} \in SUBSET {1}
    OBVIOUS
  <2>2. g[{}] = Content!Empty
    OBVIOUS
  <2>3. step({1}) = Content!Over(Content!Empty, w[f]) /\ step({}) = Content!Empty
    <3> HIDE DEF g
    <3> QED BY <1>1, <1>2, <2>1, <2>2
  <2>4. \A s \in SUBSET {1} : g[s] = step(s)
    <3> HIDE DEF step
    <3> QED BY <1>3, <2>3
  <2>5. g = [s \in SUBSET {1} |-> step(s)]
    <3> HIDE DEF step
    <3> QED BY <2>4
  <2> HIDE DEF g
  <2> QED BY <1>1, <2>5
<1>5. it = [s \in SUBSET (DOMAIN <<w>>) |->
                   IF s = {} THEN Content!Empty
                   ELSE LET x == Content!Max(s) IN Content!Over(it[s \ {x}], <<w>>[x][f])]
  <2> HIDE DEF g
  <2> QED BY <1>4, Zenon DEF IterOf
<1> HIDE DEF it
<1>6. {1} \in SUBSET (DOMAIN <<w>>) /\ {} \in SUBSET (DOMAIN <<w>>) /\ {1} # {}
  BY <1>1
<1>7. it[{1}] = Content!Over(it[{}], w[f])
  BY <1>1, <1>2, <1>5, <1>6
<1>8. it[{}] = Content!Empty
  BY <1>5, <1>6
<1> QED BY <1>7, <1>8 DEF it

----------------------------------------------------------------------------
(* Specs and deployments.                                                   *)
LEMMA SpecFields ==
    /\ DOMAIN Content!zeroSpec = {"version", "instances", "env", "metadata", "resources",
                                  "volumes", "startup", "schedule"}
    /\ DOMAIN Content!Empty = {}
  BY DEF Content!zeroSpec, Content!Empty

(* A map over nothing is that map.                                          *)
LEMMA OverNothing ==
    ASSUME NEW f, Content!IsMap(f)
    PROVE  Content!Over(Content!Empty, f) = f
<1>1. DOMAIN Content!Empty = {}
  BY SpecFields
<1> QED
  BY <1>1 DEF Content!Over, Content!IsMap

(* A single spec is not changed by being flattened.                         *)
LEMMA FlattenIs ==
    ASSUME NEW s, Content!IsSpec(s)
    PROVE  Content!flattenDeployConfigs(<<s>>) = s
<1> DEFINE flat == Content!flattenDeployConfigs(<<s>>)
<1>1. /\ DOMAIN flat = DOMAIN Content!zeroSpec
      /\ flat = [f \in DOMAIN Content!zeroSpec |-> flat[f]]
  <2> DEFINE set(f) == Content!SelectInSeq(<<s>>, LAMBDA x : x[f] # Content!zeroSpec[f])
             value(f) ==
                CASE f \in {"version", "instances", "volumes", "schedule"} ->
                        IF set(f) = 0 THEN Content!zeroSpec[f] ELSE <<s>>[set(f)][f]
                  [] f \in {"env", "metadata", "resources"} ->
                        Content!FoldLeft(LAMBDA own, x : Content!Over(own, x[f]), Content!Empty, <<s>>)
                  [] f = "startup" -> Content!Last(<<s>>).startup
  <2>1. flat = [f \in DOMAIN Content!zeroSpec |-> value(f)]
    BY Zenon DEF Content!flattenDeployConfigs
  <2> HIDE DEF flat, value
  <2> QED BY <2>1
<1>2. ASSUME NEW f \in {"version", "instances", "volumes", "schedule"}
      PROVE  flat[f] = s[f]
  <2> DEFINE at == Content!SelectInSeq(<<s>>, LAMBDA x : x[f] # Content!zeroSpec[f])
  <2>1. f \in DOMAIN Content!zeroSpec
    BY SpecFields
  <2>2. flat[f] = IF at = 0 THEN Content!zeroSpec[f] ELSE <<s>>[at][f]
    BY <1>2, <2>1, Zenon DEF Content!flattenDeployConfigs
  <2>3. at = IF s[f] # Content!zeroSpec[f] THEN 1 ELSE 0
    <3>1. at = LET I == {i \in 1..Len(<<s>>) : <<s>>[i][f] # Content!zeroSpec[f]}
               IN  IF I # {} THEN Content!Min(I) ELSE 0
      BY Zenon DEF Content!SelectInSeq
    <3>2. 1..Len(<<s>>) = {1} /\ <<s>>[1] = s
      OBVIOUS
    <3>3. Content!Min({1}) = 1
      BY DEF Content!Min
    <3>4. {i \in {1} : <<s>>[i][f] # Content!zeroSpec[f]}
             = IF s[f] # Content!zeroSpec[f] THEN {1} ELSE {}
      OBVIOUS
    <3> HIDE DEF at
    <3> QED BY <3>1, <3>2, <3>3, <3>4
  <2> HIDE DEF at, flat
  <2> QED BY <2>2, <2>3
<1>3. ASSUME NEW f \in {"env", "metadata", "resources"}
      PROVE  flat[f] = s[f]
  <2>1. f \in DOMAIN Content!zeroSpec /\ f \notin {"version", "instances", "volumes", "schedule"}
    BY SpecFields
  <2>2. flat[f] = Content!FoldLeft(LAMBDA own, x : Content!Over(own, x[f]), Content!Empty, <<s>>)
    BY <1>3, <2>1, Zenon DEF Content!flattenDeployConfigs
  <2>3. flat[f] = IterOf(s, f)[DOMAIN <<s>>]
    BY <2>2, FoldIs, Zenon
  <2>4. DOMAIN <<s>> = {1}
    OBVIOUS
  <2>5. flat[f] = Content!Over(Content!Empty, s[f])
    BY <2>3, <2>4, IterIs, Zenon
  <2>6. Content!IsMap(s[f])
    BY DEF Content!IsSpec
  <2> QED BY <2>5, <2>6, OverNothing, Zenon
<1>4. flat["startup"] = s["startup"]
  <2>1. /\ "startup" \in DOMAIN Content!zeroSpec
        /\ "startup" \notin {"version", "instances", "volumes", "schedule"}
        /\ "startup" \notin {"env", "metadata", "resources"}
    BY SpecFields
  <2>2. flat["startup"] = Content!Last(<<s>>).startup
    BY <2>1, Zenon DEF Content!flattenDeployConfigs
  <2>3. Content!Last(<<s>>) = s
    BY DEF Content!Last
  <2> QED BY <2>2, <2>3
<1> HIDE DEF flat
<1>5. \A f \in DOMAIN Content!zeroSpec : flat[f] = s[f]
  BY <1>2, <1>3, <1>4, SpecFields
<1>6. s = [f \in DOMAIN Content!zeroSpec |-> s[f]]
  BY DEF Content!IsSpec, Content!IsMap
<1>7. flat = s
  BY <1>1, <1>5, <1>6
<1> QED
  BY <1>7 DEF flat

(* A spec with what its cluster adds to it, and with another version.       *)
FullSpec(s, cluster) ==
    [s EXCEPT !.startup = Content!MergeDefaults(cluster.startup, s.startup),
              !.env = Content!Over(s.env, cluster.env)]
Bump(s, version) == [s EXCEPT !.version = version]
BumpIf(s, yes, version) == IF yes THEN Bump(s, version) ELSE s

(* What a cluster adds to a spec leaves a spec, and is added once.          *)
LEMMA FullSpecIs ==
    ASSUME NEW s, Content!IsSpec(s), NEW cluster, Content!IsCluster(cluster)
    PROVE  /\ Content!IsSpec(FullSpec(s, cluster))
           /\ FullSpec(FullSpec(s, cluster), cluster) = FullSpec(s, cluster)
<1> DEFINE t == FullSpec(s, cluster)
           startup == Content!MergeDefaults(cluster.startup, s.startup)
           env == Content!Over(s.env, cluster.env)
<1>1. /\ DOMAIN s = DOMAIN Content!zeroSpec /\ s = [n \in DOMAIN s |-> s[n]]
      /\ "startup" \in DOMAIN s /\ "env" \in DOMAIN s
  BY SpecFields DEF Content!IsSpec, Content!IsMap
<1>2. /\ DOMAIN t = DOMAIN s /\ t = [n \in DOMAIN s |-> t[n]]
      /\ t.startup = startup /\ t.env = env
      /\ \A n \in DOMAIN s : n \notin {"startup", "env"} => t[n] = s[n]
  BY <1>1 DEF FullSpec
<1>3. Content!IsStartup(startup) /\ Content!IsMap(env)
  BY DEF Content!IsSpec, Content!IsStartup, Content!IsMap, Content!MergeDefaults, Content!Over
<1>4. /\ t.metadata = s.metadata /\ t.resources = s.resources /\ t.volumes = s.volumes
  BY <1>1, <1>2, SpecFields
<1>5. Content!IsSpec(t)
  BY <1>1, <1>2, <1>3, <1>4 DEF Content!IsSpec, Content!IsMap
<1>6. Content!MergeDefaults(cluster.startup, startup) = startup
  BY DEF Content!MergeDefaults
<1>7. Content!Over(env, cluster.env) = env
  BY DEF Content!Over
<1> HIDE DEF t, startup, env
<1>8. FullSpec(t, cluster) = t
  BY <1>1, <1>2, <1>6, <1>7 DEF FullSpec
<1> QED
  BY <1>5, <1>8 DEF t

(* What a deployment is built of.                                           *)
LEMMA BuildIs ==
    ASSUME NEW m, NEW s, Content!IsSpec(s), NEW cluster, Content!IsCluster(cluster)
    PROVE  LET d == Content!BuildDeployment(m, s, cluster)
           IN  /\ Content!IsMap(d) /\ DOMAIN d = DOMAIN Content!zeroSpec \cup {"owners", "kind"}
               /\ d.owners = Content!ToSet(m.owners) /\ d.kind = m.kind
               /\ Content!DeploySpec(d) = FullSpec(s, cluster)
<1> DEFINE d == Content!BuildDeployment(m, s, cluster)
           names == DOMAIN Content!zeroSpec \cup {"owners", "kind"}
           plain == [n \in names |-> IF n = "owners" THEN Content!NewOwnerSet(m.owners)
                                     ELSE IF n = "kind" THEN m.kind ELSE s[n]]
<1>1. /\ DOMAIN s = DOMAIN Content!zeroSpec /\ s = [n \in DOMAIN s |-> s[n]]
      /\ "startup" \in DOMAIN s /\ "env" \in DOMAIN s /\ "owners" \notin DOMAIN s /\ "kind" \notin DOMAIN s
  BY SpecFields DEF Content!IsSpec, Content!IsMap
<1>2. d = [plain EXCEPT !.startup = Content!MergeDefaults(cluster.startup, s.startup),
                        !.env = Content!Over(s.env, cluster.env)]
  <2>1. Content!flattenDeployConfigs(<<s>>) = s
    BY FlattenIs
  <2> QED BY <1>1, <2>1, Zenon DEF Content!BuildDeployment
<1>3. /\ DOMAIN plain = names
      /\ plain.owners = Content!ToSet(m.owners) /\ plain.kind = m.kind
      /\ \A n \in DOMAIN s : plain[n] = s[n]
  BY <1>1 DEF Content!NewOwnerSet
<1> HIDE DEF d, plain
<1>4. /\ DOMAIN d = names /\ d = [n \in names |-> d[n]]
      /\ d.owners = Content!ToSet(m.owners) /\ d.kind = m.kind
      /\ d.startup = Content!MergeDefaults(cluster.startup, s.startup)
      /\ d.env = Content!Over(s.env, cluster.env)
      /\ \A n \in DOMAIN s : n \notin {"startup", "env"} => d[n] = s[n]
  BY <1>1, <1>2, <1>3
<1>5. Content!DeploySpec(d) = FullSpec(s, cluster)
  BY <1>1, <1>4 DEF Content!DeploySpec, FullSpec
<1>6. Content!IsMap(d)
  BY <1>4 DEF Content!IsMap
<1> QED
  BY <1>4, <1>5, <1>6 DEF d

(* A deployment that is made of a spec, with another version perhaps, is    *)
(* that spec again when what the cluster gives is taken out.                *)
LEMMA PutbackIs ==
    ASSUME NEW s, Content!IsSpec(s), NEW cluster, Content!IsCluster(cluster), NEW d,
           NEW yes \in BOOLEAN, NEW version,
           Content!DeploySpec(d) = BumpIf(FullSpec(s, cluster), yes, version)
    PROVE  Content!PutbackSpec(d, cluster, s) = BumpIf(s, yes, version)
<1> DEFINE t == FullSpec(s, cluster)
           names == DOMAIN Content!zeroSpec
           spec == Content!DeploySpec(d)
           startup == Content!MergeDefaults(cluster.startup, s.startup)
           env == Content!Over(s.env, cluster.env)
           back == Content!PutbackSpec(d, cluster, s)
<1>1. /\ DOMAIN s = names /\ s = [n \in names |-> s[n]]
      /\ "startup" \in names /\ "env" \in names /\ "version" \in names
  BY SpecFields DEF Content!IsSpec, Content!IsMap
<1>2. /\ t.startup = startup /\ t.env = env
      /\ DOMAIN t = names /\ t = [n \in names |-> t[n]]
      /\ \A n \in names : n \notin {"startup", "env"} => t[n] = s[n]
  BY <1>1 DEF FullSpec
<1>3. /\ DOMAIN spec = names /\ spec = [n \in names |-> spec[n]]
      /\ \A n \in names : spec[n] = d[n]
      /\ \A n \in names : n # "version" => spec[n] = t[n]
      /\ spec.version = IF yes THEN version ELSE t.version
  <2>1. spec = IF yes THEN [t EXCEPT !.version = version] ELSE t
    BY DEF BumpIf, Bump
  <2>2. DOMAIN spec = names /\ spec = [n \in names |-> spec[n]] /\ \A n \in names : spec[n] = d[n]
    BY DEF Content!DeploySpec
  <2> HIDE DEF t, spec
  <2>3. \A n \in names : n # "version" => spec[n] = t[n]
    BY <1>2, <2>1
  <2>4. spec.version = IF yes THEN version ELSE t.version
    BY <1>1, <1>2, <2>1
  <2> QED
    BY <2>2, <2>3, <2>4
<1>4. Content!UnmergeDefaults(cluster.startup, startup, s.startup) = s.startup
  BY DEF Content!UnmergeDefaults, Content!MergeDefaults, Content!IsSpec, Content!IsStartup, Content!IsMap
<1>5. Content!PutbackEnv(env, cluster.env, s.env) = s.env
  BY DEF Content!PutbackEnv, Content!Over, Content!IsSpec, Content!IsMap
<1>6. back = [spec EXCEPT !.startup = s.startup, !.env = s.env]
  <2>1. d.startup = startup /\ d.env = env
    BY <1>1, <1>2, <1>3
  <2> HIDE DEF startup, env
  <2> QED BY <1>4, <1>5, <2>1 DEF Content!PutbackSpec
<1> HIDE DEF t, spec, back
<1>7. /\ DOMAIN back = names /\ back = [n \in names |-> back[n]]
      /\ \A n \in names : n # "version" => back[n] = s[n]
      /\ back.version = IF yes THEN version ELSE s.version
  BY <1>1, <1>2, <1>3, <1>6
<1>8. CASE yes
  BY <1>1, <1>7, <1>8 DEF BumpIf, Bump, back
<1>9. CASE ~yes
  BY <1>1, <1>7, <1>9 DEF BumpIf, Bump, back
<1> QED
  BY <1>8, <1>9

(* What is put back of any deployment is a spec.                            *)
LEMMA PutbackIsSpec ==
    ASSUME NEW d, Content!IsSpec(Content!DeploySpec(d)), NEW cluster, NEW old
    PROVE  Content!IsSpec(Content!PutbackSpec(d, cluster, old))
<1> DEFINE spec == Content!DeploySpec(d)
           names == DOMAIN Content!zeroSpec
           startup == Content!UnmergeDefaults(cluster.startup, d.startup, old.startup)
           env == Content!PutbackEnv(d.env, cluster.env, old.env)
           back == Content!PutbackSpec(d, cluster, old)
<1>1. /\ DOMAIN spec = names /\ spec = [n \in names |-> spec[n]]
      /\ \A n \in names : spec[n] = d[n]
      /\ \A n \in {"startup", "env", "metadata", "resources", "volumes"} : n \in names
  BY SpecFields DEF Content!DeploySpec
<1>2. back = [spec EXCEPT !.startup = startup, !.env = env]
  BY DEF Content!PutbackSpec
<1>3. Content!IsStartup(startup) /\ Content!IsMap(env)
  BY <1>1 DEF Content!IsSpec, Content!IsStartup, Content!IsMap, Content!UnmergeDefaults, Content!PutbackEnv
<1> HIDE DEF back, startup, env, spec
<1>4. /\ DOMAIN back = names /\ back = [n \in names |-> back[n]]
      /\ back.startup = startup /\ back.env = env
      /\ \A n \in names : n \notin {"startup", "env"} => back[n] = spec[n]
  BY <1>1, <1>2
<1>5. /\ back.metadata = spec.metadata /\ back.resources = spec.resources
      /\ back.volumes = spec.volumes
  BY <1>1, <1>4
<1>6. Content!IsMap(spec.metadata) /\ Content!IsMap(spec.resources)
      /\ spec.volumes \in Seq(Content!ToSet(spec.volumes))
  BY DEF Content!IsSpec, spec
<1>7. Content!IsSpec(back)
  BY <1>3, <1>4, <1>5, <1>6 DEF Content!IsSpec, Content!IsMap
<1> QED
  BY <1>7 DEF back

----------------------------------------------------------------------------
(* States, defaults and deployments as a whole.                             *)
IsState(state) ==
    /\ Content!IsMap(state)
    /\ \A id \in DOMAIN state : /\ Content!IsManifest(state[id])
                                /\ DOMAIN state[id].specs \subseteq DOMAIN InitialDefs
IsDefs(clusters) ==
    /\ Content!IsMap(clusters) /\ DOMAIN clusters = DOMAIN InitialDefs
    /\ \A c \in DOMAIN clusters : Content!IsCluster(clusters[c])
IsDeployment(d) ==
    /\ Content!IsMap(d) /\ DOMAIN d = DOMAIN Content!zeroSpec \cup {"owners", "kind"}
    /\ Content!IsSpec(Content!DeploySpec(d))
    /\ \E o : Content!InOrder(o) /\ d.owners = Content!ToSet(o)
IsDeployments(ds) ==
    /\ Content!IsMap(ds)
    /\ \A did \in DOMAIN ds : /\ did = <<did[1], did[2]>> /\ did[2] \in DOMAIN InitialDefs
                              /\ IsDeployment(ds[did])

(* The deployments of a state, by their ids.                                *)
Dids(state) ==
    {did \in (DOMAIN state) \X (DOMAIN InitialDefs) : did[2] \in DOMAIN state[did[1]].specs}

(* ds has the owners and kinds of the state's manifests.                    *)
SameHeads(ds, state) ==
    \A did \in DOMAIN ds : /\ ds[did].owners = Content!ToSet(state[did[1]].owners)
                           /\ ds[did].kind = state[did[1]].kind

(* The deployments of a state have its manifests' owners and kinds, and its *)
(* specs with what the clusters add.                                        *)
LEMMA DeploymentsAre ==
    ASSUME NEW state, IsState(state), NEW clusters, IsDefs(clusters)
    PROVE  LET ds == Content!DeploymentsOf(state, clusters)
           IN  /\ IsDeployments(ds) /\ DOMAIN ds = Dids(state) /\ SameHeads(ds, state)
               /\ \A did \in DOMAIN ds :
                     Content!DeploySpec(ds[did]) = FullSpec(state[did[1]].specs[did[2]], clusters[did[2]])
<1> DEFINE ds == Content!DeploymentsOf(state, clusters)
<1>1. /\ DOMAIN ds = Dids(state) /\ ds = [did \in Dids(state) |-> ds[did]]
      /\ \A did \in Dids(state) :
            ds[did] = Content!BuildDeployment(state[did[1]], state[did[1]].specs[did[2]], clusters[did[2]])
  BY DEF Content!DeploymentsOf, Dids, IsDefs
<1> HIDE DEF ds
<1>2. ASSUME NEW did \in Dids(state)
      PROVE  /\ did = <<did[1], did[2]>> /\ did[2] \in DOMAIN InitialDefs
             /\ IsDeployment(ds[did])
             /\ ds[did].owners = Content!ToSet(state[did[1]].owners)
             /\ ds[did].kind = state[did[1]].kind
             /\ Content!DeploySpec(ds[did]) = FullSpec(state[did[1]].specs[did[2]], clusters[did[2]])
  <2> DEFINE m == state[did[1]]
             s == m.specs[did[2]]
             cluster == clusters[did[2]]
  <2>1. /\ did = <<did[1], did[2]>> /\ did[1] \in DOMAIN state
        /\ did[2] \in DOMAIN InitialDefs /\ did[2] \in DOMAIN m.specs
    BY DEF Dids
  <2>2. /\ Content!IsSpec(s) /\ Content!IsCluster(cluster) /\ Content!InOrder(m.owners)
    BY <2>1 DEF IsState, IsDefs, Content!IsManifest
  <2>3. ds[did] = Content!BuildDeployment(m, s, cluster)
    BY <1>1
  <2> HIDE DEF m, s, cluster
  <2>4. /\ Content!IsMap(ds[did]) /\ DOMAIN ds[did] = DOMAIN Content!zeroSpec \cup {"owners", "kind"}
        /\ ds[did].owners = Content!ToSet(m.owners) /\ ds[did].kind = m.kind
        /\ Content!DeploySpec(ds[did]) = FullSpec(s, cluster)
    BY <2>2, <2>3, BuildIs
  <2>5. Content!IsSpec(FullSpec(s, cluster))
    BY <2>2, FullSpecIs
  <2>6. IsDeployment(ds[did])
    BY <2>2, <2>4, <2>5 DEF IsDeployment
  <2> QED
    BY <2>1, <2>4, <2>6 DEF m, s, cluster
<1>3. IsDeployments(ds)
  BY <1>1, <1>2 DEF IsDeployments, Content!IsMap
<1>4. SameHeads(ds, state)
  BY <1>1, <1>2 DEF SameHeads
<1> QED
  BY <1>1, <1>2, <1>3, <1>4 DEF ds

(* A manifest that is made of deployments.                                  *)
MadeFrom(ds, spec, id, m) ==
    \E c, k \in Content!ClustersOf(ds, id) :
       m = [owners |-> Content!Slice(ds[<<id, c>>].owners), kind |-> ds[<<id, k>>].kind,
            specs |-> [e \in Content!ClustersOf(ds, id) |-> spec[<<id, e>>]]]

(* All that is made of deployments is made so.                              *)
LEMMA ManifestsAre ==
    ASSUME NEW ds, NEW spec, NEW new \in Content!ManifestsOf(ds, spec)
    PROVE  /\ Content!IsMap(new) /\ DOMAIN new = {did[1] : did \in DOMAIN ds}
           /\ \A id \in DOMAIN new : MadeFrom(ds, spec, id, new[id])
<1> DEFINE ids == {did[1] : did \in DOMAIN ds}
           specs(id) == [e \in Content!ClustersOf(ds, id) |-> spec[<<id, e>>]]
           choices == [id \in ids |-> Content!ManifestOf(ds, id, specs(id))]
<1>1. /\ new \in [ids -> UNION {choices[id] : id \in ids}]
      /\ \A id \in ids : new[id] \in choices[id]
  BY Zenon DEF Content!ManifestsOf, Content!ManifestID
<1>2. ASSUME NEW id \in ids
      PROVE  \E c, k \in Content!ClustersOf(ds, id) :
                new[id] = [owners |-> Content!Slice(ds[<<id, c>>].owners), kind |-> ds[<<id, k>>].kind,
                           specs |-> specs(id)]
  <2> HIDE DEF specs
  <2>1. new[id] \in Content!ManifestOf(ds, id, specs(id))
    BY <1>1
  <2> DEFINE cs == Content!ClustersOf(ds, id)
  <2>2. PICK visit \in {v \in cs \X cs : v[1] = v[2] => cs = {v[1]}} :
           new[id] = [owners |-> Content!Slice(ds[<<id, visit[1]>>].owners),
                      kind |-> ds[<<id, visit[2]>>].kind, specs |-> specs(id)]
    BY <2>1, Zenon DEF Content!ManifestOf
  <2>3. visit[1] \in cs /\ visit[2] \in cs
    OBVIOUS
  <2> QED BY <2>2, <2>3, Zenon
<1> QED
  BY <1>1, <1>2 DEF Content!IsMap, MadeFrom

(* What is made of deployments is a state.                                  *)
LEMMA MadeIsState ==
    ASSUME NEW ds, IsDeployments(ds), NEW spec, \A did \in DOMAIN ds : Content!IsSpec(spec[did]),
           NEW new \in Content!ManifestsOf(ds, spec)
    PROVE  IsState(new)
<1>1. ASSUME NEW id \in DOMAIN new
      PROVE  Content!IsManifest(new[id]) /\ DOMAIN new[id].specs \subseteq DOMAIN InitialDefs
  <2> DEFINE cs == Content!ClustersOf(ds, id)
  <2>1. \A e \in cs : <<id, e>> \in DOMAIN ds
    BY DEF Content!ClustersOf
  <2>2. PICK c \in cs, k \in cs :
           new[id] = [owners |-> Content!Slice(ds[<<id, c>>].owners), kind |-> ds[<<id, k>>].kind,
                      specs |-> [e \in cs |-> spec[<<id, e>>]]]
    <3>1. MadeFrom(ds, spec, id, new[id])
      BY ManifestsAre
    <3> QED BY <3>1, Zenon DEF MadeFrom
  <2> HIDE DEF cs
  <2>3. PICK o : Content!InOrder(o) /\ ds[<<id, c>>].owners = Content!ToSet(o)
    BY <2>1 DEF IsDeployments, IsDeployment
  <2>4. new[id].owners = o
    BY <2>2, <2>3, SliceIs
  <2>5. /\ new[id].specs = [e \in cs |-> spec[<<id, e>>]]
        /\ new[id] = [owners |-> new[id].owners, kind |-> new[id].kind, specs |-> new[id].specs]
    BY <2>2
  <2>6. /\ Content!IsMap(new[id].specs) /\ DOMAIN new[id].specs = cs
        /\ \A e \in cs : Content!IsSpec(new[id].specs[e])
    BY <2>1, <2>5 DEF Content!IsMap
  <2>7. cs \subseteq DOMAIN InitialDefs
    <3> SUFFICES ASSUME NEW e \in cs PROVE e \in DOMAIN InitialDefs
      OBVIOUS
    <3>1. <<id, e>>[2] = e
      OBVIOUS
    <3> QED BY <2>1, <3>1 DEF IsDeployments
  <2> QED
    BY <2>3, <2>4, <2>5, <2>6, <2>7 DEF Content!IsManifest
<1>2. Content!IsMap(new)
  BY ManifestsAre, Zenon
<1> QED
  BY <1>1, <1>2 DEF IsState

(* Whatever deployments are put back, a state comes of it.                  *)
LEMMA PutbackIsState ==
    ASSUME NEW ds, IsDeployments(ds), NEW clusters, NEW olds,
           NEW new \in Content!PutbackManifests(ds, clusters, olds)
    PROVE  IsState(new)
<1> DEFINE spec == [did \in DOMAIN ds |->
              Content!PutbackSpec(ds[did], clusters[did], Content!OldSpec(olds, did[1], did[2]))]
<1>1. new \in Content!ManifestsOf(ds, spec)
  BY DEF Content!PutbackManifests
<1>2. \A did \in DOMAIN ds : Content!IsSpec(spec[did])
  <2> TAKE did \in DOMAIN ds
  <2>1. Content!IsSpec(Content!DeploySpec(ds[did]))
    BY DEF IsDeployments, IsDeployment
  <2>2. spec[did] = Content!PutbackSpec(ds[did], clusters[did], Content!OldSpec(olds, did[1], did[2]))
    OBVIOUS
  <2> HIDE DEF spec
  <2> QED BY <2>1, <2>2, PutbackIsSpec
<1> HIDE DEF spec
<1> QED
  BY <1>1, <1>2, MadeIsState

(* The manifests that deploy something: those are made of deployments.      *)
Deploying(state) == {id \in DOMAIN state : DOMAIN state[id].specs # {}}

(* What is made of a state's deployments has its owners, kinds and clusters,*)
(* and the specs that are given.                                            *)
LEMMA MadeOf ==
    ASSUME NEW state, IsState(state), NEW ds, IsDeployments(ds), DOMAIN ds = Dids(state),
           SameHeads(ds, state), NEW spec, NEW new \in Content!ManifestsOf(ds, spec)
    PROVE  /\ Content!IsMap(new) /\ DOMAIN new = Deploying(state) /\ Dids(new) = Dids(state)
           /\ \A id \in DOMAIN new :
                 new[id] = [owners |-> state[id].owners, kind |-> state[id].kind,
                            specs |-> [c \in DOMAIN state[id].specs |-> spec[<<id, c>>]]]
<1>1. \A id, c : <<id, c>> \in Dids(state)
         <=> id \in DOMAIN state /\ c \in DOMAIN InitialDefs /\ c \in DOMAIN state[id].specs
  BY DEF Dids
<1>2. \A id \in DOMAIN state : DOMAIN state[id].specs \subseteq DOMAIN InitialDefs
  BY DEF IsState
<1>3. ASSUME NEW id \in DOMAIN state
      PROVE  Content!ClustersOf(ds, id) = DOMAIN state[id].specs
  <2>1. \A c : <<id, c>> \in DOMAIN ds <=> c \in DOMAIN state[id].specs
    BY <1>1, <1>2, <1>3
  <2>2. \A c : <<id, c>> \in DOMAIN ds => c \in {did[2] : did \in DOMAIN ds}
    <3> SUFFICES ASSUME NEW c, <<id, c>> \in DOMAIN ds
                 PROVE  \E did \in DOMAIN ds : c = did[2]
      OBVIOUS
    <3>1. <<id, c>>[2] = c
      OBVIOUS
    <3> QED BY <3>1
  <2> QED
    BY <2>1, <2>2 DEF Content!ClustersOf
<1>4. DOMAIN new = Deploying(state)
  <2>1. DOMAIN new = {did[1] : did \in DOMAIN ds}
    BY ManifestsAre
  <2>2. ASSUME NEW id \in DOMAIN new
        PROVE  id \in Deploying(state)
    <3>1. PICK did \in DOMAIN ds : id = did[1]
      BY <2>1
    <3>2. did = <<did[1], did[2]>>
      BY DEF IsDeployments
    <3>3. id \in DOMAIN state /\ did[2] \in DOMAIN state[id].specs
      BY <1>1, <3>1, <3>2
    <3> QED BY <3>3 DEF Deploying
  <2>3. ASSUME NEW id \in Deploying(state)
        PROVE  id \in DOMAIN new
    <3>1. PICK c : c \in DOMAIN state[id].specs
      BY DEF Deploying
    <3>2. <<id, c>> \in DOMAIN ds
      BY <1>1, <1>2, <3>1 DEF Deploying
    <3>3. <<id, c>>[1] = id
      OBVIOUS
    <3> QED BY <2>1, <3>2, <3>3
  <2> QED BY <2>2, <2>3
<1>5. ASSUME NEW id \in DOMAIN new
      PROVE  new[id] = [owners |-> state[id].owners, kind |-> state[id].kind,
                        specs |-> [c \in DOMAIN state[id].specs |-> spec[<<id, c>>]]]
  <2> DEFINE cs == Content!ClustersOf(ds, id)
  <2>1. id \in DOMAIN state /\ cs = DOMAIN state[id].specs
    BY <1>3, <1>4, <1>5 DEF Deploying
  <2>2. PICK c \in cs, k \in cs :
           new[id] = [owners |-> Content!Slice(ds[<<id, c>>].owners), kind |-> ds[<<id, k>>].kind,
                      specs |-> [e \in cs |-> spec[<<id, e>>]]]
    <3>1. MadeFrom(ds, spec, id, new[id])
      BY <1>5, ManifestsAre
    <3> QED BY <3>1, Zenon DEF MadeFrom
  <2> HIDE DEF cs
  <2>3. <<id, c>> \in DOMAIN ds /\ <<id, k>> \in DOMAIN ds
    BY <1>1, <1>2, <2>1
  <2>4. ds[<<id, c>>].owners = Content!ToSet(state[id].owners) /\ ds[<<id, k>>].kind = state[id].kind
    <3>1. <<id, c>>[1] = id /\ <<id, k>>[1] = id
      OBVIOUS
    <3> QED BY <2>3, <3>1 DEF SameHeads
  <2>5. Content!Slice(Content!ToSet(state[id].owners)) = state[id].owners
    BY <2>1, SliceIs DEF IsState, Content!IsManifest
  <2> QED
    BY <2>1, <2>2, <2>4, <2>5
<1>6. Dids(new) = Dids(state)
  <2>1. \A id \in DOMAIN new : DOMAIN new[id].specs = DOMAIN state[id].specs
    BY <1>5
  <2>2. \A id \in DOMAIN state : id \notin DOMAIN new => DOMAIN state[id].specs = {}
    BY <1>4 DEF Deploying
  <2>3. DOMAIN new \subseteq DOMAIN state
    BY <1>4 DEF Deploying
  <2> QED BY <2>1, <2>2, <2>3 DEF Dids
<1> QED
  BY <1>4, <1>5, <1>6, ManifestsAre

----------------------------------------------------------------------------
(* The way of an update.                                                    *)

(* What a client has read of base: its manifests with what the clusters add.*)
ReadOf(raw, base, clusters) ==
    /\ IsState(raw) /\ Dids(raw) = Dids(base)
    /\ \A did \in Dids(base) :
          /\ raw[did[1]].owners = base[did[1]].owners /\ raw[did[1]].kind = base[did[1]].kind
          /\ raw[did[1]].specs[did[2]] = FullSpec(base[did[1]].specs[did[2]], clusters[did[2]])

(* What a client sends that has read base and changes the version of one    *)
(* deployment: base's deployments, with that version.                       *)
SentOf(ds, base, clusters, asked, version) ==
    /\ IsDeployments(ds) /\ DOMAIN ds = Dids(base) /\ asked \in Dids(base)
    /\ SameHeads(ds, base)
    /\ \A did \in Dids(base) :
          Content!DeploySpec(ds[did])
             = BumpIf(FullSpec(base[did[1]].specs[did[2]], clusters[did[2]]), did = asked, version)

(* The manifests of base that deploy something, with that version.          *)
ChangedTo(new, base, asked, version) ==
    /\ Content!IsMap(new) /\ DOMAIN new = Deploying(base) /\ Dids(new) = Dids(base)
    /\ \A id \in DOMAIN new :
          new[id] = [owners |-> base[id].owners, kind |-> base[id].kind,
                     specs |-> [c \in DOMAIN base[id].specs |->
                                  BumpIf(base[id].specs[c], <<id, c>> = asked, version)]]

(* A spec with another version is a spec, and is completed as before.       *)
LEMMA BumpIs ==
    ASSUME NEW s, Content!IsSpec(s), NEW yes \in BOOLEAN, NEW version
    PROVE  /\ Content!IsSpec(BumpIf(s, yes, version))
           /\ \A cluster : FullSpec(BumpIf(s, yes, version), cluster)
                              = BumpIf(FullSpec(s, cluster), yes, version)
           /\ BumpIf(s, yes, version).volumes = s.volumes
<1> DEFINE t == [s EXCEPT !.version = version]
           names == DOMAIN Content!zeroSpec
<1>1. /\ DOMAIN s = names /\ s = [n \in names |-> s[n]]
      /\ \A n \in {"version", "startup", "env", "metadata", "resources", "volumes"} : n \in names
  BY SpecFields DEF Content!IsSpec, Content!IsMap
<1>2. /\ DOMAIN t = names /\ t = [n \in names |-> t[n]]
      /\ t.startup = s.startup /\ t.env = s.env /\ t.metadata = s.metadata
      /\ t.resources = s.resources /\ t.volumes = s.volumes
  BY <1>1
<1>3. ASSUME NEW cluster
      PROVE  FullSpec(t, cluster) = [FullSpec(s, cluster) EXCEPT !.version = version]
  BY <1>1, <1>2 DEF FullSpec
<1> HIDE DEF t
<1>4. Content!IsSpec(t)
  BY <1>1, <1>2 DEF Content!IsSpec, Content!IsMap
<1>5. CASE yes
  BY <1>2, <1>3, <1>4, <1>5 DEF BumpIf, Bump, t
<1>6. CASE ~yes
  BY <1>6 DEF BumpIf
<1> QED
  BY <1>5, <1>6

(* A manifest that a state has for a deployment.                            *)
LEMMA DidIs ==
    ASSUME NEW state, IsState(state), NEW did \in Dids(state)
    PROVE  /\ did = <<did[1], did[2]>> /\ did[1] \in DOMAIN state /\ did[2] \in DOMAIN InitialDefs
           /\ did[2] \in DOMAIN state[did[1]].specs
           /\ Content!IsManifest(state[did[1]]) /\ Content!InOrder(state[did[1]].owners)
           /\ Content!IsSpec(state[did[1]].specs[did[2]])
  BY DEF Dids, IsState, Content!IsManifest

(* GET: the client has everything written out.                              *)
LEMMA ReadIs ==
    ASSUME NEW state, IsState(state), NEW clusters, IsDefs(clusters),
           NEW raw \in Content!RawManifests(Content!DeploymentsOf(state, clusters))
    PROVE  ReadOf(raw, state, clusters)
<1> DEFINE ds == Content!DeploymentsOf(state, clusters)
           spec == [did \in DOMAIN ds |-> Content!DeploySpec(ds[did])]
<1>1. /\ IsDeployments(ds) /\ DOMAIN ds = Dids(state) /\ SameHeads(ds, state)
      /\ \A did \in DOMAIN ds :
            Content!DeploySpec(ds[did]) = FullSpec(state[did[1]].specs[did[2]], clusters[did[2]])
  BY DeploymentsAre
<1>2. raw \in Content!ManifestsOf(ds, spec)
  BY DEF Content!RawManifests
<1> HIDE DEF ds
<1>3. \A did \in DOMAIN ds : Content!IsSpec(spec[did])
  <2> TAKE did \in DOMAIN ds
  <2>1. spec[did] = Content!DeploySpec(ds[did])
    OBVIOUS
  <2> HIDE DEF spec
  <2> QED BY <1>1, <2>1 DEF IsDeployments, IsDeployment
<1>4. \A did \in Dids(state) :
         spec[did] = FullSpec(state[did[1]].specs[did[2]], clusters[did[2]])
  BY <1>1
<1> HIDE DEF spec
<1>5. IsState(raw)
  BY <1>1, <1>2, <1>3, MadeIsState
<1>6. /\ DOMAIN raw = Deploying(state) /\ Dids(raw) = Dids(state)
      /\ \A id \in DOMAIN raw :
            raw[id] = [owners |-> state[id].owners, kind |-> state[id].kind,
                       specs |-> [c \in DOMAIN state[id].specs |-> spec[<<id, c>>]]]
  BY <1>1, <1>2, MadeOf
<1>7. ASSUME NEW did \in Dids(state)
      PROVE  /\ raw[did[1]].owners = state[did[1]].owners /\ raw[did[1]].kind = state[did[1]].kind
             /\ raw[did[1]].specs[did[2]] = spec[did]
  <2>1. /\ did = <<did[1], did[2]>> /\ did[1] \in DOMAIN state
        /\ did[2] \in DOMAIN state[did[1]].specs
    BY DidIs
  <2>2. did[1] \in DOMAIN raw
    BY <1>6, <2>1 DEF Deploying
  <2> DEFINE id == did[1]
             c == did[2]
  <2>3. raw[id] = [owners |-> state[id].owners, kind |-> state[id].kind,
                   specs |-> [e \in DOMAIN state[id].specs |-> spec[<<id, e>>]]]
    BY <1>6, <2>2
  <2>4. <<id, c>> = did
    BY <2>1
  <2> HIDE DEF id, c
  <2>5. raw[id].owners = state[id].owners /\ raw[id].kind = state[id].kind
    BY <2>3
  <2>6. raw[id].specs[c] = spec[<<id, c>>]
    BY <2>1, <2>3 DEF id, c
  <2> QED BY <2>4, <2>5, <2>6 DEF id, c
<1> QED
  BY <1>4, <1>5, <1>6, <1>7 DEF ReadOf

(* What the clusters give is taken out again of what was sent.              *)
LEMMA PutbackOf ==
    ASSUME NEW base, IsState(base), NEW clusters, IsDefs(clusters), NEW asked, NEW version,
           NEW ds, SentOf(ds, base, clusters, asked, version),
           NEW new \in Content!PutbackManifests(ds, Content!Carried(ds, clusters), base)
    PROVE  ChangedTo(new, base, asked, version)
<1> DEFINE spec == [did \in DOMAIN ds |->
              Content!PutbackSpec(ds[did], Content!Carried(ds, clusters)[did],
                                  Content!OldSpec(base, did[1], did[2]))]
<1>1. new \in Content!ManifestsOf(ds, spec)
  BY DEF Content!PutbackManifests
<1>2. IsDeployments(ds) /\ DOMAIN ds = Dids(base) /\ SameHeads(ds, base)
  BY DEF SentOf
<1>3. ASSUME NEW did \in Dids(base)
      PROVE  spec[did] = BumpIf(base[did[1]].specs[did[2]], did = asked, version)
  <2>1. /\ did[1] \in DOMAIN base /\ did[2] \in DOMAIN base[did[1]].specs /\ did[2] \in DOMAIN InitialDefs
        /\ Content!IsSpec(base[did[1]].specs[did[2]])
    BY DidIs
  <2>2. Content!OldSpec(base, did[1], did[2]) = base[did[1]].specs[did[2]]
    BY <2>1 DEF Content!OldSpec
  <2>3. Content!Carried(ds, clusters)[did] = clusters[did[2]]
    BY <1>2 DEF Content!Carried
  <2>4. spec[did] = Content!PutbackSpec(ds[did], clusters[did[2]], base[did[1]].specs[did[2]])
    BY <1>2, <2>2, <2>3
  <2>5. Content!IsCluster(clusters[did[2]])
    BY <2>1 DEF IsDefs
  <2>6. Content!DeploySpec(ds[did])
           = BumpIf(FullSpec(base[did[1]].specs[did[2]], clusters[did[2]]), did = asked, version)
    BY DEF SentOf
  <2>7. (did = asked) \in BOOLEAN
    OBVIOUS
  <2> HIDE DEF spec
  <2> DEFINE s == base[did[1]].specs[did[2]]
             cluster == clusters[did[2]]
             d == ds[did]
  <2>8. PICK yes \in BOOLEAN : yes = (did = asked)
    BY <2>7
  <2>9. /\ Content!IsSpec(s) /\ Content!IsCluster(cluster)
        /\ Content!DeploySpec(d) = BumpIf(FullSpec(s, cluster), yes, version)
        /\ spec[did] = Content!PutbackSpec(d, cluster, s)
    BY <2>1, <2>4, <2>5, <2>6, <2>8, Zenon
  <2> HIDE DEF s, cluster, d
  <2>10. Content!PutbackSpec(d, cluster, s) = BumpIf(s, yes, version)
    <3>1. /\ Content!IsSpec(s) /\ Content!IsCluster(cluster)
          /\ Content!DeploySpec(d) = BumpIf(FullSpec(s, cluster), yes, version)
      BY <2>9
    <3> QED BY <3>1, PutbackIs
  <2> QED
    BY <2>8, <2>9, <2>10, Zenon DEF s
<1> HIDE DEF spec
<1>4. /\ Content!IsMap(new) /\ DOMAIN new = Deploying(base) /\ Dids(new) = Dids(base)
      /\ \A id \in DOMAIN new :
            new[id] = [owners |-> base[id].owners, kind |-> base[id].kind,
                       specs |-> [c \in DOMAIN base[id].specs |-> spec[<<id, c>>]]]
  BY <1>1, <1>2, MadeOf
<1>5. ASSUME NEW id \in DOMAIN new, NEW c \in DOMAIN base[id].specs
      PROVE  spec[<<id, c>>] = BumpIf(base[id].specs[c], <<id, c>> = asked, version)
  <2>1. <<id, c>> \in Dids(base)
    BY <1>4, <1>5 DEF Deploying, Dids, IsState
  <2>2. <<id, c>>[1] = id /\ <<id, c>>[2] = c
    OBVIOUS
  <2> QED BY <1>3, <2>1, <2>2
<1>6. ASSUME NEW id \in DOMAIN new
      PROVE  [c \in DOMAIN base[id].specs |-> spec[<<id, c>>]]
                = [c \in DOMAIN base[id].specs |->
                      BumpIf(base[id].specs[c], <<id, c>> = asked, version)]
  BY <1>5
<1> QED
  BY <1>4, <1>6 DEF ChangedTo

(* A deployment with another version.                                       *)
LEMMA BumpDeployment ==
    ASSUME NEW d, IsDeployment(d), NEW version
    PROVE  LET e == [d EXCEPT !.version = version]
           IN  /\ IsDeployment(e) /\ e.owners = d.owners /\ e.kind = d.kind
               /\ Content!DeploySpec(e) = Bump(Content!DeploySpec(d), version)
<1> DEFINE e == [d EXCEPT !.version = version]
           names == DOMAIN Content!zeroSpec
<1>1. /\ d = [n \in DOMAIN d |-> d[n]] /\ DOMAIN d = names \cup {"owners", "kind"}
      /\ "version" \in names /\ "owners" \notin names /\ "kind" \notin names
  BY SpecFields DEF IsDeployment, Content!IsMap
<1>2. /\ DOMAIN e = DOMAIN d /\ e = [n \in DOMAIN e |-> e[n]]
      /\ e.owners = d.owners /\ e.kind = d.kind /\ e.version = version
      /\ \A n \in names : n # "version" => e[n] = d[n]
  BY <1>1
<1> HIDE DEF e
<1>3. Content!DeploySpec(e) = Bump(Content!DeploySpec(d), version)
  BY <1>1, <1>2 DEF Content!DeploySpec, Bump
<1>4. Content!IsSpec(Content!DeploySpec(e))
  <2>1. Content!IsSpec(Content!DeploySpec(d))
    BY DEF IsDeployment
  <2>2. Content!IsSpec(BumpIf(Content!DeploySpec(d), TRUE, version))
    BY <2>1, BumpIs
  <2> QED BY <1>3, <2>2 DEF BumpIf
<1>5. IsDeployment(e)
  BY <1>1, <1>2, <1>4 DEF IsDeployment, Content!IsMap
<1> QED
  BY <1>2, <1>3, <1>5 DEF e

(* A deployment that is made of nothing.                                    *)
LEMMA ZeroIs ==
    /\ IsDeployment(Content!zeroDeployment)
    /\ Content!zeroDeployment.resources = Content!Empty
<1> DEFINE names == DOMAIN Content!zeroSpec
           z == Content!zeroDeployment
<1>1. /\ DOMAIN Content!zeroSpec = names
      /\ Content!zeroSpec = [n \in names |-> Content!zeroSpec[n]]
      /\ "owners" \notin names /\ "kind" \notin names
      /\ Content!zeroSpec.resources = Content!Empty
  BY SpecFields DEF Content!zeroSpec
<1>2. Content!IsSpec(Content!zeroSpec)
  <2>1. Content!IsMap(Content!Empty)
    BY DEF Content!IsMap, Content!Empty
  <2>2. Content!IsStartup(Content!zeroStartup)
    BY DEF Content!IsStartup, Content!IsMap, Content!zeroStartup
  <2>3. <<>> \in Seq(Content!ToSet(<<>>))
    OBVIOUS
  <2>4. /\ Content!zeroSpec.env = Content!Empty /\ Content!zeroSpec.metadata = Content!Empty
        /\ Content!zeroSpec.resources = Content!Empty /\ Content!zeroSpec.volumes = <<>>
        /\ Content!zeroSpec.startup = Content!zeroStartup
    BY DEF Content!zeroSpec
  <2> QED BY <1>1, <2>1, <2>2, <2>3, <2>4 DEF Content!IsSpec, Content!IsMap
<1>3. /\ DOMAIN z = names \cup {"owners", "kind"} /\ z = [n \in DOMAIN z |-> z[n]]
      /\ z.owners = {} /\ \A n \in names : z[n] = Content!zeroSpec[n]
  BY <1>1 DEF Content!zeroDeployment
<1> HIDE DEF z
<1>4. Content!DeploySpec(z) = Content!zeroSpec
  BY <1>1, <1>3 DEF Content!DeploySpec
<1>5. Content!InOrder(<<>>) /\ z.owners = Content!ToSet(<<>>)
  BY <1>3 DEF Content!InOrder, Content!ToSet
<1>6. IsDeployment(z)
  BY <1>2, <1>3, <1>4, <1>5 DEF IsDeployment, Content!IsMap
<1>7. z.resources = Content!Empty
  BY <1>1, <1>3, SpecFields
<1> QED
  BY <1>6, <1>7 DEF z

(* What an update puts over the deployments it has read.                    *)
LEMMA UpdatedIs ==
    ASSUME NEW g, NEW did, NEW version,
           NEW all, all = Content!Over(Content!Updated(g, did, version), g)
    PROVE  /\ Content!IsMap(all) /\ DOMAIN all = DOMAIN g \cup {did}
           /\ \A other \in DOMAIN g : other # did => all[other] = g[other]
           /\ did \in DOMAIN g => all[did] = [g[did] EXCEPT !.version = version]
           /\ did \notin DOMAIN g => all[did] = [Content!zeroDeployment EXCEPT !.version = version]
<1> DEFINE up == Content!Updated(g, did, version)
<1>1. /\ DOMAIN up = {did}
      /\ did \in DOMAIN g => up[did] = [g[did] EXCEPT !.version = version]
      /\ did \notin DOMAIN g => up[did] = [Content!zeroDeployment EXCEPT !.version = version]
  BY DEF Content!Updated
<1> HIDE DEF up
<1> QED
  BY <1>1 DEF Content!Over, Content!IsMap, up

(* The deployments that a client makes manifests of.                        *)
AllOf(raw, clusters, did, version) ==
    LET g == Content!DeploymentsOf(raw, clusters)
    IN  Content!Over(Content!Updated(g, did, version), g)

(* They are deployments; of one that there is, only the version changes; one *)
(* that there is not has no resources.                                      *)
LEMMA AllIs ==
    ASSUME NEW raw, IsState(raw), NEW clusters, IsDefs(clusters),
           NEW asked, asked = <<asked[1], asked[2]>>, asked[2] \in DOMAIN InitialDefs, NEW version
    PROVE  LET all == AllOf(raw, clusters, asked, version)
           IN  /\ IsDeployments(all) /\ DOMAIN all = Dids(raw) \cup {asked}
               /\ asked \in Dids(raw) => SentOf(all, raw, clusters, asked, version)
               /\ asked \notin Dids(raw) => all[asked].resources = Content!Empty
<1> DEFINE g == Content!DeploymentsOf(raw, clusters)
           all == AllOf(raw, clusters, asked, version)
           was == IF asked \in DOMAIN g THEN g[asked] ELSE Content!zeroDeployment
           new == [was EXCEPT !.version = version]
<1>1. /\ IsDeployments(g) /\ DOMAIN g = Dids(raw) /\ SameHeads(g, raw)
      /\ \A did \in DOMAIN g :
            Content!DeploySpec(g[did]) = FullSpec(raw[did[1]].specs[did[2]], clusters[did[2]])
  BY DeploymentsAre
<1>2. /\ Content!IsMap(all) /\ DOMAIN all = DOMAIN g \cup {asked}
      /\ \A other \in DOMAIN g : other # asked => all[other] = g[other]
      /\ all[asked] = new
  <2>1. all = Content!Over(Content!Updated(g, asked, version), g)
    BY DEF AllOf
  <2> HIDE DEF g, all
  <2>2. /\ Content!IsMap(all) /\ DOMAIN all = DOMAIN g \cup {asked}
        /\ \A other \in DOMAIN g : other # asked => all[other] = g[other]
        /\ asked \in DOMAIN g => all[asked] = [g[asked] EXCEPT !.version = version]
        /\ asked \notin DOMAIN g => all[asked] = [Content!zeroDeployment EXCEPT !.version = version]
    BY <2>1, UpdatedIs
  <2> QED BY <2>2
<1> HIDE DEF g, all
<1>3. IsDeployment(was)
  BY <1>1, ZeroIs DEF IsDeployments
<1>4. was.resources = IF asked \in DOMAIN g THEN g[asked].resources ELSE Content!Empty
  BY ZeroIs
<1>5. asked \in DOMAIN g => was = g[asked]
  OBVIOUS
<1> HIDE DEF was
<1>6. /\ IsDeployment(new) /\ new.owners = was.owners /\ new.kind = was.kind
      /\ Content!DeploySpec(new) = Bump(Content!DeploySpec(was), version)
  BY <1>3, BumpDeployment
<1>7. new.resources = was.resources
  <2>1. "resources" \in DOMAIN was
    BY <1>3, SpecFields DEF IsDeployment
  <2> QED BY <2>1
<1> HIDE DEF new
<1>8. IsDeployments(all)
  BY <1>1, <1>2, <1>6 DEF IsDeployments
<1>9. ASSUME asked \in Dids(raw)
      PROVE  SentOf(all, raw, clusters, asked, version)
  <2>1. DOMAIN all = Dids(raw) /\ asked \in DOMAIN g /\ was = g[asked]
    BY <1>1, <1>2, <1>5, <1>9
  <2>2. SameHeads(all, raw)
    <3> SUFFICES ASSUME NEW did \in DOMAIN all
                 PROVE  /\ all[did].owners = Content!ToSet(raw[did[1]].owners)
                        /\ all[did].kind = raw[did[1]].kind
      BY DEF SameHeads
    <3>1. g[did].owners = Content!ToSet(raw[did[1]].owners) /\ g[did].kind = raw[did[1]].kind
      BY <1>1, <2>1 DEF SameHeads
    <3>2. CASE did = asked
      BY <1>2, <1>6, <2>1, <3>1, <3>2
    <3>3. CASE did # asked
      BY <1>1, <1>2, <2>1, <3>1, <3>3
    <3> QED BY <3>2, <3>3
  <2>3. ASSUME NEW did \in Dids(raw)
        PROVE  Content!DeploySpec(all[did])
                  = BumpIf(FullSpec(raw[did[1]].specs[did[2]], clusters[did[2]]), did = asked, version)
    <3> DEFINE full == FullSpec(raw[did[1]].specs[did[2]], clusters[did[2]])
    <3>1. Content!DeploySpec(g[did]) = full
      BY <1>1
    <3> HIDE DEF full
    <3>2. CASE did = asked
      <4>1. all[did] = new /\ Content!DeploySpec(was) = full
        BY <1>2, <2>1, <3>1, <3>2
      <4>2. Content!DeploySpec(all[did]) = Bump(full, version)
        BY <1>6, <4>1
      <4>3. BumpIf(full, did = asked, version) = Bump(full, version)
        BY <3>2 DEF BumpIf
      <4> QED BY <4>2, <4>3, Zenon DEF full
    <3>3. CASE did # asked
      <4>1. all[did] = g[did]
        BY <1>1, <1>2, <3>3
      <4>2. BumpIf(full, did = asked, version) = full
        BY <3>3 DEF BumpIf
      <4> QED BY <3>1, <4>1, <4>2, Zenon DEF full
    <3> QED BY <3>2, <3>3
  <2> QED
    BY <1>8, <1>9, <2>1, <2>2, <2>3 DEF SentOf
<1>10. asked \notin Dids(raw) => all[asked].resources = Content!Empty
  BY <1>1, <1>2, <1>4, <1>7
<1> QED
  BY <1>1, <1>2, <1>8, <1>9, <1>10 DEF all

(* An update that is made of what was read of base changes the version of   *)
(* the deployment that was asked for.                                       *)
LEMMA UpdateSends ==
    ASSUME NEW base, IsState(base), NEW clusters, IsDefs(clusters),
           NEW raw, ReadOf(raw, base, clusters), NEW asked \in Dids(base), NEW version,
           NEW new \in Content!PutbackManifests(AllOf(raw, clusters, asked, version),
                          Content!Carried(AllOf(raw, clusters, asked, version), clusters), raw)
    PROVE  SentOf(Content!DeploymentsOf(new, clusters), base, clusters, asked, version)
<1> DEFINE all == AllOf(raw, clusters, asked, version)
           ds == Content!DeploymentsOf(new, clusters)
<1>1. /\ IsState(raw) /\ Dids(raw) = Dids(base) /\ asked \in Dids(raw)
      /\ asked = <<asked[1], asked[2]>> /\ asked[2] \in DOMAIN InitialDefs
  BY DidIs DEF ReadOf
<1>2. IsDeployments(all) /\ SentOf(all, raw, clusters, asked, version)
  BY <1>1, AllIs
<1> HIDE DEF all
<1>3. ChangedTo(new, raw, asked, version)
  BY <1>1, <1>2, PutbackOf DEF all
<1>4. IsState(new)
  BY <1>2, PutbackIsState DEF all
<1>5. /\ IsDeployments(ds) /\ DOMAIN ds = Dids(base) /\ SameHeads(ds, new)
      /\ \A did \in DOMAIN ds :
            Content!DeploySpec(ds[did]) = FullSpec(new[did[1]].specs[did[2]], clusters[did[2]])
  <2>1. Dids(new) = Dids(base)
    BY <1>1, <1>3 DEF ChangedTo
  <2> QED BY <1>4, <2>1, DeploymentsAre
<1> HIDE DEF ds
<1>6. ASSUME NEW did \in Dids(base)
      PROVE  /\ ds[did].owners = Content!ToSet(base[did[1]].owners)
             /\ ds[did].kind = base[did[1]].kind
             /\ Content!DeploySpec(ds[did])
                   = BumpIf(FullSpec(base[did[1]].specs[did[2]], clusters[did[2]]), did = asked, version)
  <2> DEFINE id == did[1]
             c == did[2]
             s == base[id].specs[c]
             cluster == clusters[c]
             full == FullSpec(s, cluster)
             yes == did = asked
  <2>1. /\ <<id, c>> = did /\ id \in DOMAIN base /\ c \in DOMAIN InitialDefs
        /\ c \in DOMAIN base[id].specs /\ Content!IsSpec(s)
    BY DidIs
  <2>2. Content!IsCluster(cluster)
    BY <2>1 DEF IsDefs
  <2>3. raw[id].owners = base[id].owners /\ raw[id].kind = base[id].kind /\ raw[id].specs[c] = full
    BY DEF ReadOf
  <2>4. /\ id \in DOMAIN raw /\ c \in DOMAIN raw[id].specs
    BY <1>1, DidIs
  <2>5. id \in DOMAIN new
    BY <1>3, <2>4 DEF ChangedTo, Deploying
  <2>6. new[id] = [owners |-> raw[id].owners, kind |-> raw[id].kind,
                   specs |-> [e \in DOMAIN raw[id].specs |->
                                BumpIf(raw[id].specs[e], <<id, e>> = asked, version)]]
    BY <1>3, <2>5 DEF ChangedTo
  <2>7. ds[did].owners = Content!ToSet(new[id].owners) /\ ds[did].kind = new[id].kind
    BY <1>5 DEF SameHeads
  <2>8. Content!DeploySpec(ds[did]) = FullSpec(new[id].specs[c], cluster)
    BY <1>5
  <2> HIDE DEF id, c, full, cluster, s
  <2>9. new[id].owners = base[id].owners /\ new[id].kind = base[id].kind
    BY <2>3, <2>6
  <2>10. new[id].specs[c] = BumpIf(full, yes, version)
    <3>1. new[id].specs[c] = BumpIf(raw[id].specs[c], <<id, c>> = asked, version)
      <4>1. new[id].specs = [e \in DOMAIN raw[id].specs |->
                                BumpIf(raw[id].specs[e], <<id, e>> = asked, version)]
        BY <2>6
      <4> QED BY <2>4, <4>1
    <3> QED BY <2>1, <2>3, <3>1
  <2>11. Content!IsSpec(full) /\ FullSpec(full, cluster) = full
    BY <2>1, <2>2, FullSpecIs DEF full
  <2>12. FullSpec(BumpIf(full, yes, version), cluster) = BumpIf(FullSpec(full, cluster), yes, version)
    <3>1. yes \in BOOLEAN
      OBVIOUS
    <3> HIDE DEF yes
    <3> QED BY <2>11, <3>1, BumpIs
  <2>13. Content!DeploySpec(ds[did]) = BumpIf(full, yes, version)
    BY <2>8, <2>10, <2>11, <2>12
  <2> QED
    BY <2>7, <2>9, <2>13, Zenon DEF id, c, full, cluster, s
<1>7. SameHeads(ds, base)
  BY <1>5, <1>6 DEF SameHeads
<1> QED
  BY <1>5, <1>6, <1>7, Zenon DEF SentOf, ds

(* One of a deployment that there is not is refused: it has no resources.   *)
LEMMA NewIsFlawed ==
    ASSUME NEW raw, IsState(raw), NEW clusters, IsDefs(clusters),
           NEW asked, asked = <<asked[1], asked[2]>>, asked[2] \in DOMAIN InitialDefs,
           asked \notin Dids(raw), NEW version,
           NEW new \in Content!PutbackManifests(AllOf(raw, clusters, asked, version),
                          Content!Carried(AllOf(raw, clusters, asked, version), clusters), raw)
    PROVE  Content!Validate(new, clusters)
<1> DEFINE all == AllOf(raw, clusters, asked, version)
<1>1. /\ IsDeployments(all) /\ asked \in DOMAIN all /\ all[asked].resources = Content!Empty
  <2>1. /\ IsDeployments(all) /\ DOMAIN all = Dids(raw) \cup {asked}
        /\ asked \notin Dids(raw) => all[asked].resources = Content!Empty
    BY AllIs
  <2> HIDE DEF all
  <2> QED BY <2>1
<1> DEFINE old(did) == Content!OldSpec(raw, did[1], did[2])
           spec == [did \in DOMAIN all |->
                      Content!PutbackSpec(all[did], Content!Carried(all, clusters)[did], old(did))]
           ds == Content!DeploymentsOf(new, clusters)
           id == asked[1]
           c == asked[2]
<1>2. new \in Content!ManifestsOf(all, spec)
  BY DEF Content!PutbackManifests
<1>3. IsState(new)
  BY <1>1, PutbackIsState
<1>4. spec[asked].resources = Content!Empty
  <2>1. spec[asked] = Content!PutbackSpec(all[asked], Content!Carried(all, clusters)[asked], old(asked))
    BY <1>1
  <2> HIDE DEF spec, all, old
  <2>2. /\ DOMAIN Content!DeploySpec(all[asked]) = DOMAIN Content!zeroSpec
        /\ Content!DeploySpec(all[asked]).resources = Content!Empty
    BY <1>1, SpecFields DEF Content!DeploySpec
  <2> QED BY <2>1, <2>2, SpecFields DEF Content!PutbackSpec
<1> HIDE DEF spec, all
<1>5. id \in DOMAIN new
  BY <1>1, <1>2, ManifestsAre
<1>6. c \in DOMAIN new[id].specs /\ new[id].specs[c] = spec[asked]
  <2> DEFINE cs == Content!ClustersOf(all, id)
  <2>1. PICK e \in cs, k \in cs :
           new[id] = [owners |-> Content!Slice(all[<<id, e>>].owners), kind |-> all[<<id, k>>].kind,
                      specs |-> [b \in cs |-> spec[<<id, b>>]]]
    <3>1. MadeFrom(all, spec, id, new[id])
      BY <1>2, <1>5, ManifestsAre
    <3> QED BY <3>1, Zenon DEF MadeFrom
  <2>2. c \in cs
    BY <1>1 DEF Content!ClustersOf
  <2> HIDE DEF cs
  <2>3. new[id].specs = [b \in cs |-> spec[<<id, b>>]]
    BY <2>1
  <2>4. new[id].specs[c] = spec[<<id, c>>]
    BY <2>2, <2>3
  <2> QED BY <2>2, <2>3, <2>4
<1>7. asked \in Dids(new)
  BY <1>5, <1>6 DEF Dids
<1>8. /\ IsDeployments(ds) /\ DOMAIN ds = Dids(new)
      /\ Content!DeploySpec(ds[asked]) = FullSpec(new[id].specs[c], clusters[c])
  BY <1>3, <1>7, DeploymentsAre
<1> HIDE DEF ds
<1>9. Content!DeploySpec(ds[asked]).resources = ds[asked].resources
  BY SpecFields DEF Content!DeploySpec
<1>10. FullSpec(new[id].specs[c], clusters[c]).resources = spec[asked].resources
  <2>1. DOMAIN new[id].specs[c] = DOMAIN Content!zeroSpec
    BY <1>3, <1>5, <1>6 DEF IsState, Content!IsManifest, Content!IsSpec
  <2> QED BY <1>6, <2>1, SpecFields DEF FullSpec
<1>11. ds[asked].resources = Content!Empty
  BY <1>4, <1>8, <1>9, <1>10
<1>12. Content!MissingResources(Content!Empty) # {}
  BY SpecFields DEF Content!MissingResources, Content!Defaults
<1>13. Content!DeploymentFlawed(ds[asked])
  BY <1>11, <1>12 DEF Content!DeploymentFlawed, Content!ConfigFlawed
<1> QED
  BY <1>7, <1>8, <1>13 DEF Content!Validate, ds

(* A state without flaws is left alone by repairing it.                     *)
LEMMA RepairedIs ==
    ASSUME NEW state, IsState(state), NEW clusters, IsDefs(clusters),
           ~Content!Validate(state, clusters)
    PROVE  Content!Repaired(state) = state
<1> DEFINE ds == Content!DeploymentsOf(state, clusters)
<1>1. /\ DOMAIN ds = Dids(state)
      /\ \A did \in DOMAIN ds :
            Content!DeploySpec(ds[did]) = FullSpec(state[did[1]].specs[did[2]], clusters[did[2]])
  BY DeploymentsAre
<1>2. /\ \A id \in DOMAIN state : state[id].kind # Content!NoKind
      /\ \A did \in DOMAIN ds : Content!NoVolume \notin Content!ToSet(ds[did].volumes)
  BY DEF Content!Validate, Content!ManifestFlawed, Content!FlawedKind, Content!DeploymentFlawed,
     Content!ConfigFlawed, Content!ManifestKinds, Content!RequestKinds, Content!NoKind,
     Content!Service, Content!Scheduled
<1> HIDE DEF ds
<1>3. ASSUME NEW id \in DOMAIN state, NEW c \in DOMAIN state[id].specs
      PROVE  [state[id].specs[c] EXCEPT !.volumes = Content!RepairedInPlace(@)] = state[id].specs[c]
  <2> DEFINE s == state[id].specs[c]
  <2>1. Content!IsSpec(s) /\ <<id, c>> \in Dids(state)
    BY DEF IsState, Content!IsManifest, Dids
  <2>2. Content!DeploySpec(ds[<<id, c>>]) = FullSpec(s, clusters[c])
    <3>1. <<id, c>>[1] = id /\ <<id, c>>[2] = c
      OBVIOUS
    <3> QED BY <1>1, <2>1, <3>1
  <2> HIDE DEF s
  <2>3. ds[<<id, c>>].volumes = s.volumes
    <3>1. Content!DeploySpec(ds[<<id, c>>]).volumes = ds[<<id, c>>].volumes
      BY SpecFields DEF Content!DeploySpec
    <3>2. FullSpec(s, clusters[c]).volumes = s.volumes
      BY <2>1, SpecFields DEF FullSpec, Content!IsSpec
    <3> QED BY <2>2, <3>1, <3>2
  <2>4. Content!NoVolume \notin Content!ToSet(s.volumes)
    BY <1>1, <1>2, <2>1, <2>3
  <2>5. s.volumes \in Seq(Content!ToSet(s.volumes))
    BY <2>1 DEF Content!IsSpec
  <2>6. PICK n \in Nat : s.volumes = [i \in 1..n |-> s.volumes[i]]
    BY <2>5
  <2>7. Content!RepairedInPlace(s.volumes) = s.volumes
    BY <2>4, <2>6, NothingToRepair
  <2>8. s = [f \in DOMAIN s |-> s[f]]
    BY <2>1 DEF Content!IsSpec, Content!IsMap
  <2>9. [s EXCEPT !.volumes = Content!RepairedInPlace(@)] = s
    BY <2>7, <2>8
  <2> QED BY <2>9 DEF s
<1>4. ASSUME NEW id \in DOMAIN state
      PROVE  [owners |-> Content!Sorted(state[id].owners),
              kind |-> IF state[id].kind = Content!NoKind THEN Content!Service ELSE state[id].kind,
              specs |-> [c \in DOMAIN state[id].specs |->
                           [state[id].specs[c] EXCEPT !.volumes = Content!RepairedInPlace(@)]]]
             = state[id]
  <2>1. /\ Content!InOrder(state[id].owners)
        /\ state[id].specs = [c \in DOMAIN state[id].specs |-> state[id].specs[c]]
        /\ state[id] = [owners |-> state[id].owners, kind |-> state[id].kind, specs |-> state[id].specs]
    BY DEF IsState, Content!IsManifest, Content!IsMap
  <2>2. Content!Sorted(state[id].owners) = state[id].owners
    BY <2>1, SortedIs
  <2>3. [c \in DOMAIN state[id].specs |->
           [state[id].specs[c] EXCEPT !.volumes = Content!RepairedInPlace(@)]] = state[id].specs
    BY <1>3, <2>1
  <2> QED BY <1>2, <2>1, <2>2, <2>3
<1>5. state = [id \in DOMAIN state |-> state[id]]
  BY DEF IsState, Content!IsMap
<1> QED
  BY <1>4, <1>5 DEF Content!Repaired

(* Repaired volumes are volumes.                                            *)
LEMMA RepairedVolumes ==
    ASSUME NEW vs, NEW n \in Nat, vs = [i \in 1..n |-> vs[i]]
    PROVE  Content!RepairedInPlace(vs) \in Seq(Content!ToSet(Content!RepairedInPlace(vs)))
<1> DEFINE r == Content!RepairedInPlace(vs)
<1>1. r = [i \in 1..n |-> r[i]]
  BY DEF Content!RepairedInPlace
<1> HIDE DEF r
<1>2. \A i \in 1..n : r[i] \in Content!ToSet(r)
  BY <1>1 DEF Content!ToSet
<1>3. r \in [1..n -> Content!ToSet(r)]
  BY <1>1, <1>2
<1> QED
  BY <1>3 DEF r

(* What is repaired is a state.                                             *)
LEMMA RepairedIsState ==
    ASSUME NEW state, IsState(state)
    PROVE  IsState(Content!Repaired(state)) /\ DOMAIN Content!Repaired(state) = DOMAIN state
<1> DEFINE r == Content!Repaired(state)
           kind(id) == IF state[id].kind = Content!NoKind THEN Content!Service ELSE state[id].kind
           specs(id) == [c \in DOMAIN state[id].specs |->
                           [state[id].specs[c] EXCEPT !.volumes = Content!RepairedInPlace(@)]]
<1>1. r = [id \in DOMAIN state |->
             [owners |-> Content!Sorted(state[id].owners), kind |-> kind(id), specs |-> specs(id)]]
  BY DEF Content!Repaired
<1>2. ASSUME NEW id \in DOMAIN state
      PROVE  /\ Content!IsMap(specs(id)) /\ DOMAIN specs(id) = DOMAIN state[id].specs
             /\ \A c \in DOMAIN specs(id) : Content!IsSpec(specs(id)[c])
  <2>1. ASSUME NEW c \in DOMAIN state[id].specs
        PROVE  Content!IsSpec([state[id].specs[c] EXCEPT !.volumes = Content!RepairedInPlace(@)])
    <3> DEFINE s == state[id].specs[c]
               vs == Content!RepairedInPlace(s.volumes)
               t == [s EXCEPT !.volumes = vs]
    <3>1. Content!IsSpec(s)
      BY DEF IsState, Content!IsManifest
    <3> HIDE DEF s
    <3>2. s.volumes \in Seq(Content!ToSet(s.volumes))
      BY <3>1 DEF Content!IsSpec
    <3>3. PICK n \in Nat : s.volumes = [i \in 1..n |-> s.volumes[i]]
      <4> HIDE DEF vs, t, specs, kind, r
      <4>1. /\ Len(s.volumes) \in Nat
            /\ s.volumes = [i \in 1..Len(s.volumes) |-> s.volumes[i]]
        BY <3>2
      <4> QED BY <4>1
    <3>4. vs \in Seq(Content!ToSet(vs))
      BY <3>3, RepairedVolumes
    <3> HIDE DEF vs
    <3>5. /\ DOMAIN s = DOMAIN Content!zeroSpec /\ s = [f \in DOMAIN s |-> s[f]]
      BY <3>1 DEF Content!IsSpec, Content!IsMap
    <3>6. /\ t.volumes = vs /\ DOMAIN t = DOMAIN s /\ t = [f \in DOMAIN t |-> t[f]]
          /\ t.env = s.env /\ t.metadata = s.metadata /\ t.resources = s.resources
          /\ t.startup = s.startup
      BY <3>5, SpecFields
    <3> HIDE DEF t
    <3>7. Content!IsSpec(t)
      BY <3>1, <3>4, <3>5, <3>6 DEF Content!IsSpec, Content!IsMap
    <3>8. [s EXCEPT !.volumes = Content!RepairedInPlace(@)] = t
      BY DEF t, vs
    <3> QED BY <3>7, <3>8 DEF s
  <2> QED BY <2>1 DEF Content!IsMap
<1>3. ASSUME NEW id \in DOMAIN state
      PROVE  Content!IsManifest(r[id]) /\ DOMAIN r[id].specs \subseteq DOMAIN InitialDefs
  <2>1. Content!InOrder(state[id].owners) /\ DOMAIN state[id].specs \subseteq DOMAIN InitialDefs
    BY DEF IsState, Content!IsManifest
  <2>2. Content!Sorted(state[id].owners) = state[id].owners
    BY <2>1, SortedIs
  <2> HIDE DEF specs, kind
  <2>3. r[id] = [owners |-> state[id].owners, kind |-> kind(id), specs |-> specs(id)]
    BY <1>1, <2>2
  <2> QED BY <1>2, <2>1, <2>3 DEF Content!IsManifest
<1>4. DOMAIN r = DOMAIN state /\ Content!IsMap(r)
  BY DEF Content!Repaired, Content!IsMap
<1> QED
  BY <1>3, <1>4 DEF IsState

(* Files over files.                                                        *)
LEMMA OverIsState ==
    ASSUME NEW new, IsState(new), NEW old, IsState(old)
    PROVE  IsState(Content!Over(new, old))
  BY DEF IsState, Content!Over, Content!IsMap

(* Only the version of the deployment that was asked for changes.           *)
LEMMA StoredIs ==
    ASSUME NEW state, IsState(state), NEW id, NEW c, <<id, c>> \in Dids(state), NEW version,
           NEW new, ChangedTo(new, state, <<id, c>>, version)
    PROVE  Content!Over(new, state) = [state EXCEPT ![id].specs[c].version = version]
<1> DEFINE over == Content!Over(new, state)
           goal == [state EXCEPT ![id].specs[c].version = version]
           specs(e) == [k \in DOMAIN state[e].specs |->
                          BumpIf(state[e].specs[k], <<e, k>> = <<id, c>>, version)]
<1>1. id \in DOMAIN state /\ c \in DOMAIN state[id].specs
  BY DEF Dids
<1>2. DOMAIN new = Deploying(state) /\ DOMAIN new \subseteq DOMAIN state /\ id \in DOMAIN new
  BY <1>1 DEF ChangedTo, Deploying
<1>3. over = [e \in DOMAIN state |-> IF e \in DOMAIN new THEN new[e] ELSE state[e]]
  BY <1>2 DEF Content!Over
<1>4. ASSUME NEW e \in DOMAIN new, e # id
      PROVE  new[e] = state[e]
  <2>1. specs(e) = state[e].specs
    <3>1. state[e].specs = [k \in DOMAIN state[e].specs |-> state[e].specs[k]]
      BY <1>2 DEF IsState, Content!IsManifest, Content!IsMap
    <3>2. \A k \in DOMAIN state[e].specs :
             BumpIf(state[e].specs[k], <<e, k>> = <<id, c>>, version) = state[e].specs[k]
      BY <1>4 DEF BumpIf
    <3> QED BY <3>1, <3>2
  <2>2. new[e] = [owners |-> state[e].owners, kind |-> state[e].kind, specs |-> specs(e)]
    BY DEF ChangedTo
  <2> HIDE DEF specs
  <2>3. state[e] = [owners |-> state[e].owners, kind |-> state[e].kind, specs |-> state[e].specs]
    BY <1>2 DEF IsState, Content!IsManifest
  <2> QED BY <2>1, <2>2, <2>3
<1>5. new[id] = [state[id] EXCEPT !.specs[c].version = version]
  <2> DEFINE m == state[id]
             changed == [m.specs EXCEPT ![c] = Bump(m.specs[c], version)]
  <2>1. m.specs = [k \in DOMAIN m.specs |-> m.specs[k]]
    BY <1>1 DEF IsState, Content!IsManifest, Content!IsMap
  <2>2. specs(id) = changed
    <3>1. \A k \in DOMAIN m.specs : (<<id, k>> = <<id, c>>) <=> k = c
      OBVIOUS
    <3>2. specs(id) = [k \in DOMAIN m.specs |->
                         IF k = c THEN Bump(m.specs[k], version) ELSE m.specs[k]]
      <4>1. \A k \in DOMAIN m.specs :
               BumpIf(m.specs[k], <<id, k>> = <<id, c>>, version)
                  = IF k = c THEN Bump(m.specs[k], version) ELSE m.specs[k]
        BY <3>1 DEF BumpIf
      <4> QED BY <4>1
    <3> HIDE DEF specs, m
    <3> QED BY <1>1, <2>1, <3>2
  <2>3. new[id] = [owners |-> m.owners, kind |-> m.kind, specs |-> specs(id)]
    BY <1>2 DEF ChangedTo
  <2>4. m = [owners |-> m.owners, kind |-> m.kind, specs |-> m.specs]
    BY <1>1 DEF IsState, Content!IsManifest
  <2>5. new[id] = [m EXCEPT !.specs = changed]
    <3> HIDE DEF specs, m, changed
    <3> QED BY <2>2, <2>3, <2>4
  <2> QED BY <2>5 DEF Bump
<1>6. state = [e \in DOMAIN state |-> state[e]]
  BY DEF IsState, Content!IsMap
<1>7. goal = [state EXCEPT ![id] = [state[id] EXCEPT !.specs[c].version = version]]
  OBVIOUS
<1> HIDE DEF goal
<1>8. goal = [e \in DOMAIN state |-> IF e = id THEN new[id] ELSE state[e]]
  BY <1>1, <1>5, <1>6, <1>7
<1> HIDE DEF over
<1>9. over = goal
  BY <1>2, <1>3, <1>4, <1>8
<1> QED
  BY <1>9 DEF over, goal

(* What the store has, and the client, by how far it is: unless the         *)
(* defaults were edited between its two requests, it sends what it has read *)
(* with the version that it was asked for.                                  *)
Asked(u) == <<u.asked.id, u.asked.c>>
UpdaterInv(u) ==
    /\ u.at \in {"idle", "gdm", "update", "put"}
    /\ u.at \in {"gdm", "update", "put"} => IsDefs(u.defs)
    /\ u.at = "update" => /\ IsState(u.ms) /\ IsState(u.base)
                          /\ ~u.torn => ReadOf(u.ms, u.base, u.defs)
    /\ u.at = "put" => /\ IsDeployments(u.ds) /\ IsState(u.base)
                       /\ ~u.torn => SentOf(u.ds, u.base, u.defs, Asked(u), u.asked.version)
ContentInv == IsState(ms) /\ IsDefs(defs) /\ UpdaterInv(updater)

(* The store begins with what users and operators have written.             *)
LEMMA ContentInit == Content!ContentAssumption /\ Content!Init => ContentInv
<1> SUFFICES ASSUME Content!ContentAssumption, Content!Init PROVE ContentInv
  OBVIOUS
<1>1. IsState(ms)
  BY DEF Content!ContentAssumption, Content!Init, IsState, Content!Defined
<1>2. IsDefs(defs)
  BY DEF Content!ContentAssumption, Content!Init, IsDefs
<1>3. UpdaterInv(updater)
  BY DEF Content!Init, Content!idle, UpdaterInv
<1> QED
  BY <1>1, <1>2, <1>3 DEF ContentInv

(* What a write leaves is a state.                                          *)
LEMMA WrittenIsState ==
    ASSUME IsState(ms), NEW new, IsState(new), Content!WriteState(new)
    PROVE  IsState(ms')
<1>1. IsState(Content!Repaired(new))
  BY RepairedIsState
<1>2. IsState(Content!Over(Content!Repaired(new), ms))
  BY <1>1, OverIsState
<1> QED
  BY <1>2 DEF Content!WriteState, Content!Stored

(* The client reads the defaults, then the deployments.                     *)
LEMMA ClientReads ==
    ASSUME ContentInv, Content!GetDefs \/ Content!GetManifests
    PROVE  ContentInv'
<1>1. IsState(ms') /\ IsDefs(defs') /\ ms' = ms /\ defs' = defs
  BY DEF ContentInv, Content!GetDefs, Content!GetManifests
<1>2. CASE Content!GetDefs
  BY <1>1, <1>2 DEF ContentInv, Content!GetDefs, UpdaterInv
<1>3. CASE Content!GetManifests
  <2>1. updater.at = "gdm" /\ IsDefs(updater.defs)
    BY <1>3 DEF ContentInv, UpdaterInv, Content!GetManifests
  <2>2. PICK raw \in Content!RawManifests(Content!DeploymentsOf(ms, defs)) :
           updater' = [at |-> "update", defs |-> updater.defs, ms |-> raw,
                       torn |-> updater.defs # defs, base |-> ms]
    BY <1>3 DEF Content!GetManifests
  <2>3. ReadOf(raw, ms, defs)
    BY ReadIs DEF ContentInv
  <2>4. IsState(raw) /\ IsState(ms)
    BY <2>3 DEF ReadOf, ContentInv
  <2>5. /\ updater'.at = "update" /\ updater'.defs = updater.defs /\ updater'.ms = raw
        /\ updater'.torn = (updater.defs # defs) /\ updater'.base = ms
    BY <2>2
  <2>6. ~updater'.torn => ReadOf(raw, ms, updater.defs)
    BY <2>3, <2>5
  <2>7. UpdaterInv(updater')
    BY <2>1, <2>4, <2>5, <2>6 DEF UpdaterInv
  <2> QED BY <1>1, <2>7 DEF ContentInv
<1> QED
  BY <1>2, <1>3

(* The client updates a deployment.                                         *)
LEMMA ClientUpdates ==
    ASSUME ContentInv, NEW id, NEW c \in DOMAIN defs, NEW version, Content!Update(id, c, version)
    PROVE  ContentInv'
<1> DEFINE raw == updater.ms
           clusters == updater.defs
           asked == <<id, c>>
           all == AllOf(raw, clusters, asked, version)
           sent(new) == [at |-> "put", ds |-> Content!DeploymentsOf(new, clusters), defs |-> clusters,
                         torn |-> updater.torn, base |-> updater.base,
                         asked |-> [id |-> id, c |-> c, version |-> version]]
<1>1. /\ updater.at = "update" /\ IsState(ms') /\ IsDefs(defs')
      /\ IsState(raw) /\ IsState(updater.base) /\ IsDefs(clusters)
      /\ ~updater.torn => ReadOf(raw, updater.base, clusters)
      /\ c \in DOMAIN InitialDefs
  BY DEF ContentInv, UpdaterInv, Content!Update, IsDefs
<1>2. CASE updater' = Content!idle
  BY <1>1, <1>2 DEF ContentInv, UpdaterInv, Content!idle
<1>3. CASE updater' # Content!idle
  <2>1. PICK new \in Content!UpdateDeployments(raw, clusters,
                        Content!Updated(Content!DeploymentsOf(raw, clusters), asked, version)) :
           updater' = IF Content!Validate(new, clusters) THEN Content!idle ELSE sent(new)
    <3> HIDE DEF raw, clusters
    <3> QED BY <1>3 DEF Content!Update, raw, clusters
  <2>2. updater' = sent(new) /\ ~Content!Validate(new, clusters)
    BY <1>3, <2>1
  <2> HIDE DEF raw, clusters
  <2>3. new \in Content!PutbackManifests(all, Content!Carried(all, clusters), raw)
    BY <2>1, Zenon DEF Content!UpdateDeployments, AllOf
  <2>4. asked = <<asked[1], asked[2]>> /\ asked[2] \in DOMAIN InitialDefs
    BY <1>1
  <2> HIDE DEF asked
  <2>5. asked \in Dids(raw)
    BY <1>1, <2>2, <2>3, <2>4, NewIsFlawed
  <2>6. IsDeployments(all)
    BY <1>1, <2>4, AllIs
  <2>7. IsState(new)
    BY <2>3, <2>6, PutbackIsState
  <2>8. IsDeployments(Content!DeploymentsOf(new, clusters))
    BY <1>1, <2>7, DeploymentsAre
  <2>9. ASSUME ~updater.torn
        PROVE  SentOf(Content!DeploymentsOf(new, clusters), updater.base, clusters, asked, version)
    <3>1. ReadOf(raw, updater.base, clusters) /\ asked \in Dids(updater.base)
      BY <1>1, <2>5, <2>9 DEF ReadOf
    <3> QED BY <1>1, <2>3, <3>1, UpdateSends
  <2>10. /\ updater'.at = "put" /\ updater'.defs = clusters /\ updater'.torn = updater.torn
         /\ updater'.ds = Content!DeploymentsOf(new, clusters) /\ updater'.base = updater.base
         /\ Asked(updater') = asked /\ updater'.asked.version = version
    BY <2>2 DEF Asked, asked
  <2>11. UpdaterInv(updater')
    BY <1>1, <2>8, <2>9, <2>10 DEF UpdaterInv
  <2> QED BY <1>1, <2>11 DEF ContentInv
<1> QED
  BY <1>2, <1>3

(* The server takes the update.                                             *)
LEMMA ServerTakes ==
    ASSUME ContentInv, Content!PutGDM
    PROVE  /\ ContentInv'
           /\ ~updater.torn /\ updater.base = ms /\ ms' # ms => Content!ChangesVersion(updater.asked)
<1> DEFINE clusters == updater.defs
           ds == updater.ds
           asked == Asked(updater)
<1>1. /\ updater.at = "put" /\ IsState(ms) /\ IsDefs(defs)
      /\ IsDefs(clusters) /\ IsDeployments(ds)
      /\ ~updater.torn => SentOf(ds, updater.base, clusters, asked, updater.asked.version)
      /\ updater' = Content!idle /\ defs' = defs
  BY DEF ContentInv, UpdaterInv, Content!PutGDM
<1>2. PICK new \in Content!PutbackManifests(ds, Content!Carried(ds, clusters), ms) :
         IF Content!Validate(new, defs) THEN UNCHANGED ms ELSE Content!WriteState(new)
  BY DEF Content!PutGDM
<1> HIDE DEF clusters, ds
<1>3. IsState(new)
  BY <1>1, <1>2, PutbackIsState
<1>4. IsState(ms')
  BY <1>1, <1>2, <1>3, WrittenIsState
<1>5. ContentInv'
  BY <1>1, <1>4 DEF ContentInv, UpdaterInv, Content!idle
<1>6. ASSUME ~updater.torn, updater.base = ms, ms' # ms
      PROVE  Content!ChangesVersion(updater.asked)
  <2> DEFINE id == updater.asked.id
             c == updater.asked.c
             version == updater.asked.version
  <2>1. SentOf(ds, ms, clusters, <<id, c>>, version)
    BY <1>1, <1>6 DEF Asked
  <2>2. ~Content!Validate(new, defs) /\ Content!WriteState(new)
    BY <1>2, <1>6
  <2>3. ms' = Content!Over(Content!Repaired(new), ms)
    BY <1>6, <2>2 DEF Content!WriteState, Content!Stored
  <2>4. Content!Repaired(new) = new
    BY <1>1, <1>3, <2>2, RepairedIs
  <2> HIDE DEF id, c, version
  <2>5. <<id, c>> \in Dids(ms)
    BY <2>1 DEF SentOf
  <2>6. ChangedTo(new, ms, <<id, c>>, version)
    BY <1>1, <1>2, <2>1, PutbackOf
  <2>7. Content!Over(new, ms) = [ms EXCEPT ![id].specs[c].version = version]
    BY <1>1, <2>5, <2>6, StoredIs
  <2> QED BY <2>3, <2>4, <2>7, Zenon DEF Content!ChangesVersion, id, c, version
<1> QED
  BY <1>5, <1>6

(* Others write, and the defaults are edited.                               *)
LEMMA OthersWrite ==
    ASSUME Content!ContentAssumption, ContentInv,
           \/ \E id \in DOMAIN InitialManifests, m \in Written : Content!PutManifest(id, m)
           \/ \E c \in DOMAIN defs, d \in ClusterDefaults : Content!EditDefs(c, d)
    PROVE  ContentInv' /\ updater' = updater
<1>1. ASSUME NEW id \in DOMAIN InitialManifests, NEW m \in Written, Content!PutManifest(id, m)
      PROVE  IsState(ms') /\ UNCHANGED <<defs, updater>>
  <2> DEFINE new == Content!Over([n \in {id} |-> m], ms)
  <2>1. UNCHANGED <<defs, updater>> /\ Content!WriteState(new)
    BY <1>1 DEF Content!PutManifest
  <2>2. CASE Content!StateFatal(new, defs)
    BY <2>1, <2>2 DEF Content!WriteState, ContentInv
  <2>3. CASE ~Content!StateFatal(new, defs)
    <3>1. Content!Defined(new, defs)
      BY <2>3 DEF Content!StateFatal
    <3>2. new = [n \in (DOMAIN ms) \cup {id} |-> IF n = id THEN m ELSE ms[n]]
      BY DEF Content!Over
    <3> HIDE DEF new
    <3>3. Content!IsManifest(m) /\ DOMAIN m.specs \subseteq DOMAIN InitialDefs
      BY <3>1, <3>2 DEF Content!ContentAssumption, Content!Defined, ContentInv, IsDefs
    <3>4. IsState(new)
      BY <3>2, <3>3 DEF ContentInv, IsState, Content!IsMap
    <3> QED BY <2>1, <3>4, WrittenIsState DEF ContentInv
  <2> QED BY <2>1, <2>2, <2>3
<1>2. ASSUME NEW c \in DOMAIN defs, NEW d \in ClusterDefaults, Content!EditDefs(c, d)
      PROVE  IsDefs(defs') /\ UNCHANGED <<ms, updater>>
  <2>1. defs' = [defs EXCEPT ![c] = d] /\ Content!IsCluster(d) /\ UNCHANGED <<ms, updater>>
    BY <1>2 DEF Content!EditDefs, Content!ContentAssumption
  <2> QED BY <2>1 DEF ContentInv, IsDefs, Content!IsMap
<1> QED
  BY <1>1, <1>2 DEF ContentInv

(* Each step of the server and its clients keeps what is known of the store *)
(* and the client; the server changes nothing but the version.              *)
LEMMA ContentNext ==
    ASSUME Content!ContentAssumption, ContentInv, [Content!Next]_(Content!vars)
    PROVE  /\ ContentInv'
           /\ [updater.at = "put" /\ updater' = Content!idle /\ ~updater.torn /\ updater.base = ms
                 /\ ms' # ms => Content!ChangesVersion(updater.asked)]_(Content!vars)
<1>1. CASE Content!GetDefs \/ Content!GetManifests
  BY <1>1, ClientReads DEF Content!GetDefs, Content!GetManifests
<1>2. CASE \E id \in DOMAIN InitialManifests, c \in DOMAIN defs, v \in Versions :
              Content!Update(id, c, v)
  BY <1>2, ClientUpdates DEF Content!Update
<1>3. CASE Content!PutGDM
  BY <1>3, ServerTakes
<1>4. CASE \/ \E id \in DOMAIN InitialManifests, m \in Written : Content!PutManifest(id, m)
           \/ \E c \in DOMAIN defs, d \in ClusterDefaults : Content!EditDefs(c, d)
  BY <1>4, OthersWrite DEF Content!idle
<1>5. CASE UNCHANGED Content!vars
  BY <1>5 DEF Content!vars, ContentInv
<1> QED
  BY <1>1, <1>2, <1>3, <1>4, <1>5 DEF Content!Next

(* What the content does while the other parts are at work is nothing.      *)
LEMMA ContentSteps ==
    /\ Init => Content!Init
    /\ [Next]_vars => [Content!Next]_(Content!vars)
BY DEF Init, Next, vars, contentVars, Content!vars

(* An update of one deployment that reaches the server changes the version  *)
(* in that spec of the repository and nothing else that is written: defaults *)
(* are merged, sent, unmerged and stored for any manifests, any defaults and *)
(* any versions, and no entry is written down or lost on the way            *)
(* (map_state_to_deployments.go, http_state_manager.go, actions/update.go). *)
THEOREM OnlyTheVersionAlways == Spec => OnlyTheVersion
<1>1. Init => ContentInv
  BY ContentSteps, ContentInit, ContentAssumed
<1>2. ContentInv /\ [Next]_vars
         => /\ ContentInv'
            /\ [updater.at = "put" /\ updater' = Content!idle /\ ~updater.torn /\ updater.base = ms
                  /\ ms' # ms => Content!ChangesVersion(updater.asked)]_(Content!vars)
  BY ContentSteps, ContentNext, ContentAssumed
<1> QED
  BY <1>1, <1>2, PTL DEF Spec, OnlyTheVersion, Content!OnlyTheVersion
=============================================================================
