---------------------- MODULE SingularityDeployerProofs ----------------------
(****************************************************************************)
(* Theorems about SingularityDeployer, for any deployments that Singularity *)
(* can be sent, any capacity of the queue and any number of changes and     *)
(* faults.                                                                  *)
(*                                                                          *)
(* That a rectification leaves what was intended running rests on two       *)
(* things: what is sent is read back equal (but for the metadata), and what *)
(* is not sent, because changesReq or changesDep say it need not be, equals *)
(* what was intended through the prior of the pair.  In between only the    *)
(* worker touches the request and the deploy, and its pair stays first in   *)
(* the queue.                                                               *)
(****************************************************************************)
EXTENDS SingularityDeployer, FiniteSetTheorems, TLAPS

----------------------------------------------------------------------------
(* The deployments in question.                                             *)

Of(n) == {d[n] : d \in Wanted}

(* What may be intended: a PUT takes the owners and the kind from another.  *)
Posts == [version : Of("version"), instances : Of("instances"), env : Of("env"),
          metadata : Of("metadata"), resources : Of("resources"), volumes : Of("volumes"),
          startup : Of("startup"), schedule : Of("schedule"), owners : Of("owners"),
          kind : Of("kind")]

(* What is written has the fields of a deployment, finitely many owners,    *)
(* the three resources that are sent, and no nil volume.                    *)
WellFormed ==
    /\ Wanted \subseteq Posts
    /\ \A d \in Wanted :
          /\ IsFiniteSet(d.owners)
          /\ d.resources \in [DOMAIN Defaults -> Int]
          /\ WithoutNil(d.volumes) = d.volumes
          /\ DOMAIN d.startup = DOMAIN zeroStartup /\ d.startup.skip \in BOOLEAN

(* Amounts that differ do so by more than the comparison lets pass.  It is  *)
(* not transitive, so without this what runs may drift from what is         *)
(* intended by twice the tolerance.                                         *)
ToldApart ==
    \A r, o \in Of("resources") : \A n \in DOMAIN Defaults :
        Near(Amount(r, n), Amount(o, n)) => Amount(r, n) = Amount(o, n)

Sendable == WellFormed /\ ToldApart

----------------------------------------------------------------------------
(* The invariant.                                                           *)

Statuses == {AnyStatus, Pending, Active, Failed}
Schedules == Of("schedule") \cup {""}

Requests == [type : {determineRequestType(k) : k \in RequestKinds},
             instances : Of("instances"), owners : Of("owners"), schedule : Schedules]
Deploys == [version : Of("version"), env : Of("env"),
            resources : {mapResources(r) : r \in Of("resources")},
            volumes : Of("volumes"), healthcheck : {MapStartup(s) : s \in Of("startup")}]

(* What is read back.                                                       *)
Priors == [version : Of("version"), env : Of("env"), metadata : {Empty},
           resources : {mapResources(r) : r \in Of("resources")},
           volumes : Of("volumes"),
           startup : {unpackStartup(MapStartup(s)) : s \in Of("startup")},
           instances : Of("instances"), owners : Of("owners"),
           kind : RequestKinds, schedule : Schedules]

Pairs == [prior : Priors \cup {None}, priorStatus : Statuses,
          post : Posts, postStatus : Statuses]

DeployerTypes ==
    /\ intent \in Posts \cup {None}
    /\ request \in Requests \cup {None}
    /\ deploy \in Deploys \cup {None}
    /\ state \in Statuses
    /\ plan \in [at : {"idle", "requests", "deploy", "queue"}, post : Posts \cup {None},
                 request : Requests \cup {None}, prior : Priors \cup {None},
                 priorStatus : Statuses]
    /\ queue \in Seq(Pairs)
    /\ rect \in [at : {"idle", "post", "deploy", "await"}, error : BOOLEAN, fresh : BOOLEAN]
    /\ rect.at # "idle" => queue # <<>>

(* The request is what the pair wants of it, and the deploy.                *)
RequestAs(post) ==
    /\ request # None
    /\ determineManifestKind(request.type) = post.kind
    /\ request.instances = post.instances
    /\ request.owners = post.owners
    /\ post.kind = Scheduled => extractSchedule(request) = post.schedule
DeployAs(post) ==
    /\ deploy # None
    /\ deploy.version = post.version
    /\ deploy.env = post.env
    /\ \A n \in DOMAIN Defaults : Amount(deploy.resources, n) = Amount(post.resources, n)
    /\ VolumesEqual(deploy.volumes, post.volumes)
    /\ StartupDiff(unpackStartup(deploy.healthcheck), post.startup) = {}

(* A rectification that began from what ran has done, at every place, what  *)
(* it has passed or found unnecessary.                                      *)
Progress ==
    rect.fresh =>
        /\ rect.at = "post" /\ pair.prior # None =>
              Running # None /\ Diff(pair.prior, Running) = {}
        /\ rect.at = "deploy" => RequestAs(pair.post)
        /\ rect.at = "await" /\ ~rect.error => RequestAs(pair.post) /\ DeployAs(pair.post)

DeployerInv == DeployerTypes /\ Progress /\ RectifiedIsIntended

----------------------------------------------------------------------------
(* What is sent and what is read back.                                      *)

(* A value a field may have is the field of a deployment.                   *)
LEMMA FieldsAre ==
    ASSUME WellFormed
    PROVE  /\ \A k \in Of("kind") : k \in ManifestKinds
           /\ \A o \in Of("owners") : IsFiniteSet(o)
           /\ \A r \in Of("resources") : r \in [DOMAIN Defaults -> Int]
           /\ \A v \in Of("volumes") : WithoutNil(v) = v
           /\ \A s \in Of("startup") :
                 DOMAIN s = DOMAIN zeroStartup /\ s.skip \in BOOLEAN
BY WantedAssumption DEF WantedAssumption, WellFormed, Of

(* The kind is read back from the type of the request.                      *)
LEMMA KindReadBack ==
    ASSUME NEW k \in RequestKinds
    PROVE  determineManifestKind(determineRequestType(k)) = k
<1>1. \A j \in RequestKinds : determineRequestType(j) = determineRequestType(k) => j = k
  BY DEF RequestKinds, Service, Scheduled, determineRequestType
<1>2. determineManifestKind(determineRequestType(k)) \in RequestKinds
  BY DEF determineManifestKind
<1>3. determineRequestType(determineManifestKind(determineRequestType(k)))
         = determineRequestType(k)
  BY DEF determineManifestKind
<1> QED BY <1>1, <1>2, <1>3

(* The amounts survive being filled up with the defaults.                   *)
LEMMA AmountReadBack ==
    ASSUME NEW r \in [DOMAIN Defaults -> Int], NEW n \in DOMAIN Defaults
    PROVE  /\ Amount(mapResources(r), n) = Amount(r, n)
           /\ Amount(r, n) \in Int
           /\ DOMAIN mapResources(r) = DOMAIN r
BY DEF Amount, mapResources, Defaults, Junk

(* A startup check is read back equal, one that is skipped as skipped.      *)
LEMMA StartupReadBack ==
    ASSUME NEW s, DOMAIN s = DOMAIN zeroStartup, s.skip \in BOOLEAN
    PROVE  StartupDiff(unpackStartup(MapStartup(s)), s) = {}
<1>1. CASE s.skip
  BY <1>1 DEF unpackStartup, MapStartup, StartupDiff, zeroStartup
<1>2. CASE ~s.skip
  <2>1. s # None
    BY DEF None, zeroStartup
  <2>2. unpackStartup(MapStartup(s)) = s
    BY <1>2, <2>1 DEF unpackStartup, MapStartup
  <2> QED BY <1>2, <2>2 DEF StartupDiff
<1> QED BY <1>1, <1>2

(* Equal startups can be replaced by each other.                            *)
LEMMA StartupsCompose ==
    ASSUME NEW a, NEW b, NEW c, StartupDiff(a, b) = {}, StartupDiff(a, c) = {}
    PROVE  StartupDiff(b, c) = {}
<1> DEFINE Norm(s) == IF s.skip THEN zeroStartup ELSE s
<1>1. \A s, o : StartupDiff(s, o) = {} <=>
         /\ \A f \in DOMAIN zeroStartup \ {"skip"} : Norm(s)[f] = Norm(o)[f]
         /\ s.skip = o.skip
  BY DEF StartupDiff
<1> HIDE DEF Norm
<1> QED BY <1>1

(* Equal volumes hold every volume equally often, also one in neither.      *)
LEMMA VolumesCount ==
    ASSUME NEW a, NEW b, VolumesEqual(a, b)
    PROVE  Len(a) = Len(b) /\ \A v : Cardinality(Copies(a, v)) = Cardinality(Copies(b, v))
<1> SUFFICES ASSUME NEW v PROVE Cardinality(Copies(a, v)) = Cardinality(Copies(b, v))
  BY DEF VolumesEqual
<1>1. CASE v \in ToSet(a) \cup ToSet(b)
  BY <1>1 DEF VolumesEqual
<1>2. CASE v \notin ToSet(a) \cup ToSet(b)
  BY <1>2 DEF Copies, ToSet
<1> QED BY <1>1, <1>2

(* So they too can be replaced by each other.                               *)
LEMMA VolumesCompose ==
    ASSUME NEW a, NEW b, NEW c, VolumesEqual(a, b), VolumesEqual(a, c)
    PROVE  VolumesEqual(b, c)
<1>1. Len(a) = Len(b) /\ \A v : Cardinality(Copies(a, v)) = Cardinality(Copies(b, v))
  BY VolumesCount
<1>2. Len(a) = Len(c) /\ \A v : Cardinality(Copies(a, v)) = Cardinality(Copies(c, v))
  BY VolumesCount
<1>3. Len(b) = Len(c) /\ \A v : Cardinality(Copies(b, v)) = Cardinality(Copies(c, v))
  <2>1. \A v : Cardinality(Copies(b, v)) = Cardinality(Copies(c, v))
    BY <1>1, <1>2, Zenon
  <2> QED BY <1>1, <1>2, <2>1
<1> QED BY <1>3, Zenon DEF VolumesEqual

(* Owners that do not differ are the same.                                  *)
LEMMA OwnersSame ==
    ASSUME NEW a, NEW b, IsFiniteSet(b), ~OwnersDiff(a, b)
    PROVE  a = b
BY FS_Subset DEF OwnersDiff

(* None is no record of the others.                                         *)
LEMMA NotNone ==
    /\ None \notin Posts /\ None \notin Requests /\ None \notin Deploys /\ None \notin Priors
<1>1. DOMAIN None = {"none"}
  BY DEF None
<1>2. \A x \in Posts : "version" \in DOMAIN x
  BY DEF Posts
<1>3. \A x \in Requests : "type" \in DOMAIN x
  BY DEF Requests
<1>4. \A x \in Deploys : "version" \in DOMAIN x
  BY DEF Deploys
<1>5. \A x \in Priors : "version" \in DOMAIN x
  BY DEF Priors
<1> QED BY <1>1, <1>2, <1>3, <1>4, <1>5

(* What is read back of a request and a deploy.                             *)
LEMMA RunningType ==
    ASSUME NEW req \in Requests, NEW dep \in Deploys
    PROVE  unpackDeployConfig(req, dep) \in Priors
<1>1. determineManifestKind(req.type) \in RequestKinds
  BY KindReadBack DEF Requests
<1>2. extractSchedule(req) \in Schedules
  BY DEF Requests, Schedules, extractSchedule
<1>3. unpackStartup(dep.healthcheck) \in {unpackStartup(MapStartup(s)) : s \in Of("startup")}
  BY DEF Deploys
<1> QED BY <1>1, <1>2, <1>3 DEF Requests, Deploys, Priors, unpackDeployConfig

(* And where one of them may be missing.                                    *)
LEMMA BuildStateType ==
    ASSUME NEW req \in Requests \cup {None}, NEW dep \in Deploys \cup {None}
    PROVE  /\ BuildState(req, dep) \in Priors \cup {None}
           /\ BuildState(req, dep) # None =>
                 /\ req \in Requests /\ dep \in Deploys /\ req # None /\ dep # None
                 /\ BuildState(req, dep) = unpackDeployConfig(req, dep)
<1>1. CASE req = None \/ dep = None
  BY <1>1 DEF BuildState
<1>2. CASE req # None /\ dep # None
  BY <1>2, RunningType DEF BuildState
<1> QED BY <1>1, <1>2

(* What Sous sends has the fields of what is sent, and is what was wanted.  *)
LEMMA SentRequest ==
    ASSUME NEW d \in Posts, d.kind \in RequestKinds
    PROVE  LET req == singRequestFromDeployment(d)
           IN  /\ req \in Requests
               /\ determineManifestKind(req.type) = d.kind
               /\ req.instances = d.instances
               /\ req.owners = d.owners
               /\ d.kind = Scheduled => extractSchedule(req) = d.schedule
<1>1. singRequestFromDeployment(d) \in Requests
  BY DEF singRequestFromDeployment, Requests, Schedules, Posts
<1>2. determineManifestKind(singRequestFromDeployment(d).type) = d.kind
  BY KindReadBack DEF singRequestFromDeployment
<1>3. d.kind = Scheduled => extractSchedule(singRequestFromDeployment(d)) = d.schedule
  BY DEF singRequestFromDeployment, extractSchedule, determineRequestType, Scheduled, Service
<1> QED BY <1>1, <1>2, <1>3 DEF singRequestFromDeployment

(* The same of a deploy.                                                    *)
LEMMA SentDeploy ==
    ASSUME WellFormed, NEW d \in Posts
    PROVE  LET dep == buildDeployRequest(d)
           IN  /\ dep \in Deploys
               /\ dep.version = d.version
               /\ dep.env = d.env
               /\ \A n \in DOMAIN Defaults : Amount(dep.resources, n) = Amount(d.resources, n)
               /\ VolumesEqual(dep.volumes, d.volumes)
               /\ StartupDiff(unpackStartup(dep.healthcheck), d.startup) = {}
<1>1. /\ d.resources \in Of("resources") /\ d.volumes \in Of("volumes")
      /\ d.startup \in Of("startup") /\ d.version \in Of("version") /\ d.env \in Of("env")
  BY DEF Posts
<1>2. WithoutNil(d.volumes) = d.volumes
  BY <1>1, FieldsAre
<1>3. buildDeployRequest(d) \in Deploys
  BY <1>1, <1>2 DEF buildDeployRequest, Deploys
<1>4. \A n \in DOMAIN Defaults : Amount(mapResources(d.resources), n) = Amount(d.resources, n)
  BY <1>1, FieldsAre, AmountReadBack
<1>5. VolumesEqual(d.volumes, d.volumes)
  BY DEF VolumesEqual
<1>6. StartupDiff(unpackStartup(MapStartup(d.startup)), d.startup) = {}
  BY <1>1, FieldsAre, StartupReadBack
<1> QED BY <1>2, <1>3, <1>4, <1>5, <1>6 DEF buildDeployRequest

----------------------------------------------------------------------------
(* What is not sent.                                                        *)

(* The parts of no difference.                                              *)
LEMMA NoDifference ==
    ASSUME NEW d, NEW o, Diff(d, o) = {}
    PROVE  /\ d.version = o.version /\ d.kind = o.kind
           /\ ~OwnersDiff(d.owners, o.owners)
           /\ d.kind = Scheduled => d.schedule = o.schedule
           /\ d.instances = o.instances /\ d.env = o.env
           /\ ResourcesEqual(d.resources, o.resources) \/ d.resources = o.resources
           /\ VolumesEqual(d.volumes, o.volumes)
           /\ StartupDiff(d.startup, o.startup) = {}
BY DEF Diff, ConfigDiff

(* A request that the pair does not change is as the pair wants it.         *)
LEMMA RequestLeft ==
    ASSUME WellFormed, request \in Requests, deploy \in Deploys, NEW p \in Pairs,
           p.prior # None, Diff(p.prior, unpackDeployConfig(request, deploy)) = {},
           ~changesReq(p)
    PROVE  RequestAs(p.post)
<1> DEFINE run == unpackDeployConfig(request, deploy)
<1>1. p.prior \in Priors /\ p.post \in Posts
  BY DEF Pairs
<1>2. /\ run.kind = determineManifestKind(request.type) /\ run.instances = request.instances
      /\ run.owners = request.owners /\ run.schedule = extractSchedule(request)
  BY DEF unpackDeployConfig
<1> HIDE DEF run
<1>3. /\ p.prior.kind = run.kind /\ p.prior.instances = run.instances
      /\ ~OwnersDiff(p.prior.owners, run.owners)
      /\ p.prior.kind = Scheduled => p.prior.schedule = run.schedule
  BY NoDifference DEF run
<1>4. p.prior.owners = run.owners
  BY <1>2, <1>3, FieldsAre, OwnersSame DEF Requests
<1>5. /\ p.prior.kind = p.post.kind /\ p.prior.instances = p.post.instances
      /\ p.prior.owners = p.post.owners
      /\ p.prior.kind = Scheduled => p.prior.schedule = p.post.schedule
  BY DEF changesReq
<1>6. request # None
  BY NotNone
<1> QED BY <1>2, <1>3, <1>4, <1>5, <1>6 DEF RequestAs

(* Amounts that compare equal are equal.                                    *)
LEMMA AmountsSame ==
    ASSUME Sendable, NEW r \in Of("resources"), NEW o \in Of("resources"),
           NEW a, NEW b,
           \A n \in DOMAIN Defaults : Amount(a, n) = Amount(r, n),
           \A n \in DOMAIN Defaults : Amount(b, n) = Amount(o, n),
           ResourcesEqual(a, b) \/ a = b
    PROVE  \A n \in DOMAIN Defaults : Amount(r, n) = Amount(o, n)
<1> SUFFICES ASSUME NEW n \in DOMAIN Defaults PROVE Amount(r, n) = Amount(o, n)
  OBVIOUS
<1>1. DOMAIN Defaults = {"cpus", "memory", "ports"}
  BY DEF Defaults
<1>2. CASE a = b
  BY <1>2
<1>3. CASE ResourcesEqual(a, b)
  <2>1. CASE n = "ports"
    BY <1>3, <2>1 DEF ResourcesEqual
  <2>2. CASE n \in {"cpus", "memory"}
    <3>1. Near(Amount(r, n), Amount(o, n))
      BY <1>3, <2>2 DEF ResourcesEqual
    <3> QED BY <3>1 DEF Sendable, ToldApart
  <2> QED BY <1>1, <2>1, <2>2
<1> QED BY <1>2, <1>3

(* A deploy that the pair does not change is as the pair wants it.          *)
LEMMA DeployLeft ==
    ASSUME Sendable, request \in Requests, deploy \in Deploys, NEW p \in Pairs,
           p.prior # None, Diff(p.prior, unpackDeployConfig(request, deploy)) = {},
           ~changesDep(p)
    PROVE  DeployAs(p.post)
<1> DEFINE run == unpackDeployConfig(request, deploy)
<1>0. WellFormed
  BY DEF Sendable
<1>1. p.prior \in Priors /\ p.post \in Posts
  BY DEF Pairs
<1>2. /\ run.version = deploy.version /\ run.env = deploy.env
      /\ run.resources = deploy.resources /\ run.volumes = deploy.volumes
      /\ run.startup = unpackStartup(deploy.healthcheck)
  BY DEF unpackDeployConfig
<1> HIDE DEF run
<1>3. /\ p.prior.version = run.version /\ p.prior.env = run.env
      /\ ResourcesEqual(p.prior.resources, run.resources) \/ p.prior.resources = run.resources
      /\ VolumesEqual(p.prior.volumes, run.volumes)
      /\ StartupDiff(p.prior.startup, run.startup) = {}
  BY NoDifference DEF run
<1>4. /\ p.prior.version = p.post.version /\ p.prior.env = p.post.env
      /\ ResourcesEqual(p.prior.resources, p.post.resources)
      /\ VolumesEqual(p.prior.volumes, p.post.volumes)
      /\ StartupDiff(p.prior.startup, p.post.startup) = {}
  BY DEF changesDep
<1>5. PICK r1 \in Of("resources") : p.prior.resources = mapResources(r1)
  BY <1>1 DEF Priors
<1>6. PICK r2 \in Of("resources") : deploy.resources = mapResources(r2)
  BY DEF Deploys
<1>7. p.post.resources \in Of("resources")
  BY <1>1 DEF Posts
<1>8. \A r \in Of("resources") : \A n \in DOMAIN Defaults :
         Amount(mapResources(r), n) = Amount(r, n)
  BY <1>0, FieldsAre, AmountReadBack
<1>9. \A n \in DOMAIN Defaults : Amount(r1, n) = Amount(r2, n)
  BY <1>2, <1>3, <1>5, <1>6, <1>8, AmountsSame
<1>10. \A n \in DOMAIN Defaults : Amount(r1, n) = Amount(p.post.resources, n)
  BY <1>4, <1>5, <1>7, <1>8, AmountsSame
<1>11. \A n \in DOMAIN Defaults : Amount(deploy.resources, n) = Amount(p.post.resources, n)
  BY <1>6, <1>8, <1>9, <1>10
<1>12. VolumesEqual(deploy.volumes, p.post.volumes)
  BY <1>2, <1>3, <1>4, VolumesCompose
<1>13. StartupDiff(unpackStartup(deploy.healthcheck), p.post.startup) = {}
  BY <1>2, <1>3, <1>4, StartupsCompose
<1>14. deploy # None
  BY NotNone
<1> QED BY <1>2, <1>3, <1>4, <1>11, <1>12, <1>13, <1>14 DEF DeployAs

(* What runs as the pair wants it in both parts differs from what is        *)
(* intended in the metadata at most.                                        *)
LEMMA RunsAsWanted ==
    ASSUME WellFormed, request \in Requests, deploy \in Deploys, NEW post \in Posts,
           RequestAs(post), DeployAs(post)
    PROVE  Diff(unpackDeployConfig(request, deploy), post) \subseteq {"metadata"}
<1> DEFINE run == unpackDeployConfig(request, deploy)
<1>1. /\ run.kind = post.kind /\ run.instances = post.instances
      /\ run.owners = post.owners /\ (run.kind = Scheduled => run.schedule = post.schedule)
      /\ run.version = post.version /\ run.env = post.env
      /\ VolumesEqual(run.volumes, post.volumes)
      /\ StartupDiff(run.startup, post.startup) = {}
      /\ run.resources = deploy.resources
  BY DEF unpackDeployConfig, RequestAs, DeployAs
<1>2. ResourcesEqual(run.resources, post.resources)
  <2>1. PICK r \in Of("resources") : deploy.resources = mapResources(r)
    BY DEF Deploys
  <2>2. post.resources \in [DOMAIN Defaults -> Int] /\ r \in [DOMAIN Defaults -> Int]
    BY <2>1, FieldsAre DEF Posts
  <2>3. DOMAIN deploy.resources = DOMAIN post.resources
    BY <2>1, <2>2 DEF mapResources
  <2>4. DOMAIN Defaults = {"cpus", "memory", "ports"}
    BY DEF Defaults
  <2>5. \A n \in DOMAIN Defaults : Amount(post.resources, n) \in Int
    BY <2>2, AmountReadBack
  <2>6. \A n \in DOMAIN Defaults : Near(Amount(deploy.resources, n), Amount(post.resources, n))
    BY <2>5 DEF DeployAs, Near
  <2>7. Amount(deploy.resources, "ports") = Amount(post.resources, "ports")
    BY <2>4 DEF DeployAs
  <2> QED BY <1>1, <2>3, <2>4, <2>6, <2>7 DEF ResourcesEqual
<1>3. ~OwnersDiff(run.owners, post.owners)
  BY <1>1 DEF OwnersDiff
<1> HIDE DEF run
<1>4. ConfigDiff(run, post) \subseteq {"metadata"}
  BY <1>1, <1>2 DEF ConfigDiff
<1>5. Diff(run, post) \subseteq {"metadata"}
  BY <1>1, <1>3, <1>4 DEF Diff
<1> QED BY <1>5 DEF run

----------------------------------------------------------------------------
(* The worker.                                                              *)

(* A pair that adds is one without a prior.                                 *)
LEMMA Added ==
    ASSUME NEW p \in Pairs
    PROVE  Kind(p) = "added" <=> p.prior = None
<1>1. p.post # None
  BY NotNone DEF Pairs
<1> QED BY <1>1 DEF Kind

(* The pair of a rectification under way is one, and stays first.           *)
LEMMA PairStays ==
    ASSUME DeployerTypes, queue # <<>>
    PROVE  /\ pair \in Pairs
           /\ Tail(queue) \in Seq(Pairs)
           /\ \A p \in Pairs : Append(queue, p) \in Seq(Pairs) /\ Append(queue, p)[1] = pair
                               /\ Append(queue, p) # <<>>
BY DEF DeployerTypes, pair

(* A step that touches neither the request, nor the deploy, nor the pair.   *)
LEMMA ProgressKept ==
    ASSUME Progress, UNCHANGED <<request, deploy, rect>>,
           rect.at \in {"idle", "post", "deploy", "await"},
           rect.at # "idle" => pair' = pair
    PROVE  Progress'
BY DEF Progress, Running, RequestAs, DeployAs

(* Nothing is under way.                                                    *)
LEMMA ProgressIdle ==
    ASSUME rect'.at = "idle"
    PROVE  Progress'
BY DEF Progress

(* The places of a rectification and what holds there: when it begins,      *)
LEMMA BeginProgress ==
    ASSUME Sendable, DeployerTypes, Begin
    PROVE  /\ rect' \in [at : {"idle", "post", "deploy", "await"}, error : BOOLEAN, fresh : BOOLEAN]
           /\ rect'.at # "idle"
           /\ Progress'
<1>1. queue # <<>> /\ UNCHANGED <<request, deploy, queue>>
  BY DEF Begin, sing
<1>2. pair \in Pairs /\ pair' = pair
  BY <1>1, PairStays DEF pair
<1>3. First(pair) \in {"post", "deploy", "await"}
  BY DEF First, AfterPost
<1> DEFINE fresh == pair.prior = None \/ (Running # None /\ Diff(pair.prior, Running) = {})
<1>4. rect' = [at |-> First(pair), error |-> FALSE, fresh |-> fresh]
  BY DEF Begin
<1>5. fresh \in BOOLEAN
  OBVIOUS
<1> HIDE DEF fresh
<1>6. /\ rect' \in [at : {"idle", "post", "deploy", "await"}, error : BOOLEAN, fresh : BOOLEAN]
      /\ rect'.at = First(pair) /\ rect'.fresh = fresh
  BY <1>3, <1>4, <1>5
<1>7. CASE pair.prior = None
  <2>1. First(pair) = "post"
    BY <1>2, <1>7, Added DEF First
  <2> QED BY <1>2, <1>6, <1>7, <2>1 DEF Progress
<1>8. CASE pair.prior # None /\ fresh
  <2>1. Running # None /\ Diff(pair.prior, Running) = {}
    BY <1>8 DEF fresh
  <2>2. request \in Requests /\ deploy \in Deploys /\ Running = unpackDeployConfig(request, deploy)
    BY <2>1, BuildStateType DEF Running, DeployerTypes
  <2>3. Kind(pair) # "added"
    BY <1>2, <1>8, Added
  <2>4. First(pair) \in {"deploy", "await"} => RequestAs(pair.post)
    BY <1>2, <1>8, <2>1, <2>2, <2>3, RequestLeft DEF First, AfterPost, Sendable
  <2>5. First(pair) = "await" => DeployAs(pair.post)
    BY <1>2, <1>8, <2>1, <2>2, <2>3, DeployLeft DEF First, AfterPost
  <2>6. Running' = Running /\ pair'.post = pair.post /\ pair'.prior = pair.prior
    BY <1>1, <1>2 DEF Running
  <2>7. First(pair) \in {"deploy", "await"} => RequestAs(pair.post)'
    BY <1>1, <1>2, <2>4 DEF RequestAs
  <2>8. First(pair) = "await" => DeployAs(pair.post)'
    BY <1>1, <1>2, <2>5 DEF DeployAs
  <2>9. Running' # None /\ Diff(pair.prior, Running)' = {}
    BY <2>1, <2>6
  <2>10. Progress'
    BY <1>6, <2>7, <2>8, <2>9 DEF Progress
  <2> QED BY <1>3, <1>6, <2>10
<1>9. CASE ~fresh
  <2>1. ~rect'.fresh
    BY <1>6, <1>9
  <2>2. Progress'
    BY <2>1 DEF Progress
  <2> QED BY <1>3, <1>6, <2>2
<1> QED BY <1>7, <1>8, <1>9

(* A call that is refused, or whose answer is lost, ends in an error.       *)
LEMMA RefusedProgress ==
    ASSUME DeployerTypes, Refused
    PROVE  /\ rect' \in [at : {"idle", "post", "deploy", "await"}, error : BOOLEAN, fresh : BOOLEAN]
           /\ rect'.at # "idle" /\ Progress'
<1>1. rect'.at = "await" /\ rect'.error
  BY DEF DeployerTypes, Refused
<1>2. rect' \in [at : {"idle", "post", "deploy", "await"}, error : BOOLEAN, fresh : BOOLEAN]
  BY DEF DeployerTypes, Refused
<1> QED BY <1>1, <1>2 DEF Progress

(* after the request is posted,                                             *)
LEMMA PostProgress ==
    ASSUME Sendable, DeployerTypes, Progress, PostRequest
    PROVE  /\ request' \in Requests \cup {None}
           /\ rect' \in [at : {"idle", "post", "deploy", "await"}, error : BOOLEAN, fresh : BOOLEAN]
           /\ rect'.at # "idle" /\ Progress'
<1>1. queue # <<>> /\ UNCHANGED <<deploy, queue>> /\ rect.at = "post"
  BY DEF PostRequest, DeployerTypes
<1>2. pair \in Pairs /\ pair' = pair /\ pair.post \in Posts
  BY <1>1, PairStays DEF pair, Pairs
<1>3. request' \in Requests \cup {None}
  BY <1>2, SentRequest DEF PostRequest, DeployerTypes
<1>4. CASE Refused
  BY <1>3, <1>4, RefusedProgress
<1>5. CASE /\ pair.post.kind \in RequestKinds
           /\ request' = singRequestFromDeployment(pair.post)
           /\ rect' = [rect EXCEPT !.at = AfterPost(pair)]
  <2>1. AfterPost(pair) \in {"deploy", "await"}
    BY DEF AfterPost
  <2>2. /\ rect' \in [at : {"idle", "post", "deploy", "await"}, error : BOOLEAN, fresh : BOOLEAN]
        /\ rect'.at = AfterPost(pair) /\ rect'.fresh = rect.fresh
    BY <1>5, <2>1 DEF DeployerTypes
  <2>3. RequestAs(pair.post)'
    <3>1. request' # None
      BY <1>2, <1>5, SentRequest, NotNone
    <3> QED BY <1>2, <1>5, <3>1, SentRequest DEF RequestAs
  <2>4. ASSUME rect.fresh, AfterPost(pair) = "await"
        PROVE  DeployAs(pair.post)
    <3>1. pair.prior # None /\ ~changesDep(pair)
      BY <1>2, <2>4, Added DEF AfterPost
    <3>2. Running # None /\ Diff(pair.prior, Running) = {}
      BY <1>1, <2>4, <3>1 DEF Progress
    <3>3. /\ request \in Requests /\ deploy \in Deploys
          /\ Running = unpackDeployConfig(request, deploy)
      BY <3>2, BuildStateType DEF Running, DeployerTypes
    <3> QED BY <1>2, <3>1, <3>2, <3>3, DeployLeft
  <2>5. ASSUME rect.fresh, AfterPost(pair) = "await"
        PROVE  DeployAs(pair.post)'
    BY <1>1, <1>2, <2>4, <2>5 DEF DeployAs
  <2> QED BY <1>3, <2>1, <2>2, <2>3, <2>5 DEF Progress
<1> QED BY <1>4, <1>5 DEF PostRequest

(* and after the deploy.                                                    *)
LEMMA DeployProgress ==
    ASSUME Sendable, DeployerTypes, Progress, Deploy
    PROVE  /\ deploy' \in Deploys \cup {None}
           /\ rect' \in [at : {"idle", "post", "deploy", "await"}, error : BOOLEAN, fresh : BOOLEAN]
           /\ rect'.at # "idle" /\ Progress'
<1>1. queue # <<>> /\ UNCHANGED <<request, queue>> /\ rect.at = "deploy"
  BY DEF Deploy, DeployerTypes
<1>2. pair \in Pairs /\ pair' = pair /\ pair.post \in Posts
  BY <1>1, PairStays DEF pair, Pairs
<1>3. deploy' \in Deploys \cup {None}
  BY <1>2, SentDeploy DEF Deploy, DeployerTypes, Sendable
<1>4. CASE Refused
  BY <1>3, <1>4, RefusedProgress
<1>5. CASE /\ deploy' = buildDeployRequest(pair.post)
           /\ rect' = [rect EXCEPT !.at = "await", !.error = FailedStatus(pair)]
  <2>1. FailedStatus(pair) \in BOOLEAN
    BY DEF FailedStatus
  <2>2. /\ rect' \in [at : {"idle", "post", "deploy", "await"}, error : BOOLEAN, fresh : BOOLEAN]
        /\ rect'.at = "await" /\ rect'.fresh = rect.fresh
    BY <1>5, <2>1 DEF DeployerTypes
  <2>3. DeployAs(pair.post)'
    <3>1. deploy' # None
      BY <1>2, <1>5, SentDeploy, NotNone DEF Sendable
    <3> QED BY <1>2, <1>5, <3>1, SentDeploy DEF DeployAs, Sendable
  <2>4. rect.fresh => RequestAs(pair.post)'
    BY <1>1, <1>2 DEF Progress, RequestAs
  <2> QED BY <1>3, <2>2, <2>3, <2>4 DEF Progress
<1> QED BY <1>4, <1>5 DEF Deploy

(* The end of a rectification: the pair is done with.                       *)
LEMMA EndKeeps ==
    ASSUME DeployerTypes, rect.at = "await", NEW error, NEW status, End(error, status),
           status = Active /\ ~error /\ rect.fresh =>
               Running # None /\ Diff(Running, pair.post) \subseteq {"metadata"}
    PROVE  DeployerTypes' /\ Progress' /\ RectifiedIsIntended'
<1>1. queue # <<>> /\ UNCHANGED <<intent, request, deploy, state, plan>>
  BY DEF DeployerTypes, End, sing
<1>2. rect' = idleRect /\ queue' = Tail(queue) /\ queue' \in Seq(Pairs)
  BY <1>1, PairStays DEF End
<1>3. rect' \in [at : {"idle", "post", "deploy", "await"}, error : BOOLEAN, fresh : BOOLEAN]
      /\ rect'.at = "idle"
  BY <1>2 DEF idleRect
<1>4. DeployerTypes'
  BY <1>1, <1>2, <1>3 DEF DeployerTypes
<1>5. Progress'
  BY <1>3, ProgressIdle
<1>6. /\ last'.status = status /\ last'.error = error /\ last'.fresh = rect.fresh
      /\ last'.differs = IF Running = None THEN {} ELSE Diff(Running, pair.post)
  BY DEF End
<1>7. RectifiedIsIntended'
  BY <1>6 DEF RectifiedIsIntended
<1> QED BY <1>4, <1>5, <1>7

(* The invariant holds at first and is kept by every step.                  *)
LEMMA DeployerInit ==
    ASSUME Sendable
    PROVE  Init => DeployerInv
<1> SUFFICES ASSUME Init PROVE DeployerInv
  OBVIOUS
<1>1. intent \in Posts
  BY WantedAssumption DEF WantedAssumption, Init, Sendable, WellFormed
<1>2. queue \in Seq(Pairs)
  BY DEF Init
<1>3. plan \in [at : {"idle", "requests", "deploy", "queue"}, post : Posts \cup {None},
                request : Requests \cup {None}, prior : Priors \cup {None},
                priorStatus : Statuses]
  BY DEF Init, idlePlan, Statuses
<1>4. rect \in [at : {"idle", "post", "deploy", "await"}, error : BOOLEAN, fresh : BOOLEAN]
      /\ rect.at = "idle"
  BY DEF Init, idleRect
<1>5. DeployerTypes
  BY <1>1, <1>2, <1>3, <1>4 DEF Init, DeployerTypes, Statuses
<1>6. Progress /\ RectifiedIsIntended
  BY <1>4 DEF Init, Progress, RectifiedIsIntended
<1> QED BY <1>5, <1>6 DEF DeployerInv

(* One step per action; those of the worker are the lemmas above.           *)
LEMMA DeployerNext ==
    ASSUME Sendable
    PROVE  DeployerInv /\ [Next]_vars => DeployerInv'
<1> SUFFICES ASSUME DeployerInv, [Next]_vars PROVE DeployerInv'
  OBVIOUS
<1> DEFINE Rects == [at : {"idle", "post", "deploy", "await"}, error : BOOLEAN, fresh : BOOLEAN]
           Plans == [at : {"idle", "requests", "deploy", "queue"}, post : Posts \cup {None},
                     request : Requests \cup {None}, prior : Priors \cup {None},
                     priorStatus : Statuses]
<1>0. /\ DeployerTypes /\ Progress /\ RectifiedIsIntended
      /\ rect \in Rects /\ plan \in Plans
      /\ rect.at \in {"idle", "post", "deploy", "await"}
  BY DEF DeployerInv, DeployerTypes
<1>a. idlePlan \in Plans
  BY DEF idlePlan, Statuses
<1>1. CASE UNCHANGED vars
  BY <1>0, <1>1 DEF vars, DeployerInv, DeployerTypes, Progress, RectifiedIsIntended, pair,
     Running, RequestAs, DeployAs
<1>2. ASSUME UNCHANGED <<request, deploy, queue, rect, last>>,
             state' \in Statuses, intent' \in Posts \cup {None}, plan' \in Plans
      PROVE  DeployerInv'
  <2>1. Progress'
    BY <1>0, <1>2, ProgressKept DEF pair
  <2>2. RectifiedIsIntended'
    BY <1>0, <1>2 DEF RectifiedIsIntended
  <2>3. DeployerTypes'
    BY <1>0, <1>2 DEF DeployerTypes
  <2> QED BY <2>1, <2>2, <2>3 DEF DeployerInv
<1>3. CASE Edit
  <2>1. intent' \in Posts \cup {None}
    BY <1>3 DEF Edit, Sendable, WellFormed
  <2> QED BY <1>0, <1>2, <1>3, <2>1 DEF Edit, sing, DeployerTypes
<1>4. CASE PutDeployment
  <2>1. PICK d \in Wanted :
           /\ intent' = [d EXCEPT !.owners = intent.owners, !.kind = intent.kind]
           /\ queue' = IF Len(queue) < Cap /\ ~DeploymentFlawed(intent')
                       THEN Append(queue, Pair(None, AnyStatus, intent', AnyStatus))
                       ELSE queue
    BY <1>4 DEF PutDeployment
  <2>2. intent' \in Posts
    <3>1. d \in Posts /\ intent \in Posts
      BY <1>0, <1>4 DEF PutDeployment, DeployerTypes, Sendable, WellFormed
    <3> QED BY <2>1, <3>1 DEF Posts
  <2>3. Pair(None, AnyStatus, intent', AnyStatus) \in Pairs
    BY <2>2 DEF Pair, Pairs, Statuses
  <2>4. queue' \in Seq(Pairs) /\ (queue # <<>> => queue' # <<>> /\ queue'[1] = queue[1])
    BY <1>0, <2>1, <2>3 DEF DeployerTypes
  <2>5. rect.at # "idle" => pair' = pair
    BY <1>0, <2>4 DEF pair, DeployerTypes
  <2>6. UNCHANGED <<request, deploy, state, plan, rect, last>>
    BY <1>4 DEF PutDeployment, sing
  <2>7. Progress'
    BY <1>0, <2>5, <2>6, ProgressKept
  <2>8. RectifiedIsIntended'
    BY <1>0, <2>6 DEF RectifiedIsIntended
  <2>9. DeployerTypes'
    BY <1>0, <2>2, <2>4, <2>6 DEF DeployerTypes
  <2> QED BY <2>7, <2>8, <2>9 DEF DeployerInv
<1>5. CASE ReadIntent
  <2>1. plan' \in Plans
    BY <1>0, <1>5, <1>a DEF ReadIntent, DeployerTypes
  <2> QED BY <1>0, <1>2, <1>5, <2>1 DEF ReadIntent, sing, DeployerTypes
<1>6. CASE ReadRequests
  <2>1. plan' \in Plans
    BY <1>0, <1>6 DEF ReadRequests, DeployerTypes
  <2> QED BY <1>0, <1>2, <1>6, <2>1 DEF ReadRequests, sing, DeployerTypes
<1>7. CASE ReadDeploy
  <2>1. BuildState(plan.request, deploy) \in Priors \cup {None}
    BY <1>0, BuildStateType DEF DeployerTypes
  <2>2. plan' \in Plans
    BY <1>0, <1>7, <2>1 DEF ReadDeploy, DeployerTypes
  <2> QED BY <1>0, <1>2, <1>7, <2>2 DEF ReadDeploy, sing, DeployerTypes
<1>8. CASE ReadFails
  BY <1>0, <1>2, <1>8, <1>a DEF ReadFails, sing, DeployerTypes
<1>9. CASE queueDiffs
  <2>1. planned.post # None => planned \in Pairs
    BY <1>0 DEF planned, Pair, Pairs, Statuses
  <2>2. queue' \in Seq(Pairs) /\ (queue # <<>> => queue' = queue)
    BY <1>0, <1>9, <2>1 DEF queueDiffs, Needed, DeployerTypes
  <2>3. rect.at # "idle" => queue' = queue /\ queue' # <<>>
    BY <1>0, <2>2 DEF DeployerTypes
  <2>4. UNCHANGED <<intent, request, deploy, state, rect, last>> /\ plan' = idlePlan
    BY <1>9 DEF queueDiffs, sing
  <2>5. Progress'
    BY <1>0, <2>3, <2>4, ProgressKept DEF pair
  <2>6. RectifiedIsIntended'
    BY <1>0, <2>4 DEF RectifiedIsIntended
  <2>7. DeployerTypes'
    BY <1>0, <1>a, <2>2, <2>3, <2>4 DEF DeployerTypes
  <2> QED BY <2>5, <2>6, <2>7 DEF DeployerInv
<1>10. CASE Begin
  <2>1. rect' \in Rects /\ Progress'
    BY <1>0, <1>10, BeginProgress
  <2>2. DeployerTypes'
    BY <1>0, <1>10, <2>1 DEF Begin, sing, DeployerTypes
  <2>3. RectifiedIsIntended'
    BY <1>10 DEF Begin, RectifiedIsIntended
  <2> QED BY <2>1, <2>2, <2>3 DEF DeployerInv
<1>11. CASE NoArtifact
  <2>1. rect' \in Rects /\ rect'.error
    BY <1>11 DEF NoArtifact
  <2>2. rect'.at = "await"
    BY <1>11 DEF NoArtifact
  <2>3. Progress'
    BY <2>1, <2>2 DEF Progress
  <2>4. DeployerTypes'
    BY <1>0, <1>11, <2>1 DEF NoArtifact, sing, DeployerTypes
  <2>5. RectifiedIsIntended'
    BY <1>11 DEF NoArtifact, RectifiedIsIntended
  <2> QED BY <2>3, <2>4, <2>5 DEF DeployerInv
<1>12. CASE PostRequest
  <2>1. request' \in Requests \cup {None} /\ rect' \in Rects /\ Progress'
    BY <1>0, <1>12, PostProgress
  <2>2. UNCHANGED <<intent, deploy, state, plan, queue, last>> /\ rect.at = "post"
    BY <1>12 DEF PostRequest
  <2>3. DeployerTypes'
    BY <1>0, <2>1, <2>2 DEF DeployerTypes
  <2>4. RectifiedIsIntended'
    BY <1>0, <2>2 DEF RectifiedIsIntended
  <2> QED BY <2>1, <2>3, <2>4 DEF DeployerInv
<1>13. CASE Deploy
  <2>1. deploy' \in Deploys \cup {None} /\ rect' \in Rects /\ Progress'
    BY <1>0, <1>13, DeployProgress
  <2>2. /\ UNCHANGED <<intent, request, plan, queue, last>> /\ rect.at = "deploy"
        /\ state' \in Statuses
    BY <1>0, <1>13 DEF Deploy, DeployerTypes, Statuses
  <2>3. DeployerTypes'
    BY <1>0, <2>1, <2>2 DEF DeployerTypes
  <2>4. RectifiedIsIntended'
    BY <1>0, <2>2 DEF RectifiedIsIntended
  <2> QED BY <2>1, <2>3, <2>4 DEF DeployerInv
<1>14. CASE PollDone
  <2>1. rect.at = "await" /\ Running # None /\ End(rect.error \/ state = Failed, state)
    BY <1>14 DEF PollDone
  <2>2. ASSUME rect.fresh, ~rect.error
        PROVE  Diff(Running, pair.post) \subseteq {"metadata"}
    <3>1. RequestAs(pair.post) /\ DeployAs(pair.post)
      BY <1>0, <2>1, <2>2 DEF Progress
    <3>2. pair.post \in Posts
      BY <1>0, <2>1, PairStays DEF DeployerTypes, Pairs
    <3>3. /\ request \in Requests /\ deploy \in Deploys
          /\ Running = unpackDeployConfig(request, deploy)
      BY <1>0, <2>1, BuildStateType DEF Running, DeployerTypes
    <3> QED BY <3>1, <3>2, <3>3, RunsAsWanted DEF Sendable
  <2> DEFINE error == rect.error \/ state = Failed
  <2>3. ~error => ~rect.error
    OBVIOUS
  <2>4. End(error, state)
    BY <2>1
  <2> HIDE DEF error
  <2> QED BY <1>0, <2>1, <2>2, <2>3, <2>4, EndKeeps DEF DeployerInv
<1>15. CASE PollFails
  <2>1. rect.at = "await" /\ End(TRUE, AnyStatus)
    BY <1>15 DEF PollFails
  <2> QED BY <1>0, <2>1, EndKeeps DEF DeployerInv, AnyStatus, Active
<1>16. CASE Timeout
  <2>1. rect.at = "await" /\ End(rect.error, AnyStatus)
    BY <1>16 DEF Timeout
  <2> QED BY <1>0, <2>1, EndKeeps DEF DeployerInv, AnyStatus, Active
<1>17. CASE Succeeds
  BY <1>0, <1>2, <1>17 DEF Succeeds, DeployerTypes, Statuses
<1>18. CASE Fails
  BY <1>0, <1>2, <1>18 DEF Fails, DeployerTypes, Statuses
<1> QED BY <1>1, <1>3, <1>4, <1>5, <1>6, <1>7, <1>8, <1>9, <1>10, <1>11, <1>12, <1>13, <1>14,
           <1>15, <1>16, <1>17, <1>18 DEF Next, Resolve

(* In every reachable state a rectification that began from what ran has    *)
(* the request, or the request and the deploy, as its pair wants them.      *)
THEOREM DeployerInvariance ==
    ASSUME Sendable
    PROVE  Spec => []DeployerInv
BY DeployerInit, DeployerNext, PTL DEF Spec

(* A rectification that ends active and without error, of a pair whose      *)
(* prior was what ran when it began, leaves what was intended running but   *)
(* for the metadata, whatever else is queued, planned, put or failing.      *)
THEOREM RectifiedIsIntendedAlways ==
    ASSUME Sendable
    PROVE  Spec => []RectifiedIsIntended
BY DeployerInvariance, PTL DEF DeployerInv
=============================================================================
