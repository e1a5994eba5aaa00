------------------------- MODULE SingularityDeployer -------------------------
(****************************************************************************)
(* One deployment from the intent to what runs: the resolver compares what  *)
(* is intended with what it reads from Singularity and queues a pair, a PUT *)
(* of the single deployment queues one without looking, and the worker of   *)
(* the deployment's queue rectifies them one by one                         *)
(* (ext/singularity/deployer.go, recti-agent.go, deployment_builder.go,     *)
(* requeststate.go; lib/rectification.go).                                  *)
(*                                                                          *)
(* Singularity (external) has a request, which says how many instances of   *)
(* what type, and the latest of its deploys, which says of what.  It takes  *)
(* no deploy while one is pending.                                          *)
(****************************************************************************)
EXTENDS Deployments

CONSTANTS Wanted,       \* the deployments that may be intended
          Initially,    \* those of them that may be at first
          Cap,          \* of the queue
          MaxChanges,   \* bound on the changes of the intent
          MaxFaults     \* bound on the calls and deploys that fail

None == [none |-> TRUE]              \* no deployment, request or deploy

AnyStatus == "any"                         \* the zero DeployStatus
Pending == "pending"
Active == "active"
Failed == "failed"

ASSUME WantedAssumption == (\A d \in Wanted : d.kind \in ManifestKinds) /\ Initially \subseteq Wanted

VARIABLES intent,       \* the deployment in the GDM, or None
          request,      \* Singularity's request, or None
          deploy,       \* the latest deploy of it, or None
          state,        \* of that deploy: Pending, Active (it succeeded), Failed
          plan,         \* the resolver: [at, post, request, prior, priorStatus]
          queue,        \* the pairs; the first is the worker's
          rect,         \* its rectification: [at, error, fresh]
          last,         \* the latest result, until the next begins:
                        \* [error, status, fresh, differs]
          changes, faults

sing == <<request, deploy, state>>
vars == <<intent, request, deploy, state, plan, queue, rect, last, changes, faults>>

----------------------------------------------------------------------------
(* What Sous sends to Singularity.                                          *)

determineRequestType(kind) ==
    CASE kind = Service -> "SERVICE"
      [] kind = "worker" -> "WORKER"
      [] kind = "on-demand" -> "ON_DEMAND"
      [] kind = Scheduled -> "SCHEDULED"
      [] kind = "once" -> "RUN_ONCE"

singRequestFromDeployment(d) ==
    [type |-> determineRequestType(d.kind), instances |-> d.instances, owners |-> d.owners,
     schedule |-> IF d.kind = Scheduled THEN d.schedule ELSE ""]

mapResources(r) == [n \in DOMAIN Defaults |-> Amount(r, n)]

(* None: no healthcheck.                                                    *)
MapStartup(s) == IF s.skip THEN None ELSE s

(* The image stands for the version: its labels give it back.               *)
buildDeployRequest(d) ==
    [version |-> d.version, env |-> d.env, resources |-> mapResources(d.resources),
     volumes |-> WithoutNil(d.volumes), healthcheck |-> MapStartup(d.startup)]

----------------------------------------------------------------------------
(* What it makes of what it reads there.                                    *)

determineManifestKind(type) == CHOOSE k \in RequestKinds : determineRequestType(k) = type

extractSchedule(req) == IF req.type = "SCHEDULED" THEN req.schedule ELSE ""

unpackStartup(healthcheck) ==
    IF healthcheck = None THEN [zeroStartup EXCEPT !.skip = TRUE] ELSE healthcheck

unpackDeployConfig(req, dep) ==
    [version |-> dep.version, env |-> dep.env, metadata |-> Empty,
     resources |-> dep.resources, volumes |-> dep.volumes,
     startup |-> unpackStartup(dep.healthcheck),
     instances |-> req.instances, owners |-> req.owners,
     kind |-> determineManifestKind(req.type), schedule |-> extractSchedule(req)]

(* A request without a deploy is a malformed response: it is left out of    *)
(* what runs.                                                               *)
BuildState(req, dep) == IF req = None \/ dep = None THEN None ELSE unpackDeployConfig(req, dep)

----------------------------------------------------------------------------
(* Pairs.  Post is what is intended; the resolver promotes it to Active.    *)

Pair(prior, priorStatus, post, postStatus) ==
    [prior |-> prior, priorStatus |-> priorStatus, post |-> post, postStatus |-> postStatus]

Kind(p) == CASE p.prior = None -> "added"
             [] p.prior # None /\ p.post = None -> "removed"
             [] p.prior # None /\ p.post # None ->
                  IF Diff(p.prior, p.post) # {} \/ p.priorStatus # p.postStatus
                  THEN "modified" ELSE "same"

changesReqMutant(p) ==               \* mutant: the owners are forgotten
    \/ p.prior.kind = Scheduled /\ p.prior.schedule # p.post.schedule
    \/ p.prior.kind # p.post.kind
    \/ p.prior.instances # p.post.instances
changesReq(p) ==
    \/ p.prior.kind = Scheduled /\ p.prior.schedule # p.post.schedule
    \/ p.prior.kind # p.post.kind
    \/ p.prior.instances # p.post.instances
    \/ p.prior.owners # p.post.owners

changesDepMutant(p) ==               \* mutant: what failed is left alone
    \/ p.prior.version # p.post.version
    \/ p.prior.env # p.post.env
    \/ ~ResourcesEqual(p.prior.resources, p.post.resources)
    \/ ~VolumesEqual(p.prior.volumes, p.post.volumes)
    \/ StartupDiff(p.prior.startup, p.post.startup) # {}
changesDep(p) ==
    \/ p.postStatus = Failed \/ p.priorStatus = Failed
    \/ p.prior.version # p.post.version
    \/ p.prior.env # p.post.env
    \/ ~ResourcesEqual(p.prior.resources, p.post.resources)
    \/ ~VolumesEqual(p.prior.volumes, p.post.volumes)
    \/ StartupDiff(p.prior.startup, p.post.startup) # {}

(* The calls that rectify a pair, one after the other, and the wait.        *)
AfterPost(p) == IF Kind(p) = "added" THEN "deploy" ELSE IF changesDep(p) THEN "deploy" ELSE "await"
First(p) == IF Kind(p) = "added" THEN "post" ELSE IF changesReq(p) THEN "post" ELSE AfterPost(p)

----------------------------------------------------------------------------
(* The intent changes, with a pair (PUT of the single deployment) or        *)
(* without one (any other way to write the GDM).                            *)

Fault == faults < MaxFaults /\ faults' = faults + 1

Edit == /\ changes < MaxChanges /\ changes' = changes + 1
        /\ \E d \in Wanted \cup {None} : d # intent /\ intent' = d
        /\ UNCHANGED <<sing, plan, queue, rect, last, faults>>

(* A spec that differs, or is forced.  Owners and kind are the manifest's.  *)
PutDeployment ==
    /\ changes < MaxChanges /\ changes' = changes + 1
    /\ intent # None
    /\ \E d \in Wanted :
        /\ d.instances # 0
        /\ intent' = [d EXCEPT !.owners = intent.owners, !.kind = intent.kind]
        /\ queue' = IF Len(queue) < Cap /\ ~DeploymentFlawed(intent')
                    THEN Append(queue, Pair(None, AnyStatus, intent', AnyStatus)) ELSE queue
    /\ UNCHANGED <<sing, plan, rect, last, faults>>

(* The resolver, over and over: the GDM, the list of requests, the deploys. *)
idlePlan == [at |-> "idle", post |-> None, request |-> None, prior |-> None, priorStatus |-> AnyStatus]

ReadIntent ==
    /\ plan.at = "idle"
    /\ plan' = [idlePlan EXCEPT !.at = "requests", !.post = intent]
    /\ UNCHANGED <<intent, sing, queue, rect, last, changes, faults>>

ReadRequests ==
    /\ plan.at = "requests"
    /\ plan' = [plan EXCEPT !.at = "deploy", !.request = request]
    /\ UNCHANGED <<intent, sing, queue, rect, last, changes, faults>>

(* A pending deploy comes with the request, another one from the history;   *)
(* either way it is the latest at one moment.                               *)
ReadDeploy ==
    /\ plan.at = "deploy"
    /\ plan' = [plan EXCEPT !.at = "queue", !.prior = BuildState(plan.request, deploy),
                            !.priorStatus = state]
    /\ UNCHANGED <<intent, sing, queue, rect, last, changes, faults>>

(* The read of this server fails: the cycle ends.                           *)
ReadFails ==
    /\ plan.at \in {"requests", "deploy"}
    /\ Fault
    /\ plan' = idlePlan
    /\ UNCHANGED <<intent, sing, queue, rect, last, changes>>

planned == Pair(plan.prior, plan.priorStatus, plan.post, Active)
Needed(p) ==
    /\ p.post # None
    /\ Kind(p) # "same"
    /\ Kind(p) = "added" => p.post.instances # 0 /\ p.post.version # 0

queueDiffs ==
    /\ plan.at = "queue"
    /\ plan' = idlePlan
    /\ queue' = IF Needed(planned) /\ queue = <<>> THEN <<planned>> ELSE queue
    /\ UNCHANGED <<intent, sing, rect, last, changes, faults>>

----------------------------------------------------------------------------
(* The worker.                                                              *)

idleRect == [at |-> "idle", error |-> FALSE, fresh |-> TRUE]
pair == queue[1]
Running == BuildState(request, deploy)

(* rectify: an image for the version, unless there are no instances.        *)
Begin ==
    /\ rect.at = "idle" /\ queue # <<>>
    /\ rect' = [at |-> First(pair), error |-> FALSE,
                fresh |-> pair.prior = None \/ (Running # None /\ Diff(pair.prior, Running) = {})]
    /\ last' = None
    /\ UNCHANGED <<intent, sing, plan, queue, changes, faults>>

NoArtifact ==
    /\ rect.at = "idle" /\ queue # <<>> /\ pair.post.instances # 0
    /\ Fault
    /\ rect' = [at |-> "await", error |-> TRUE, fresh |-> FALSE]
    /\ last' = None
    /\ UNCHANGED <<intent, sing, plan, queue, changes>>

Refused == rect' = [rect EXCEPT !.at = "await", !.error = TRUE]

PostRequest ==
    /\ rect.at = "post"
    /\ \/ /\ pair.post.kind \in RequestKinds
          /\ request' = singRequestFromDeployment(pair.post)
          /\ \/ rect' = [rect EXCEPT !.at = AfterPost(pair)] /\ UNCHANGED faults
             \/ Refused /\ Fault                        \* the answer is lost
       \/ /\ Refused
          /\ IF pair.post.kind \in RequestKinds THEN Fault ELSE UNCHANGED faults
          /\ UNCHANGED request
    /\ UNCHANGED <<intent, deploy, state, plan, queue, last, changes>>

(* A success is no error, but for a pair whose prior had failed.            *)
FailedStatus(p) == Kind(p) = "modified" /\ p.priorStatus = Failed

Deploy ==
    /\ rect.at = "deploy"
    /\ \/ /\ pair.post.instances # 0 /\ state # Pending
          /\ deploy' = buildDeployRequest(pair.post) /\ state' = Pending
          /\ \/ /\ rect' = [rect EXCEPT !.at = "await", !.error = FailedStatus(pair)]
                /\ UNCHANGED faults
             \/ Refused /\ Fault
       \/ /\ Refused
          /\ IF pair.post.instances = 0 \/ state = Pending THEN UNCHANGED faults ELSE Fault
          /\ UNCHANGED <<deploy, state>>
    /\ UNCHANGED <<intent, request, plan, queue, last, changes>>

End(error, status) ==
    /\ last' = [error |-> error, status |-> status, fresh |-> rect.fresh,
                differs |-> IF Running = None THEN {} ELSE Diff(Running, pair.post)]
    /\ rect' = idleRect
    /\ queue' = Tail(queue)
    /\ UNCHANGED <<intent, sing, plan, changes>>

(* awaitDone.  A poll that fails ends the wait, and its error is the result.*)
PollFails == /\ rect.at = "await"
             /\ IF Running = None THEN UNCHANGED faults ELSE Fault
             /\ End(TRUE, AnyStatus)

(* A deploy that failed leaves a message, which becomes the error.          *)
Final == state \in {Active, Failed}
PollDone == /\ rect.at = "await" /\ Running # None
            /\ Final /\ Running.version = pair.post.version
            /\ End(rect.error \/ state = Failed, state)
            /\ UNCHANGED faults

Timeout == rect.at = "await" /\ End(rect.error, AnyStatus) /\ UNCHANGED faults

----------------------------------------------------------------------------
(* Singularity, by itself.                                                  *)

Succeeds == /\ state = Pending /\ state' = Active
            /\ UNCHANGED <<intent, request, deploy, plan, queue, rect, last, changes, faults>>
Fails == /\ state = Pending /\ state' = Failed
         /\ Fault
         /\ UNCHANGED <<intent, request, deploy, plan, queue, rect, last, changes>>

Init ==
    /\ intent \in Initially
    /\ request = None /\ deploy = None /\ state = AnyStatus
    /\ plan = idlePlan /\ queue = <<>> /\ rect = idleRect
    /\ last = None /\ changes = 0 /\ faults = 0

Resolve == ReadIntent \/ ReadRequests \/ ReadDeploy \/ queueDiffs
Work == Begin \/ PostRequest \/ Deploy \/ PollDone \/ Timeout \/ (PollFails /\ UNCHANGED faults)
Next == \/ Edit \/ PutDeployment
        \/ Resolve \/ ReadFails
        \/ Begin \/ NoArtifact \/ PostRequest \/ Deploy \/ PollDone \/ PollFails \/ Timeout
        \/ Succeeds \/ Fails

(* The auto-resolver never stops, the worker takes what is queued, a poll   *)
(* is repeated until it times out, and Singularity finishes what is pending.*)
Spec == Init /\ [][Next]_vars /\ WF_vars(Resolve) /\ WF_vars(Work) /\ WF_vars(Succeeds)

----------------------------------------------------------------------------
(* Properties.                                                              *)

(* The comment on Rectify (deployer.go:83-84): the real world matches       *)
(* pair.Post, given that it currently matches pair.Prior.  A rectification  *)
(* that ends active and without error, of a pair whose prior was what ran   *)
(* when it began, leaves what was intended running: what changesReq and     *)
(* changesDep test and what is sent cover all that is compared, but for the *)
(* metadata.                                                                *)
RectifiedIsIntended ==
    last # None => (last.status = Active /\ ~last.error /\ last.fresh =>
                        last.differs \subseteq {"metadata"})

(* What Singularity can run and give back as it was written.                *)
Deployable(d) ==
    /\ d # None /\ d.instances > 0 /\ d.version # 0 /\ d.kind \in RequestKinds
    /\ d.metadata = Empty /\ DOMAIN d.resources = DOMAIN Defaults

(* Once the intent stays as it is, it runs and is left alone for good:      *)
(* pairs planned from a stale view may be rectified after it, but what they *)
(* do is seen and undone, and what runs as intended is read back equal.     *)
Settled == queue = <<>> /\ state = Active /\ Diff(Running, intent) = {}
Converges == <>[](Deployable(intent) => Settled)

----------------------------------------------------------------------------
(* Said of the code by its comments or its use, and not so: see the README. *)

(* A plan made before a PUT is pushed after its rectification is done, and  *)
(* takes the deployment back, in part: what it thinks is there is not sent. *)
SuccessIsIntended ==
    last # None => (last.status = Active /\ ~last.error =>
                        last.differs \subseteq {"metadata"})

(* A retry that succeeds reports the failure of the attempt before.         *)
ErrorIsFailure ==
    last # None => (last.error => last.status # Active)

(* A rectification that times out ends without an error.                    *)
NoErrorIsActive ==
    last # None => (~last.error => last.status = Active)

(* With metadata, or a resource that is not one of the three, a deployment  *)
(* differs from itself for ever; with no instances a new version is never   *)
(* deployed; a deployment taken out of the GDM runs on.                     *)
AlwaysConverges == <>[](IF intent = None THEN Running = None ELSE Settled)
=============================================================================
