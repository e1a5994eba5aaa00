-------------------------- MODULE SingleDeployment --------------------------
(****************************************************************************)
(* From intent to running deployment: PUT /single-deployment                *)
(* (server/handle_single_deployment.go) writes the GDM and then queues a    *)
(* rectification, while the auto-resolver compares the GDM with what runs   *)
(* and queues what differs (lib/auto_resolver.go, lib/resolver.go).  Both   *)
(* use the queue of the deployment (DeployQueue, which R11nQueue implements)*)
(* and one worker applies what is in it (lib/rectification.go).             *)
(*                                                                          *)
(* The GDM is the deployment's version with the revision that its etag      *)
(* names.  A write of an unchanged GDM makes no revision.                   *)
(****************************************************************************)
EXTENDS Integers, Sequences

CONSTANTS
    Clients,       \* requests in flight at the server
    Versions,      \* deploy specs, numbers from 1
    Invalid,       \* the ones that Validate finds flaws in
    QueueCap,      \* R11nQueueCap
    MaxPuts,       \* bound: number of PUTs
    MaxFailures    \* bound: number of failures of the scheduler

ASSUME VersionsAssumption == Versions \subseteq Nat \ {0} /\ Invalid \subseteq Versions
ASSUME QueueCapAssumption == QueueCap \in Nat \ {0}
ASSUME BoundsAssumption == MaxPuts \in Nat /\ MaxFailures \in Nat

VARIABLES
    gdm,           \* the GDM: revision and version
    waiting,       \* the deployment's queue
    working,       \* the version being rectified, or NoVersion
    running,       \* the version the scheduler runs
    at,            \* where each request is
    request,       \* its body and its force parameter
    read,          \* the GDM it read when its handler was made
    reply,         \* its last status code
    resolver,      \* where the auto-resolver is
    plan,          \* the version its resolve intends
    puts,          \* number of PUTs so far
    failures       \* number of failed rectifications so far

requests == <<at, request, read, reply, puts>>
queue == <<waiting, working>>
cycle == <<resolver, plan>>
world == <<running, failures>>
vars == <<gdm, queue, world, requests, cycle>>

NoVersion == 0
First == CHOOSE v \in Versions : v \notin Invalid

Queue == INSTANCE DeployQueue
    WITH Jobs <- Versions, NoJob <- NoVersion, Bound <- QueueCap

TypeOK ==
    /\ gdm \in [revision : 0..MaxPuts, version : Versions]
    /\ waiting \in Seq(Versions) /\ Len(waiting) <= QueueCap
    /\ working \in Versions \cup {NoVersion}
    /\ running \in Versions
    /\ at \in [Clients -> {"idle", "exchange", "written"}]
    /\ request \in [Clients -> [version : Versions, force : BOOLEAN]]
    /\ read \in [Clients -> [revision : 0..MaxPuts, version : Versions]]
    /\ reply \in [Clients -> {0, 200, 201, 400, 409, 500}]
    /\ resolver \in {"idle", "ask", "queue", "wait"}
    /\ plan \in Versions
    /\ puts \in 0..MaxPuts
    /\ failures \in 0..MaxFailures

(* The first version is deployed and nothing is going on.                   *)
Init ==
    /\ gdm = [revision |-> 0, version |-> First]
    /\ Queue!QueueInit
    /\ running = First
    /\ at = [c \in Clients |-> "idle"]
    /\ request = [c \in Clients |-> [version |-> First, force |-> FALSE]]
    /\ read = [c \in Clients |-> gdm]
    /\ reply = [c \in Clients |-> 0]
    /\ resolver = "idle"
    /\ plan = First
    /\ puts = 0
    /\ failures = 0

----------------------------------------------------------------------------
(* PUT /single-deployment.                                                  *)

Reply(c, code) ==
    /\ at' = [at EXCEPT ![c] = "idle"]
    /\ reply' = [reply EXCEPT ![c] = code]
    /\ UNCHANGED <<request, read, puts>>

(* The handler is made: the GDM is read.  Requests that name no deployment  *)
(* or have no instances are answered without more ado and left out.         *)
Put(c) ==
    /\ at[c] = "idle"
    /\ puts < MaxPuts
    /\ \E v \in Versions, f \in BOOLEAN :
          request' = [request EXCEPT ![c] = [version |-> v, force |-> f]]
    /\ read' = [read EXCEPT ![c] = gdm]
    /\ at' = [at EXCEPT ![c] = "exchange"]
    /\ puts' = puts + 1
    /\ UNCHANGED <<gdm, queue, world, reply, cycle>>

Different(c) == request[c].version # read[c].version

PutUnchanged(c) ==
    /\ at[c] = "exchange"
    /\ ~Different(c)
    /\ ~request[c].force
    /\ Reply(c, 200)
    /\ UNCHANGED <<gdm, queue, world, cycle>>

(* WriteState: refused when the state is not the one that was read.         *)
WriteState(c) ==
    /\ read[c].revision = gdm.revision
    /\ gdm' = IF Different(c)
              THEN [revision |-> gdm.revision + 1, version |-> request[c].version]
              ELSE gdm

PutWrite(c) ==
    /\ at[c] = "exchange"
    /\ Different(c) \/ request[c].force
    /\ WriteState(c)
    /\ at' = [at EXCEPT ![c] = "written"]
    /\ UNCHANGED <<queue, world, request, read, reply, puts, cycle>>

(* It is refused, or fails for a reason of its own.                         *)
PutWriteFails(c) ==
    /\ at[c] = "exchange"
    /\ Different(c) \/ request[c].force
    /\ Reply(c, 500)
    /\ UNCHANGED <<gdm, queue, world, cycle>>

(* The deployment is validated after it has been written.                   *)
PutInvalid(c) ==
    /\ at[c] = "written"
    /\ request[c].version \in Invalid
    /\ Reply(c, 400)
    /\ UNCHANGED <<gdm, queue, world, cycle>>

(* The queue set's lock makes the look-up of the deployment's queue, its    *)
(* creation if there is none, and the push one step; a queue that is not    *)
(* there yet is empty.                                                      *)
Push(v) == Queue!Enqueue(v)
PushIfEmpty(v) == Queue!EnqueueIfEmpty(v)

PutPush(c) ==
    /\ at[c] = "written"
    /\ request[c].version \notin Invalid
    /\ Push(request[c].version)
    /\ Reply(c, 201)
    /\ UNCHANGED <<gdm, world, cycle>>

PutQueueFull(c) ==
    /\ at[c] = "written"
    /\ request[c].version \notin Invalid
    /\ ~Queue!HasRoom
    /\ Reply(c, 409)
    /\ UNCHANGED <<gdm, queue, world, cycle>>

PutStep(c) ==
    \/ PutUnchanged(c)
    \/ PutWrite(c)
    \/ PutWriteFails(c)
    \/ PutInvalid(c)
    \/ PutPush(c)
    \/ PutQueueFull(c)

----------------------------------------------------------------------------
(* The worker of the queue.                                                 *)

TakeNext ==
    /\ Queue!Take
    /\ UNCHANGED <<gdm, world, requests, cycle>>

(* A resolve that waits for its rectification goes on when that is done.    *)
Released == IF resolver = "wait" THEN "idle" ELSE resolver

RectifyMutant ==                     \* mutant: the version is not applied
    /\ Queue!Complete
    /\ resolver' = Released
    /\ UNCHANGED <<gdm, requests, plan, running, failures>>
Rectify ==
    /\ Queue!Complete
    /\ running' = working
    /\ resolver' = Released
    /\ UNCHANGED <<gdm, requests, plan, failures>>

(* The scheduler refuses it, or has not finished in time: then it may run   *)
(* all the same.                                                            *)
RectifyFails ==
    /\ failures < MaxFailures
    /\ Queue!Complete
    /\ failures' = failures + 1
    /\ running' \in {running, working}
    /\ resolver' = Released
    /\ UNCHANGED <<gdm, requests, plan>>

----------------------------------------------------------------------------
(* The auto-resolver: reads the GDM, then asks what is running, then queues *)
(* a difference if nothing is queued or worked on, and waits for it.        *)

ResolveRead ==
    /\ resolver = "idle"
    /\ plan' = gdm.version
    /\ resolver' = "ask"
    /\ UNCHANGED <<gdm, queue, world, requests>>

(* The diff against what is running at this moment.                         *)
ResolveDiff ==
    /\ resolver = "ask"
    /\ resolver' = IF plan = running THEN "idle" ELSE "queue"
    /\ UNCHANGED <<gdm, queue, world, requests, plan>>

ResolveQueue ==
    /\ resolver = "queue"
    /\ \/ PushIfEmpty(plan) /\ resolver' = "wait"
       \/ ~Queue!Empty /\ UNCHANGED queue /\ resolver' = "idle"
    /\ UNCHANGED <<gdm, world, requests, plan>>

ResolverStep == ResolveRead \/ ResolveDiff \/ ResolveQueue

----------------------------------------------------------------------------
Next ==
    \/ \E c \in Clients : Put(c) \/ PutStep(c)
    \/ TakeNext
    \/ Rectify
    \/ RectifyFails
    \/ ResolverStep

Spec == Init /\ [][Next]_vars

(* Handlers run, the worker works (R11nQueue), the cycle goes on            *)
(* (AutoResolver).  Nobody has to send requests.                            *)
Fairness ==
    /\ \A c \in Clients : WF_vars(PutStep(c))
    /\ WF_vars(TakeNext)
    /\ WF_vars(Rectify \/ RectifyFails)
    /\ WF_vars(ResolverStep)

FairSpec == Spec /\ Fairness

----------------------------------------------------------------------------
(* Properties.                                                              *)

(* Once requests and failures stop, what runs becomes and stays what the    *)
(* GDM says: a push that overtook another, a full queue, an item dropped by *)
(* PushIfEmpty and a failed rectification are all made good.                *)
Converges == <>[](running = gdm.version)

----------------------------------------------------------------------------
(* Said of the code by its comments or its use, and not so: see the README. *)

(* "Exchange triggers a deployment action when receiving a Manifest         *)
(* containing a deployment matching DeploymentID that differs from the      *)
(* current actual deployment set": when it is answered that there is        *)
(* nothing to do, that version is running or on its way.                    *)
InHand(v) ==
    \/ running = v
    \/ working = v
    \/ \E k \in DOMAIN waiting : waiting[k] = v
UnchangedIsInHand ==
    [][\A c \in Clients : PutUnchanged(c) => InHand(request[c].version)]_vars
=============================================================================
