# Sous: a verification project

Sous deploys software to Mesos through Singularity. A server keeps the *global
deploy manifest* (GDM, what should run) and drives what runs (the *actual
deployment set*) towards it, both in an endless resolve cycle and at the request
of clients. This directory holds TLA+ models of Sous from the command line to
Singularity, the TLC configurations that check them, and TLAPS proofs: every safety
property that a passing run checks is also a theorem, for all values of the constants
that its named assumptions allow, and so is the safety of both refinements.

Every definition is translated from the source; `PROJECT.json` maps each to its
lines, lists the runs, the mutants that each property must detect, the findings
and the hazards. Paths below are relative to `src/`.

## The system

| Component | Source | State it keeps | Operations |
|---|---|---|---|
| Rectification queue | `lib/r11n_queue.go` | channel of waiting items, indexes of live and recent items, positions, a worker | `Push`, `PushIfEmpty`, `Wait`, `ByID`, `Snapshot`, worker loop |
| Queue set | `lib/r11n_queue_set.go` | a queue per deployment | the same by deployment |
| Queue handlers | `server/handle_r11n.go`, `handle_deployqueue.go` | none | `GET /deploy-queue-item`, `GET /deploy-queue` |
| Single deployment handler | `server/handle_single_deployment.go` | none (GDM and queue are others') | `PUT /single-deployment` |
| Rectification | `lib/rectification.go` | resolution of one difference | `Begin`, `awaitDone`, `Wait` |
| Singularity deployer, deployment builder | `ext/singularity/deployer.go`, `recti-agent.go`, `deployment_builder.go`, `requeststate.go` | Singularity's request and deploys (external) | `Rectify`, `Status`, reading a deployment back |
| Auto-resolver | `lib/auto_resolver.go` | current recorder, stable and live status | `Kickoff` and its goroutines, `Statuses` |
| Resolver and recorder | `lib/resolver.go`, `lib/resolvestatus.go` | log of resolutions, phase, error | `Begin`, `queueDiffs`, `Wait`, `CurrentStatus` |
| Diff pipeline | `lib/deployment_diff.go`, `lib/pipeline.go`, `lib/deployable_chans.go` | channels of pairs and of errors | differ, `ResolveNames`, `Log` |
| Actual deployments | `ext/singularity/actual_deployment_set.go` | channels, wait groups, retry counts | `RunningDeployments` |
| Git state manager | `ext/storage/git_state_manager.go`, `disk_state_manager.go` | clone, shared remote | `ReadState`, `WriteState` |
| State manager compositions | `ext/storage/duplexstatemanager.go`, `lib/dispatchstatemanager.go`, `lib/cluster_manager.go`, `lib/http_state_manager.go` | updaters of siblings | reads and writes delegated |
| PostgreSQL state manager | `ext/storage/postgresstatemanager*.go`, `util/sqlgen` | tables | `ReadState`, `WriteState`, clusters |
| Manifests and deployments | `lib/map_state_to_deployments.go`, `lib/deployment.go`, `deploy_config.go`, `startup.go`, ... | none | merging and unmerging defaults, comparing, validating, repairing |
| GDM, manifest and state handlers; REST framework | `server/handle_gdm.go`, `handle_manifest.go`, `handle_state_deployments.go`, `util/restful` | what a client has read, with its Etag | GET, PUT, DELETE of the GDM or a manifest |
| Status poller | `lib/status_poller.go`, `lib/subpoller.go` | last result and cycle per cluster | `Wait`, a poll per cluster and tick |
| Name cache, registry client | `ext/docker/image_mapping.go`, `util/docker_registry/client.go` | a database of image names | `GetArtifact`, `ImageLabels`, `Insert`, `Warmup`, `GroomDatabase` |
| Build | `lib/build_config.go`, `lib/build_manager.go`, `ext/docker/*buildpack*.go`, `builder.go`, `ext/git` | images, containers, names | `sous build` |
| Commands | `cli/actions/deploy.go`, `update.go`, `cli/sous_init.go`, `sous_metadata_set.go`, `config/deploy_filter.go`, `graph/targetmanifest.go` | none | `deploy`, `update`, `init`, `metadata set`, `manifest get/set/edit` |
| Configuration | `util/configloader`, `config/config.go`, `graph/local_config.go` | a file | loading, first use, `sous config` |
| Names and filters | `lib/source_id.go`, `manifest_id.go`, `deploymentid.go`, `resolvefilter.go` | none | formatting, parsing, selecting |
| Concurrent maps, parallel helpers | `util/blueprints/cmap`, `lib/*_generated.go`, `util/firsterr`, `ext/otpl` | a map and its lock; a channel | map methods; `Parallel`, `ParseManifests` |
| Logging, dependency graph | `util/logging`, `graph` | | wiring and output |

How they interact. A client `PUT`s a deployment: the handler reads the GDM, writes
it back through a state manager (git, shared by all servers, with a database beside
it) and pushes a rectification to the deployment's queue. The queue's worker begins
the rectification against Singularity and waits for it. Meanwhile the auto-resolver
goes round: it reads the GDM, asks Singularity what runs, diffs the two, resolves
image names in a pipeline, and pushes what differs to queues that are empty; the
recorder collects the results for `GET /status`. The client polls its queue item,
or the status of every cluster. Builds push images and tell the name cache; other
commands change manifests by reading and putting back the GDM or one manifest.

What is hard. The queue's worker receives outside its mutex; handlers read an
item's position through a pointer after unlock. Every server writes the same git
remote, with its own clone, and retries rejected pushes; reads write to the
database beside it. The resolve cycle passes one trigger through four goroutines
and a reader of statuses looks in from the side. The recorder closes a channel
others send on. `RunningDeployments` counts requests in wait groups over sleeping
retries. A rectification decides by what was read before it was queued. The status
poller draws a verdict from statuses of different cycles. A conditional PUT reads
the store up to three times. The name cache has one lock for one of its statements.
`PROJECT.json` lists these hazards at their lines with the properties for them.

## Modules

| Module | Kind | Models |
|---|---|---|
| `DeployQueue` | abstract | a bounded FIFO queue with one worker |
| `R11nQueue` | detailed | the queue; shown to implement `DeployQueue` |
| `R11nQueueProofs` | proofs | about `R11nQueue` and `QueueHandlers` |
| `QueueHandlers` | composition | HTTP handlers over `R11nQueue` |
| `SingleDeployment` | composition | PUT handler, auto-resolver and worker over `DeployQueue` |
| `SingularityDeployer` | component | one deployment from intent to Singularity and back |
| `SingularityDeployerProofs` | proofs | about `SingularityDeployer`, `Deployments` |
| `PairStream` | abstract | what the end of the pipeline promises |
| `Pipeline` | detailed | differ and stages; shown to implement `PairStream` |
| `Resolver` | composition | a resolve and its recorder over `PairStream` |
| `AutoResolver` | component | the resolve cycle and `Statuses` |
| `ResolutionProofs` | proofs | about `AutoResolver`, `Resolver`, `Pipeline` and its refinement |
| `RunningDeployments` | component | the collection of what runs |
| `RunningDeploymentsProofs` | proofs | about `RunningDeployments` |
| `GitStateManager` | component | clones against a remote |
| `GitStateManagerProofs` | proofs | about `GitStateManager` |
| `Stores` | composition | git with a database per server, and siblings |
| `Tables` | component | the rows of that database |
| `StatusPoller` | component | the client's pollers against servers' cycles |
| `StatusPollerProofs` | proofs | about `StatusPoller` |
| `GDMService` | component | conditional requests against one store |
| `GDMServiceProofs` | proofs | about `GDMService`, `Rest` and `Manifests`, within `HTTPService` |
| `Deployments` | operators | manifests, deployments, defaults, differences, flaws |
| `Manifests` | component | an update through the GDM, with its defaults |
| `Rest` | component | a resource and clients of other versions |
| `NameCache` | component | image names in a database and in a registry |
| `Build` | component | builds on one daemon and one registry |
| `Names` | operators | names written and read back |
| `Command` | component | flags to request to report |
| `Config` | component | the configuration file and its commands |
| `CMap`, `FanIn` | components | generated maps; goroutines that meet in a channel |
| `ToolsProofs` | proofs | about what `Tools` chooses from |
| `Concurrency`, `Resolution`, `HTTPService`, `Tools` | choosers | see below |

A *chooser* instantiates modules that share nothing and has one of them, named by
its variable `part` and chosen at first, at work while the others stay in an initial
state: their state spaces add up and do not multiply, and one run asks the
questions of all. `Resolution` has the three layers of a resolve, `HTTPService`
three depths of a request, `Tools` what lies beside the server, `Concurrency`
(within `Tools`) the containers. A property of a chooser is the part's own, under
its name. `MC` modules add the functions that TLC needs as values of constants. The
`TypeOK` of a component states the shape of its state for the reader and for
proofs; that of the queue is checked within `IndInv`.

### R11nQueue, DeployQueue

`queue` is the channel's buffer, `refs`, `allRefs` and `ring`/`slot` are the
indexes, `pos` the positions, `lock` the mutex. A push is three steps (decide,
file, send) because the worker's receive can fall between them; sections that
touch no channel are one step. The worker goes receive, popped (the window without
the mutex), handle, handled. Items are numbered in filing order in place of random
IDs. Abstractly the queue is the sequence of waiting jobs and the one in hand: a
job waits once it is filed, is taken on `Receive` and completed on `Finish`.

### QueueHandlers

Extends `R11nQueue` with request goroutines. `GETR11nHandler` and
`GETDeployQueueHandler` take a step per access to the queue; an item's `Pos` is read
twice outside the mutex, as in the code.

### SingleDeployment, SingularityDeployer

Both have one deployment. In `SingleDeployment`, requests read, write
(compare-and-swap on the revision the etag names), validate and push as separate
steps, interleaved with resolves (read, compare, `PushIfEmpty`) and with the worker,
which applies a rectification, fails before or after it took effect, or times out.
`SingularityDeployer` opens the worker up: a pair carries what was intended and what
was read of Singularity when it was made; `Rectify` decides by these what to send
(request, deploy, both or nothing), each call may be refused or lose its answer,
Singularity takes no deploy while one is pending, and `awaitDone` polls what is
built from the request, the deploy and its labels until it is final or 20 minutes
are over. The fields of a deployment are those of `Deployments`.

### AutoResolver, Pipeline, PairStream, Resolver

The unbuffered channels of the cycle make every hand-over a rendezvous, one step of
both goroutines. `loopTilDone` is the restart of a goroutine that returned. A
resolve is an interval between `Begin` and the end of `Wait`. Readers of `Statuses`
take the unlocked look at `currentRecorder` and the locked use of it as two steps.

Channels carry pairs and resolutions between a worker and a merger per stage.
`PairStream` says that each pair leaves by exactly one of the two channels and that
both are closed; `Resolver` uses only that. In `Resolver` the main goroutine goes
through the phases of `Begin`, waiters and a forwarder send to `Log`, the recorder's
drain moves entries to the status, and the caller takes its snapshot after `Wait`.

### RunningDeployments

A lister per Singularity, a dispatcher, an assembler per request behind a pool, a
sleeping goroutine per retry, a closer that waits for three wait groups, and the
collecting loop. How a deployment is built is a choice between success and the
three kinds of error the loop tells apart.

### GitStateManager, Stores, Tables

A revision is the sequence of commits that leads to it, so prefixes are ancestors;
a state is the content of its files. The manager's mutex makes local git work one
step; each exchange with the remote is its own. `Flaky` lets exchanges fail, or
succeed with the reply lost; `DiskFaults` lets writing, adding, committing and
tagging fail.

`Stores` takes git as one register with revisions and has what surrounds it: a
thread is a stack of calls that goes through the duplex manager to the dispatcher,
from there to the own database, in a transaction, and to the sibling's server, where
the calls begin anew. `Tables` has the rows within a transaction: which are added for
a state, by which statements, and what is read back.

### GDMService, Deployments, Manifests, Rest

`GDMService`: a client's command is a GET, the router's precondition, which reads
the store, the handler's factory, which reads it again, and the exchange, which
writes it by comparing revisions. Others write in between, at this server or at
another, whose commits come with a pull or get in before a push. Reads fail; a write
fails before it has had an effect or after (its tag fails, its attempts run out, the
answer to its push is lost) and can be acknowledged although its cherry-pick was
dropped. Content is abstracted to a value per manifest. `Manifests` has the content, with the same
exchange in fewer steps: specs are merged with the defaults of their clusters on the
way out and unmerged on the way in, by the operators of `Deployments`. `Rest` has
neither, but documents by the paths in them, and clients whose structs have other
fields than the server's; what `applyChanges` decides by going down two maps side by
side, `Decider` finds for each path.

### StatusPoller

A server is the status in progress and the last complete one, both reduced to what
concerns the client's deployment, and what it has read of the GDM for the resolve it
will begin next: that can be from before the change the client waits for. A poll and the delivery of its result are one
step; the module says why nothing is lost by that. `ComputeStatus` and
`ComputeState` are the code's decision tables.

### NameCache, Build, Command, Config, Names, CMap, FanIn

`NameCache`: every SQL statement and every request to the registry is a step of some
caller and may fail; of an advisory's insert nobody is told. Tags move, digests do not. `Build`: from a working copy, flags and a
Dockerfile to images and names, a docker command a step. Names are made as the code
makes them, from spellings of repositories, offsets and kinds: several sources can
have one. `Command`: from flags and a
directory to the deployment that is meant, the request that is made of it and the
verdict on its queue item, which fails, is evicted or is overtaken by others'.
`Config`: fields of each kind with defaults, file and environment; commands read and
write the file side by side, each write emptying the file first and possibly failing. `Names`: texts are sequences of tokens; `MCTools` has as
assumptions that TLC evaluates that what is written is read back, that GitHub's
several spellings agree and that distinct deployments get distinct requests. `CMap`
and `FanIn` are the containers' critical sections and channel operations.

## Runs

Passing runs (`PROJECT.json` names the configuration of each):

| Run | Checks | Bounds |
|---|---|---|
| `queue` | the inductive invariant; a push never blocks with the mutex held; no unfinished item is evicted; `PushIfEmpty` files only alone; positions are off by one at most; a reply after `Wait` is final; the queue implements `DeployQueue`; every item filed is finished and every `Wait` returns | 2 clients, 1 request, channel of 2, ring of 3, 4 items: the channel fills, the ring wraps and evicts under the handler |
| `single_deployment` | what runs converges to the GDM | 2 requests in flight, 3 PUTs, queue of 1, an invalid version, one failure of the scheduler |
| `deployer` | a rectification that succeeds, of a pair whose prior was what ran, leaves what was intended; once the intent stays it runs and is left alone, if Singularity can give it back as it was written | 3 deployments that differ in the request, the deploy or both, 2 changes of intent, queue of 2, 1 fault: a stale pair waits behind a fresh one |
| `resolution` | exactly one trigger is about, the stable status is the previous resolve's, cycles recur; no send on the closed `Log`, every result ends in one entry, a resolve ends; `PairStream` is implemented | 2 readers, resolves numbered modulo 5; every combination of versions of 2 deployments, `Log` of 1 so that it fills; 3 pairs, 2 stages that can both fail on 2 of them, buffers of one and of none |
| `running` | the wait group counts the outstanding requests; a list without error is complete and leaves nothing behind, and the call returns a list or an error, if the lists of requests are readable | 3 requests at 2 Singularities, channels of 1, a pool of 2, retry limit 1 |
| `git_contention` | nobody's update is lost, writes return | 2 servers, 3 callers, 3 commits, 2 files, 5 attempts as in the code |
| `git_faults` | what is acknowledged is at the remote, unless a conflict was dropped, even if exchanges fail or lose their answer and disk writes, adds, commits and tags fail | 2 servers, 2 commits, 2 attempts |
| `stores` | the database of a server catches up with git | 2 servers, one the other's sibling, 1 edit, 1 failure anywhere, calls nested 3 deep |
| `status_poller` | success is not made up; Failed needs a resolve begun after the first poll (or a failed poll) and a lasting failure or a last complete resolve from before the change; a verdict is reached once the clusters have settled or one stays down | 2 clusters, one of which can go down, any number of cycles, the first of them possibly of what was read before the change; one error is put up with in place of ten, so that both sides of the limit occur |
| `http_service` | a PUT /manifest replaces what its client had seen, unless a commit falls between the router's look and the handler's (`raced`), and an update that undoes another's change had none of its own to make; an update changes the version and nothing that defaults gave; a client of another version changes what it knows and keeps the rest | 2 users, 2 manifests, 2 commands, 2 failures or commits of other servers; 2 manifests in 2 clusters, 2 edits meanwhile; structs older and newer than the server's, 5 requests |
| `tools` | no image is found without its advisories, but for those whose insert failed, and one that is in the registry is found; under a recorded name is an image of that version, its own or a later one; what is written to the tables is read; what is changed is what was named; what was set in the configuration is what the next command loads, if writes neither fail nor overlap; nil means that all ended; adding replaces nothing | 2 callers, 3 images, 3 calls, 1 fault or restart; 2 builds of every kind of working copy, of 2 repositories that share their name; 3 writes; some 600 combinations of flags; 3 commands or edits on one file, 2 at a time, 1 failing write; 2 callers on 2 maps, 4 goroutines |

Two actors of a kind are the least that shows a race between them, and the third
item, pair, image or write the least that shows one overtaking the others; sizes of
channels are small so that every "full" and "empty" occurs. Deadlock is checked but in
`status_poller`, which ends with its verdict, and in `http_service` and `tools`, where
clients have a bounded number of commands. `stores` calls its conclusion off where a
row cannot be removed or the table is at its bound (`InStep`).

One run ends in a violation, a finding of `PROJECT.json`, which quotes the line that
says otherwise: `git_conflict` (`AckedIsDurable`). The cherry-pick of a write
conflicts and is aborted; the abort's success lets the loop go on, the push of
nothing succeeds and the lost write is acknowledged.

## Departures

Other statements that comments, tests or callers make and the code does not keep.
They are definitions at the end of the modules. To see the behaviour, name one as
the only `INVARIANT` (or `PROPERTY`, if it is temporal) of the module's
configuration; for a part of a chooser, define it in the `MC` module first, as in
`D == GDM!DeleteDeletes`.

| Module, definition | Said | What happens |
|---|---|---|
| `R11nQueue!SnapshotOrdered` | `lib/r11n_queue.go:84`: a snapshot is "ordered by their queue position" | a push between the worker's receive and its update gives two items one position |
| `QueueHandlers!QueuedHasNilResolution` | `dto/r11nresponse.go:8`: nil means "nothing to see here" | the same race attaches a resolution to an item that still waits |
| `QueueHandlers!ListNeverPanics` | `server/handle_deployqueue.go:41`: "Exchange returns a deployQueueResponse" | a slice sized by the channel is filled from a longer snapshot |
| `AutoResolver!StatusesReturns` | `lib/auto_resolver.go:109`: "Statuses returns the current status" | the recorder a reader saw is gone when it has the lock |
| `Resolver!StableIsComplete` | `lib/auto_resolver.go:110`: "the unchanging, complete status of the previous resolve" | `Wait` returns before the log has been drained |
| `Resolver!NeverPanics` | `lib/resolvestatus.go:38`: "err is the final error returned from a phase that ends the resolution" | on an error `Wait` is called on a pipeline that was never made |
| `Resolver!SameIsReported` | `lib/subpoller.go:222`: an equal deployment "will be described as unchanged" | it is not reported |
| `RunningDeployments!ListIsComplete` | `ext/singularity/actual_deployment_set.go`: the collection "returns a list of actual deployments" | a malformed list of requests counts off a request that was never counted; a partial list passes for a full one |
| `RunningDeployments!NeverPanics` | `ext/singularity/actual_deployment_set.go:41`: it "returns a list" | when that takes the count below zero, the process ends |
| `GitStateManager!EtagNamesContent`, with `DiskFaults` | `ext/storage/git_state_manager.go:18`: "transactional writes" | a failed disk write leaves files that are read back under the old etag |
| `SingleDeployment!UnchangedIsInHand` | `server/handle_single_deployment.go:131`: "triggers a deployment action when receiving" a difference | a request told to try again is answered 200 on the retry although nothing is queued |
| `SingularityDeployer!SuccessIsIntended`, `ErrorIsFailure`, `NoErrorIsActive` | a result without an error is a deployment that is as intended | a plan that is older than a PUT takes the deployment back in part; a retry reports the error before; a timeout has no error and an empty state |
| `SingularityDeployer!AlwaysConverges` | what runs converges | metadata is compared and never sent, so it differs for ever; with no instances a new version is not deployed; what leaves the GDM runs on |
| `StatusPoller!CompleteMeansAll` | `lib/status_poller.go:160`: "once they've all crossed the TERMINAL threshold" | Complete while a cluster is still deploying |
| `StatusPoller!FailedMeansFailed` | `lib/resolvestate.go:44`: "a particular cluster is in a failed state"; `:19`: "on the next auto-resolve cycle we'll move past this state" | a cycle that has just begun is judged by the one before, and may itself be of a GDM that was read before the change; one HTTP error passes for a new cycle |
| `Stores!EmptyIsFilled`, `RemovedIsRemoved` | the duplex manager "ensures that writes occur to the secondary one" | an empty database knows no clusters and so gets no rows; what is gone from git stays |
| `Stores!AllCatchUp`, `ReadsOnlyRead`, `NotTooDeep` | siblings agree; a read only reads | an updater is good for one PUT; a read sends what may be old to the sibling; mutual siblings read each other without end (`BothSiblings`) |
| `Tables!WritesSucceed` | a deployment can be removed | its row says `decommisioned`, which `database/changelog.xml:4` does not have |
| `Tables!KindsAreApart`, `OwnersLeave`, `SameAddsNothing` | what is read is what was written | a changed kind leaves two rows; owners are never removed; a volume that is there twice is added on each write |
| `GDMService!UpdateReplacesSeen`, `SiblingChangesOwn` | collisions are noticed and retried | the Etag of every GDM is the same (`dto/gdmwrapper.go:44`); what others wrote to the same file meanwhile is undone |
| `GDMService!ReplyIsTrue` | `ext/storage/git_state_manager.go:156`: "If the push fails, the state is reset and an error is returned" | an error after the write is at the remote or in the clone (`:199`, `:211-238`, an answer that is lost, the primary failing after the secondary in `duplexstatemanager.go:44`); a success for a commit that was dropped (`:231`) |
| `GDMService!DeleteDeletes` | 204 | the manifest is removed from a copy that is dropped |
| `Manifests!DefaultsAreNotWritten`, `OthersAreKept` | defaults stay defaults | those edited between the client's two requests are written out |
| `Rest!DeleteIsConditional` | `util/restful/client.go:60`: the retrieved state "can be later deleted" | a DELETE has no precondition |
| `NameCache!RowsAlwaysComplete`, `AdvisoriesNeverLost`, `TagAdvisoriesKept` | an image comes with its advisories | not if its row is replaced between two statements, was there under its tag before, or the insert of an advisory failed, whose error is discarded (`ext/docker/image_mapping.go:735`) before the row gets its name (`:743`) |
| `NameCache!LatestIsFound`, `AlwaysFound`, `FoundIsOfSource` | the image of a source ID is found | looking up an old image replaces the row of the new one; a lookup that is disturbed finds nothing; a tag that two source IDs share |
| `Build!RecordedIsOwn`, `RecordedIsOfSource`, `ProductsAreApart` | a recorded name is of what was built | two builds, or two products of one, share a tag; so do sources whose names fall together (`ext/docker/names.go:62-77`: what is stripped, and what is joined by "/" and "-") |
| `Build!BlockedIsNotRegistered` | `lib/build_manager.go:46`: it "does not register otherwise" | what the guard finds is logged, and the image is registered |
| `Build!PathIsBuilt`, `KindIsNotService`, `ContainersRemoved`, `UnversionedIsTold` | `cli/sous_build.go:27`: "it will instead build the project at that path" | below the root of the repository a path is refused as if `-offset` had been given; products share the array of their advisories, and the builder's overwrite the others'; a failed build leaves its container; the advisory goes by the version before the flags |
| `Command!FailedIsFailed`, `ErrorIsNoIntent`, `InitIsConfigured` | a report is true | an item evicted after success is reported failed; a full queue is an error with the GDM written; `init -cluster` makes an empty spec |
| `Config!EnvironmentStaysOut`, `KeysAreApart`, `GetShowsServer`, `SetIsSeen` | the environment overrides the file; a key names a value | `sous config` writes overridden values to the file; `server` is also the key of Graphite's |
| `Config!ValidIsKept` | `graph/local_config.go:180`: what `sous config` saves it has validated | the file is emptied and then written (`:159`): a write that fails, which at the first (`:96`) nobody is told, or that meets another leaves something else |
| `Config!ConfigCanBeRepaired`, `StateHasPlace` | "the 'sous config' command that should still work with invalid configs" | a state location that cannot be made ends it too |
| `CMap!CloneIsCopy` | `cmap.go:141`: "a pairwise copy" | values go under the keys they say they have |
| `FanIn!NoneLeaks`, `EveryConfigIsTaken` | goroutines end; configurations are taken | those with a second error stay in their send; two directories of one cluster and flavour collide |

## Fairness

Weak fairness of the steps of each goroutine: the Go scheduler runs what can run,
and a `select` over ready cases picks one. Beyond that:

- Queue: a client that waits for the mutex gets it (Go's mutex hands over to a
  waiter that has starved for 1 ms); the worker's handler returns, since a
  rectification gives up after 20 minutes. No client is obliged to push.
- Git: a git command ends. A push need not succeed; the loop is bounded.
- Auto-resolver: timers fire and a resolve ends (`ResolveEnds`).
- Single deployment and deployer: requests are served to their end, resolves recur
  (`CyclesRecur`), the worker works, a pending deploy ends; failures are bounded by
  `MaxFailures` and `MaxFaults`.
- Stores: a call ends, with or without an error, and resolves recur. Nobody has to edit.
- Running deployments: a request to Singularity ends with some answer, sleepers
  wake.
- Status poller: tickers fire, requests end, cycles recur and end. Nothing obliges
  a server to log a resolution or to come back; `PollEnds` has the settling of the
  clusters as its hypothesis.

## Proofs

Every theorem holds for all values of the constants that the named assumptions of
its module allow; TLC evaluates these on the runs' values. A proof module has the
same layout throughout: the inductive invariant as a conjunction of named parts,
lemmas about the operators and the channels, one step or lemma per action, and the
theorems. TLC checked the properties, and the invariants that it can evaluate on an
instance, before they were proved; where a proof failed, it gave the counterexample.

| Module | Theorems | For every |
|---|---|---|
| `R11nQueueProofs` | `TypeCorrect`, `Invariance`, `PushNeverBlocks`, `LiveFindable`, `RefsExact`, `IfEmptyAlone`, `OrderedAndResolved`, `PositionsBounded`, `QueueImplemented`; `HandlersOnlyRead`, `WaitedIsFinal` | clients, requests, `Cap >= 1`, `MaxRefs > Cap` (the code has 10 and 100), number of items |
| `ResolutionProofs` | `OneCycleAlways`, `StableIsPreviousAlways`, `NoSendOnClosedAlways`, `NothingLostAlways`; `PipeInvariance`, `KeepsPromiseSafety` | readers, deployments, capacity of `Log`, outcome of the phases; stages, buffer, choice of what is refused |
| `RunningDeploymentsProofs` | `TypeCorrect`, `AllCollectedAlways` | requests, Singularities, capacities, pool, retry limit |
| `StatusPollerProofs` | `CompleteIsRealAlways`, `FailedIsGroundedAlways` | clusters, outcomes, limit of errors |
| `GDMServiceProofs` | `ReplacesSeenAlways`; `PutbackIsExactAlways`; `OnlyTheVersionAlways` | manifests, values, clients, commits between, failing reads and writes; structs, documents; contents of manifests and defaults |
| `GitStateManagerProofs` | `AckedUnlessConflictAlways`, `NoLostUpdateAlways`, `EtagNamesContentAlways` | servers, callers, files, values, attempts |
| `SingularityDeployerProofs` | `RectifiedIsIntendedAlways` | deployments that are `Sendable`, capacity of the queue, changes, faults |
| `ToolsProofs` | `NilMeansAllAlways`, `AddReplacesNothingAlways`, `NamedIsChangedAlways`, `SetIsKeptAlways`, `RecordedIsPushedAlways`, `AdvisoriesKeptAlways`, `FoundIfThereAlways`, `WrittenIsReadAlways` | directories; keys and goroutines; flags, directories, clusters; environments, arguments; Dockerfiles, builders, spellings; images, tags, callers; contents of the database |

### The queue and its handlers

None of the queue's properties is inductive by itself. `SendNeverBlocks` (a push that
blocked with the mutex held would stop the worker and with it the queue) needs that
the length checked under the mutex can only have shrunk, hence that only the holder
sends; `LiveIsFindable` (a client that waits never gets "not found") needs where in
the ring each recent item lies. `IndInv` is the conjunction of `TypeOK`, `LockInv`
(who holds the mutex and in which step), `ChannelInv` (the buffer is an interval of
consecutive items that ends at the newest item sent), `WorkerInv` (the item in hand
precedes the buffer), `RingInv` (slot of each of the last `MaxRefs` items) and
`PosInv` (each queued item's position against its place). The refinement follows from
`IndInv` and `ConcatEnds`: `AbstractInit`, then `AbstractStep`, in which every action
is a push, a take, a completion or a stutter of the abstract queue. What the run
`queue` does not name follows from `IndInv` by lemmas.

`HandlersOnlyRead` shows that every behaviour of queue and handlers is one of the
queue, so all of this holds beside them. `WaitedIsFinal` adds to `IndInv` what a
request carries at each step, and that a closed `done` is never opened again.

### Resolution and the pipeline

`CycleInv` is `TypeOK`, `OneTrigger` (the trigger's four places, pairwise exclusive,
one of them taken while `done` is open), `RecorderIsBegun` (the recorder the loop
uses is the newest resolve's) and `StableIsPrevious`. Without the second, a loop
that starts again could announce beside another; without the third, the status that
is stored as stable could be of any resolve.

`ResolveInv` is `TypeOK`, `PhasesInOrder` (what the main goroutine has waited for in
each phase, so that at the close of `Log` no sender is left), `OutOnce` and `OnePlace`:
an entry is with its goroutine, in `Log`, in the drain's hand or recorded, and in one
of them. The theorems are about `Resolution`: a step of another layer leaves the
variables of this one alone (`LayerSteps`).

`KeepsPromiseSafety` is the refinement of `PairStream` by any number of stages. That a
pair leaves once needs that it is in one place at a time and there once (`OnePlace`,
`OnceEach`), that it is in some place at all (`Somewhere`) and that only what a stage
may refuse travels with the errors (`OnlyRefused`); that nothing leaves after the end
needs that a channel is closed only when all before it has run dry (`PairsInOrder`,
`ErrsInOrder`). `Moved` and `Stayed` reduce a step to the two places between which it
moves a pair; each action is then judged by these places.

### Collection and poller

`AllCollected` speaks of the end; `RunningInv` of the way there: `OnePlace` for
requests, `Counts` (the wait group against the set of outstanding requests, equal if
every list could be read), `Kept` (a request on a list that was read is unsent,
outstanding, collected or ignored) and `Closing` (what each step of the closer has
waited for). Arithmetic on `Cardinality` is confined to lemmas on one request that
joins or leaves the outstanding ones.

`PollerInv` has `CompleteSeen`, which carries "a server has logged it" through the
results of the pollers, and `LastCycleSeen`, which says what the last resolve ID that
a poller has heard tells about the cycles since: hence a cluster in its last cycle has
begun a resolve after its first poll, or a poll of it has failed. `ComputeStatus` is treated by lemmas
on the greatest and the least state of a set (`MaxOfStates`, `MinOfStates`).

### Conditional requests and git

In `ServiceInv`, `RequestInv` says what a request has seen by how far it is; its
conjuncts with `= rev` are the argument: while no commit has followed the read, what
was read is what is there. The theorems are about `HTTPService`, whose other parts
leave these variables alone (`PartSteps`).

`AckInv` (types, `Locked`, `Pushed`) needs nothing of content: a commit that is about to
be pushed is in its clone's history or was given up, and the mutex keeps others away
from the clone. It holds whatever fails. `LostInv` is about content, `TreeIsHead` above
all, and that is false once a disk write fails: `NoLostUpdateAlways` and
`EtagNamesContentAlways` have `DiskFaults = FALSE` as hypothesis, as in the run
`git_contention` (the departures have the other case). They go beyond that run, in
which no exchange fails: here exchanges may fail or lose their answers. `Histories`
states `NoLostUpdate` of every history that could become the remote's: that of each
clone and that to which an attempt falls back.

### What a client puts back

`PutbackIsExact` compares a document before and after a PUT that a client of any
version of the struct has computed from the one it read. `ResourceInv` says that what
a client holds (body, canary, value) comes from one reading. The rest is about
`applyChanges`: whether the new document has a path is decided at the least prefix at
which the two values of the struct differ, or nowhere (`DecidesAt`; that there is a
least is `NatLessThanWellFounded`), so that a path of which the client does not know
stays and one that it knows becomes what it wants. `SchemaAssumption` says that the
parents of a field are objects in every version, and that the server's struct has a
field that is written even when it is empty.

`OnlyTheVersion` needs that unmerging undoes merging. `ContentInv` has the types
(`IsState`, `IsDefs`: maps whose keys are in order, specs with every field, a cluster
for every spec) and, unless the defaults were edited between the two requests of a
client, what it holds: `ReadOf` (the manifests, with what the clusters add), `SentOf`
(their deployments, one with another version). From there `ChangedTo` (the manifests
that were read, one with another version) follows by three lemmas: `PutbackIs` (what
is taken out of a spec is what its cluster put in), that repairing changes nothing
that has no flaw, and `NewIsFlawed` (a deployment that was not there has no resources,
and is refused). `ContentAssumption` has the types for what the constants give.

### Rectification

`DeployerInv` is `DeployerTypes`, `Progress` (a rectification that began from what ran
has done, at each step, what it has passed or found unnecessary) and the property.
Under it lie lemmas on `Deployments`: what is sent is read back equal but for the
metadata, and what `changesReq` and `changesDep` let pass equals what was intended.

The second is where the proof failed at first, for a reason that is the code's:
resources are compared with a tolerance, and that is not transitive. With amounts 100,
101 and 102 a prior that passes for what runs passes for what is intended, nothing is
sent, and what runs is not what is intended; TLC finds it when the deployments of
`MCSingularityDeployer` are given such amounts. `Sendable` therefore has two parts.
`WellFormed`: the fields of a deployment, finitely many owners, the three resources as
numbers, no nil volume, a startup with all its fields. `ToldApart`: amounts that pass
for equal are equal. The deployments of the run `deployer` satisfy both.

### Beside the server

The theorems are about `Tools`; a part that is not at work does not move (`PartSteps`).

- Fan-in: `FanInv`. The channel is closed after all goroutines, and one that is done
  has handed on its configuration. `DirsAssumption`: finitely many directories.
- Concurrent maps: no invariant but the shape; each of the methods, of each of the
  three generated types, leaves every entry as it is unless it is `Set` or `Remove`.
- Commands: `NamedIsChanged` judges a finished command by what it changed, and follows
  from lemmas on the filter before and after the directory is looked at
  (`FilterOfFlags` and those after it) against `RepoMeant`, `OffsetMeant`, `TagMeant`.
  `FlagsAssumption`: a source that parses is not `*`.
- Configuration: `ConfigInv`. Of a field that nothing else may have been written to, one
  command at most is writing (`OneWrites`), the file has what was set (`InFile`) unless
  it is being written, and so has a command that is going to write it, but for what it
  sets itself (`InHand`). `EditedAssumption`: what is edited by hand are fields.
- Builds: `BuildInv`. An image is labelled with the version that its tag says (`Labels`);
  a tag never goes back to an image that was labelled before (`NotOlder`); so from when
  a product is labelled the daemon, and from when it is pushed the registry, has under
  its name its image or a later one (`Progress`), and that stays so once it is recorded
  (`Recorded`). Others build on the same daemon meanwhile, and may move the same tags:
  hence a statement about every tag and not about that of the build.
  `BuildsAssumption`: the lists of a split container file are sequences.
- Name cache: `CacheInv`. In the tables ids are used once and a canonical name has one
  row (`TablesOK`); a call has in hand the advisories that its row lacks (`Kept`), and
  if nobody disturbed it, it has come as far in finding an image as its step says
  (`Sought`). `OthersStay` says once why a step of one call leaves the others good.
  `LabelsAssumption`: what the registry holds has one source ID, Etag and set of
  advisories each.
- Tables: `TableInv`. Every row is active and of a deployment that was written
  (`TablesFit`, `StateFits`: deletions are refused, so the state never shrinks), and the
  newest row of a deployment, with what hangs on it, says what was written of it as long
  as its manifest has had one kind (`StateStands`). `UpdatedRows` has the argument: the
  row that a write adds is the newest of its deployment and the one whose id `depID`
  finds, and no two deployments share it; `ReadingIs` makes of it that whatever order
  the joined rows come in, one deployment is read. What is not updated is what was
  read to be the same (`SameIs`), so its old row still stands for it.

### Only model-checked

- Liveness, since the prover has no fairness: `Converges`, `Returns`, `WriteReturns`,
  `CyclesRecur`, `ResolveEnds`, `PollEnds` and the others, and the liveness that
  `DeployQueue` and `PairStream` promise beyond their safety.
- That names are read back as they were written, and that the values of an SQL
  statement meet their columns (the assumptions of `MCTools`), is evaluated over
  bounded inputs: both need an induction over sequences.
- `AckedIsDurable` is not so: run `git_conflict` has the counterexample.

## Not modelled

- Logging (`util/logging`): messages, fields and sinks have no effect on the rest;
  only its configuration is in `Config`.
- The dependency graph (`graph/graph.go`): constructors without a protocol; the
  choice of state manager is in `Stores`, the making of the configuration in `Config`.
- `util/docker_registry/raw_client.go`, which nothing calls; mirrors of a registry;
  `DeleteRequest` and `Scale` of the deployer, which nothing calls.
- Formatting and parsing of YAML, JSON, SQL text, templates and command output,
  help texts, progress bars, commands that only print, flag definitions.
- Test doubles (`*Spy`, dummies) and `util/allfields`, which are for tests.
- Authentication of users, TLS, metrics and profiling.

## Plan

1. `SingleDeployment` over `DeployQueue` proved to serve requests in order, with the
   refinement by `R11nQueue` in place of the abstract queue.
2. `GitStateManager` under `Stores` in place of the register, and `Stores` under
   `GDMService`.
