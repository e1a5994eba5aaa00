------------------------------- MODULE Command -------------------------------
(***************************************************************************)
(* A run of `sous deploy` or `sous init`, from its flags and the directory *)
(* it is given in to what it changes on the server and what it tells the   *)
(* user: the flags become a ResolveFilter (config/deploy_filter.go), that  *)
(* is refined by the source context and becomes the name of a deployment   *)
(* or manifest (graph/targetmanifest.go), init makes a manifest            *)
(* (graph/otpldeploy.go, cli/sous_init.go), and deploy puts a version to   *)
(* the cluster's server and polls the item that this has queued there      *)
(* (cli/actions/deploy.go).                                                *)
(***************************************************************************)
EXTENDS Naturals, FiniteSets

CONSTANTS
    Repos, Offsets, Flavors,
    Flags,       \* the combinations of flags that are given
    Contexts,    \* the directories: repository, offset and nearest tag
    Clusters,    \* the clusters that are defined
    Servers,     \* the ones that /servers lists a server for
    Detected,    \* the otpl configurations found: for some flavours, clusters
    Existing,    \* the deployments of the GDM at first
    PollIntervalForClient,
    MaxOthers    \* bound on what others put to the queue

VARIABLES
    cmd,      \* the command: where it is and what it knows
    gdm,      \* the version of every deployment, None where there is none
    meta,     \* the deployments whose metadata has been set
    item,     \* the rectification that the command has queued
    others

vars == <<cmd, gdm, meta, item, others>>

None == "none"
NoVersion == "0"     \* a deployment that has never been given a version
ValidTag(tag) == tag \notin {"", "bad"}

-----------------------------------------------------------------------------
(* A matcher is All or the string that it matches; "*" is not a string of  *)
(* anything, and so stands for All.                                        *)
All == "*"
Match(matcher, against) == matcher = All \/ against = matcher
ValueOr(matcher, default) == IF matcher = All THEN default ELSE matcher
BuildFieldMatcher(config, all) == IF config = "*" \/ (all /\ config = "") THEN All ELSE config

(* And so -source has none in it, if it is given and can be parsed.         *)
FlagsAssumption ==
    \A f \in Flags : f.source \in {<<>>, <<"bad">>} \/ All \notin {f.source[1], f.source[2]}

Error == [error |-> TRUE]
IsError(r) == "error" \in DOMAIN r

(* The prefix of a tag is stripped; what is left must be a version.        *)
SetTag(rf, tag) == IF ValidTag(tag) THEN [rf EXCEPT !.tag = tag] ELSE Error

(* -source has been parsed into a repository and an offset, or is "bad".   *)
AllFields(rf) == \A k \in DOMAIN rf : rf[k] = All
BuildFilter(f) ==
    LET plain == [repo |-> BuildFieldMatcher(f.repo, TRUE),
                  cluster |-> BuildFieldMatcher(f.cluster, TRUE),
                  revision |-> BuildFieldMatcher(f.revision, TRUE),
                  offset |-> BuildFieldMatcher(f.offset, f.all),
                  flavor |-> BuildFieldMatcher(f.flavor, f.all),
                  tag |-> All]
        tagged == IF f.all \/ f.tag \in {"", "*"} THEN plain ELSE SetTag(plain, f.tag)
        sourced == IF f.source = <<>> \/ IsError(tagged) THEN tagged
                   ELSE IF f.repo # "" \/ f.offset # "" \/ f.source = <<"bad">> THEN Error
                   ELSE [tagged EXCEPT !.repo = f.source[1], !.offset = f.source[2]]
    IN  IF ~IsError(sourced) /\ f.all /\ ~AllFields(sourced) THEN Error ELSE sourced

MatchField(rf, field, against) == Match(rf[field], against)
FilterManifestID(rf, id) == \A field \in {"repo", "offset", "flavor"} : MatchField(rf, field, id[field])
FilterDeployment(rf, id, version) ==
    FilterManifestID(rf, id) /\ MatchField(rf, "tag", version) /\ MatchField(rf, "cluster", id.cluster)

(* newRefinedResolveFilter.  Without a repository the context's is meant,  *)
(* then also its directory and its tag, unless they are given; a tag that  *)
(* is no version is passed over.                                           *)
RefineMutant(rf, ctx) ==      \* mutant: the context's tag whatever the repo
    LET repo == IF rf.repo = All /\ ctx.repo # "" THEN ctx.repo ELSE rf.repo
        offset == IF rf.repo = All /\ rf.offset \in {All, ""} THEN ctx.offset
                  ELSE ValueOr(rf.offset, "")
        tag == IF rf.tag = All /\ ValidTag(ctx.tag) THEN ctx.tag ELSE rf.tag
    IN  IF repo = All THEN Error
        ELSE [rf EXCEPT !.repo = repo, !.offset = offset, !.tag = tag]
Refine(rf, ctx) ==
    LET repo == IF rf.repo = All /\ ctx.repo # "" THEN ctx.repo ELSE rf.repo
        offset == IF rf.repo = All /\ rf.offset \in {All, ""} THEN ctx.offset
                  ELSE ValueOr(rf.offset, "")
        tag == IF rf.repo = All /\ rf.tag = All /\ ValidTag(ctx.tag) THEN ctx.tag ELSE rf.tag
    IN  IF repo = All THEN Error
        ELSE [rf EXCEPT !.repo = repo, !.offset = offset, !.tag = tag]

TargetManifestID(rf) == [repo |-> rf.repo, offset |-> rf.offset, flavor |-> ValueOr(rf.flavor, "")]
TargetVersion(rf) == IF rf.tag = All \/ ~ValidTag(rf.tag) THEN Error ELSE [version |-> rf.tag]
TargetDeploymentID(rf) ==
    [repo |-> rf.repo, offset |-> rf.offset, flavor |-> ValueOr(rf.flavor, ""), cluster |-> rf.cluster]

IDs == [repo : Repos, offset : Offsets, flavor : Flavors, cluster : Clusters]
OfManifest(mid) ==
    {id \in IDs : id.repo = mid.repo /\ id.offset = mid.offset /\ id.flavor = mid.flavor}
Has(mid) == \E id \in OfManifest(mid) : gdm[id] # None

-----------------------------------------------------------------------------
(* sous init.                                                              *)

(* newUserSelectedOTPLDeploySpecs: the clusters of the otpl configuration  *)
(* to use, {} for none.                                                    *)
UserSelected(f, detected, mid) ==
    CASE f.ignore \/ detected = <<>> -> IF f.use THEN Error ELSE [specs |-> {}]
      [] ~(f.ignore \/ detected = <<>>) /\ Has(mid) -> [specs |-> {}]
      [] ~(f.ignore \/ detected = <<>>) /\ ~Has(mid) /\ f.flavor \notin DOMAIN detected -> Error
      [] OTHER -> IF f.use = (detected[f.flavor] # {})
                  THEN [specs |-> detected[f.flavor] \cap Clusters] ELSE Error

(* newTargetManifest: the clusters of the manifest that is made.           *)
TargetManifest(selected) == IF selected = {} THEN Clusters ELSE selected

(* -cluster leaves only that one, whether or not there is a configuration  *)
(* for it.                                                                 *)
InitClusters(f, selected) == IF f.cluster = "" THEN TargetManifest(selected) ELSE {f.cluster}

SousInit(f, ctx, detected) ==
    LET rf == BuildFilter(f)
        refined == Refine(rf, ctx)
        mid == TargetManifestID(refined)
        auto == UserSelected(f, detected, mid)
        ok == /\ ~IsError(rf) /\ ~IsError(refined)
              /\ ~IsError(auto)
              /\ f.kind # "" /\ f.cluster \in Clusters \cup {""}
              /\ ~Has(mid)
    IN  /\ cmd.at = "idle" /\ f.cmd = "init"
        /\ gdm' = IF ~ok THEN gdm
                  ELSE [id \in IDs |->
                          IF id \in OfManifest(mid) /\ id.cluster \in InitClusters(f, auto.specs)
                          THEN NoVersion ELSE gdm[id]]
        /\ cmd' = [at |-> "end", result |-> IF ok THEN "initialised" ELSE "error", kind |-> "init",
                   flags |-> f, ctx |-> ctx,
                   specs |-> IF ok THEN TargetManifest(auto.specs) ELSE {}]
        /\ UNCHANGED <<meta, item, others>>

(* sous metadata set: one entry in the deployments that -cluster matches.  *)
(* An entry can only be made in a map that is there.                       *)
MetadataSet(f, ctx, present) ==
    LET rf == BuildFilter(f)
        refined == Refine(rf, ctx)
        mid == TargetManifestID(refined)
        ok == ~IsError(rf) /\ ~IsError(refined) /\ Has(mid)
        chosen == {id \in OfManifest(mid) : gdm[id] # None /\ Match(refined.cluster, id.cluster)}
    IN  /\ cmd.at = "idle" /\ f.cmd = "metadata"
        /\ IF ok /\ present THEN meta' = meta \cup chosen ELSE UNCHANGED meta
        /\ cmd' = [at |-> "end", kind |-> "metadata", flags |-> f, ctx |-> ctx,
                   result |-> IF ~ok THEN "error"
                              ELSE IF ~present /\ chosen # {} THEN "panic" ELSE "set"]
        /\ UNCHANGED <<gdm, item, others>>

-----------------------------------------------------------------------------
(* sous deploy.                                                            *)

NoItem == [at |-> "none"]
End(result) == cmd' = [at |-> "end", result |-> result, kind |-> "deploy", flags |-> cmd.flags,
                       ctx |-> cmd.ctx]

(* The graph is built, and with it a client for the server of the cluster. *)
Begin(f, ctx) ==
    LET rf == BuildFilter(f)
        refined == Refine(rf, ctx)
        ok == /\ ~IsError(rf) /\ ~IsError(refined)
              /\ refined.cluster # All /\ refined.cluster \in Servers
              /\ ~IsError(TargetVersion(refined))
    IN  /\ cmd.at = "idle" /\ f.cmd = "deploy"
        /\ cmd' = IF ok
                  THEN [at |-> "get", kind |-> "deploy", flags |-> f, ctx |-> ctx,
                        target |-> TargetDeploymentID(refined), version |-> TargetVersion(refined).version]
                  ELSE [at |-> "end", result |-> "error", kind |-> "deploy", flags |-> f, ctx |-> ctx]
        /\ UNCHANGED <<gdm, meta, item, others>>

(* GET /single-deployment.                                                 *)
Retrieve ==
    /\ cmd.at = "get"
    /\ IF gdm[cmd.target] = None THEN End("error")
       ELSE cmd' = [at |-> "put", kind |-> "deploy", flags |-> cmd.flags, ctx |-> cmd.ctx,
                    target |-> cmd.target, version |-> cmd.version, etag |-> gdm[cmd.target]]
    /\ UNCHANGED <<gdm, meta, item, others>>

(* PUT of what was read with the version set.  It is refused when the      *)
(* deployment has changed, and answered without a Location when there is   *)
(* nothing to change; the queue may be full when the GDM is written.       *)
Update(full) ==
    /\ cmd.at = "put"
    /\ \/ gdm[cmd.target] # cmd.etag /\ End("error") /\ UNCHANGED <<gdm, item>>
       \/ /\ gdm[cmd.target] = cmd.etag /\ cmd.etag = cmd.version /\ ~cmd.flags.force
          /\ End("already") /\ UNCHANGED <<gdm, item>>
       \/ /\ gdm[cmd.target] = cmd.etag /\ (cmd.etag # cmd.version \/ cmd.flags.force)
          /\ gdm' = [gdm EXCEPT ![cmd.target] = cmd.version]
          /\ IF full THEN End("error") /\ UNCHANGED item
             ELSE /\ item' = [at |-> "queued", version |-> cmd.version]
                  /\ IF ~cmd.flags.wait THEN End("optimistic")
                     ELSE cmd' = [at |-> "poll", kind |-> "deploy", flags |-> cmd.flags,
                                  ctx |-> cmd.ctx, target |-> cmd.target,
                                  version |-> cmd.version, polls |-> 0]
    /\ UNCHANGED <<meta, others>>

(* What GET of the item answers: the place in the queue and, once that is  *)
(* negative, the Resolution as far as it has been set.                     *)
Waiting == item.at = "queued"
Desc == IF item.at \in {"queued", "working"} THEN "" ELSE "updated"
HasState == item.at \in {"active", "failed", "silent", "timeout"}
HasError == item.at \in {"error", "failed"}
CheckFinished == Desc \in {"created", "updated"}
CheckResolutionSuccess == item.at = "active"

Poll ==
    /\ cmd.at = "poll"
    /\ CASE cmd.polls = PollIntervalForClient -> End("gave up")
         [] cmd.polls < PollIntervalForClient /\ item.at = "evicted" -> End("failed")
         [] cmd.polls < PollIntervalForClient /\ ~Waiting /\ HasError -> End("failed")
         [] cmd.polls < PollIntervalForClient /\ ~Waiting /\ ~HasError /\ HasState /\ CheckFinished ->
              End(IF CheckResolutionSuccess THEN "complete" ELSE "failed")
         [] OTHER -> cmd' = [cmd EXCEPT !.polls = @ + 1]
    /\ UNCHANGED <<gdm, meta, item, others>>

-----------------------------------------------------------------------------
(* The server at work on the item: R11nQueue and rectification.go.         *)
ItemSteps ==
    [at \in {"queued", "working", "rectified"} |->
        CASE at = "queued" -> {"working"}
          [] at = "working" -> {"rectified", "error"}
          [] at = "rectified" -> {"active", "failed", "silent", "error", "timeout"}]
Work ==
    /\ item.at \in DOMAIN ItemSteps
    /\ \E next \in ItemSteps[item.at] : item' = [item EXCEPT !.at = next]
    /\ UNCHANGED <<cmd, gdm, meta, others>>

(* The item is forgotten when enough others have been queued after it.     *)
Evict ==
    /\ item.at \in {"active", "failed", "silent", "error", "timeout"}
    /\ others < MaxOthers
    /\ others' = others + 1
    /\ item' = [at |-> "evicted", version |-> item.version, was |-> item.at]
    /\ UNCHANGED <<cmd, gdm, meta>>

(* Somebody else's deploy of the same deployment.                          *)
OtherPut(id, version) ==
    /\ others < MaxOthers
    /\ others' = others + 1
    /\ gdm[id] # None
    /\ gdm' = [gdm EXCEPT ![id] = version]
    /\ UNCHANGED <<cmd, meta, item>>

Init ==
    /\ cmd = [at |-> "idle"]
    /\ gdm = [id \in IDs |-> IF id \in Existing THEN NoVersion ELSE None]
    /\ meta = {}
    /\ item = NoItem
    /\ others = 0

Next ==
    \/ /\ cmd.at = "idle"
       /\ \E f \in Flags, ctx \in Contexts :
             \/ Begin(f, ctx)
             \/ \E d \in Detected : SousInit(f, ctx, d)
             \/ \E present \in BOOLEAN : MetadataSet(f, ctx, present)
    \/ Retrieve \/ Poll \/ Work \/ Evict
    \/ \E full \in BOOLEAN : Update(full)
    \/ cmd.at \in {"get", "put", "poll"} /\ OtherPut(cmd.target, "other")

Spec == Init /\ [][Next]_vars

-----------------------------------------------------------------------------
Given(value) == value \notin {"", "*"}

(* What a command changes is what its user has named, the context standing *)
(* in for what is not: the offset and the tag of the working directory     *)
(* belong to its repository and are not used with another.                 *)
ChangesNamed ==
    \A id \in IDs : ((gdm'[id] # gdm[id] /\ others' = others) \/ id \in meta' \ meta) =>
        LET f == cmd'.flags
            ctx == cmd'.ctx
        IN  /\ id.repo = IF f.source # <<>> THEN f.source[1]
                         ELSE IF Given(f.repo) THEN f.repo ELSE ctx.repo
            /\ id.offset = IF f.source # <<>> THEN f.source[2]
                           ELSE IF Given(f.offset) THEN f.offset
                           ELSE IF Given(f.repo) THEN "" ELSE ctx.offset
            /\ id.flavor = IF Given(f.flavor) THEN f.flavor ELSE ""
            /\ Given(f.cluster) => id.cluster = f.cluster
            /\ FilterManifestID(Refine(BuildFilter(f), ctx), id)
            /\ gdm'[id] \in {gdm[id], NoVersion, IF Given(f.tag) THEN f.tag
                                        ELSE IF Given(f.repo) \/ f.source # <<>> THEN None
                                        ELSE ctx.tag}
NamedIsChanged == [][ChangesNamed]_vars

-----------------------------------------------------------------------------
(* Said of the code by its comments or its use, and not so: see the README. *)

(* "Failed to deploy" is said of a deployment that has failed.             *)
FailedIsFailed ==
    cmd.at = "end" /\ cmd.result \in {"failed", "gave up"} =>
        item.at # "active" /\ ~(item.at = "evicted" /\ item.was = "active")

(* An error of a deploy means that nothing is intended that was not.       *)
ErrorIsNoIntent ==
    [][cmd'.at = "end" /\ cmd'.result = "error" /\ others' = others => gdm' = gdm]_vars

(* init makes deployments for which there is a configuration, detected or  *)
(* default.                                                                *)
InitIsConfigured ==
    cmd.at = "end" /\ cmd.result = "initialised" /\ cmd.flags.cluster # "" =>
        cmd.flags.cluster \in cmd.specs
=============================================================================
