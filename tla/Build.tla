-------------------------------- MODULE Build --------------------------------
(***************************************************************************)
(* `sous build`: the source context is gathered from git, the flags are    *)
(* laid over it, a buildpack is chosen by looking at the Dockerfile, the   *)
(* images are built, labelled, pushed and recorded in the name cache.      *)
(* Builds run side by side on one Docker daemon and push to one registry.  *)
(*                                                                         *)
(* A version is what a tag parses to; an image is what its labels say, and *)
(* `of', the build and the product it really is, and `stamp', how many     *)
(* were labelled before it and it.                                         *)
(***************************************************************************)
EXTENDS Naturals, Sequences, FiniteSets, SequencesExt

CONSTANTS
    Builds,     \* runs of `sous build`
    Inputs,     \* for every build the [cfg, ws, df] it may be started with
    Second,     \* and the second in which its images are labelled
    Spelling,   \* the tokens of a repository, an offset or a kind
    MaxFaults   \* failures of docker commands

\* A run spec's lists are slices, whatever a Dockerfile says in them.
BuildsAssumption ==
    /\ IsFiniteSet(Builds) /\ MaxFaults \in Nat
    /\ \A b \in Builds : \A i \in Inputs[b] :
           \A list \in {i.df.spec.legacy, i.df.spec.images} : list \in Seq(ToSet(list))

VARIABLES
    pc,         \* the step a build is at
    in,         \* its flags, its working copy and its Dockerfile
    ctx,        \* its BuildContext
    prods,      \* the products of its BuildResult
    at,         \* the product a loop is at
    containers, \* the builds whose build container exists
    local,      \* the daemon's tags
    registry,   \* the registry's tags
    names,      \* what the builders inserted into the name cache
    labelled,   \* how many images were labelled,
    stamps,     \* and the stamps of a build's images
    faults

vars == <<pc, in, ctx, prods, at, containers, local, registry, names, labelled, stamps, faults>>

-----------------------------------------------------------------------------
(* The source context. *)

\* The versions of the tags that parse; the tag of a working copy without
\* tags is an abbreviated revision, which does not.
ParsedTags == [v1 |-> "1", v2 |-> "2", v0 |-> "0"]
Zero == "0"

Parses(tag) == tag \in DOMAIN ParsedTags

nearestVersion(tags) ==
    LET good == SelectSeq(tags, Parses)
    IN IF good = <<>> THEN Zero ELSE ParsedTags[Head(good)]

\* CanonicalRepoURL: the schemes, the credentials and the ".git" go; what
\* does not parse is an error.
CanonicalRepoURL(url) == IF url = "unparsable" THEN "" ELSE url

\* The rows of `git remote -v': a name, a URL and whether it is to fetch
\* from. A remote that is only pushed to has no fetch URL.
ListRemotes(rows) ==
    [name \in {r.name : r \in ToSet(rows)} |->
        LET fetch == SelectSeq(rows, LAMBDA r : r.name = name /\ r.fetch)
        IN IF fetch = <<>> THEN "" ELSE Last(fetch).url]

allFetchURLs(remotes) == {CanonicalRepoURL(remotes[r]) : r \in DOMAIN remotes} \ {""}

guessPrimaryRemote(remotes) ==
    IF "upstream" \in DOMAIN remotes THEN CanonicalRepoURL(remotes["upstream"])
    ELSE IF "origin" \in DOMAIN remotes THEN CanonicalRepoURL(remotes["origin"])
    ELSE ""

GatherContext(ws) ==
    LET remotes == ListRemotes(ws.remotes)
    IN [RemoteURL |-> "", OffsetDir |-> ws.offset, Revision |-> ws.revision,
        Tags |-> ws.tags, NearestTag |-> ws.nearest,
        NearestTagRevision |-> ws.nearestRevision,
        PrimaryRemoteURL |-> guessPrimaryRemote(remotes),
        RemoteURLs |-> allFetchURLs(remotes),
        RevisionUnpushed |-> ws.unpushed # {},
        DirtyWorkingTree |-> ws.modified \cup ws.new # {}]

\* SourceContext.Version: the source ID of the build.
VersionOf(sc) ==
    [repo |-> sc.RemoteURL, dir |-> sc.OffsetDir,
     version |-> nearestVersion(<<sc.NearestTag>> \o sc.Tags), rev |-> sc.Revision]

-----------------------------------------------------------------------------
(* The build configuration. *)

orElse(flag, default) == IF flag = "" THEN default ELSE flag

\* newBuildConfig and Resolve: the offset and the tag are settled at once.
NewBuildConfig(flags, sc) ==
    [flags EXCEPT !.Offset = orElse(@, sc.OffsetDir), !.Tag = orElse(@, sc.NearestTag)]

\* The argument of `sous build', a path below the working directory.
OffsetFromWorkdirOK(cfg) == cfg.Path # "" => cfg.Offset = "" /\ cfg.Path # ".."

OffsetFromWorkdir(cfg) ==
    IF cfg.Path \in {"", "."} THEN cfg ELSE [cfg EXCEPT !.Offset = cfg.Path]

Validate(cfg) == Parses(cfg.Tag)

Advisories(cfg, sc, new) ==
    { a \in {"UnknownRepo", "NoRepo", "NotRequestedRevision", "Unversioned",
             "EphemeralTag", "TagNotHead", "DirtyWS", "UnpushedRev", "DeveloperBuild"} :
        CASE a = "UnknownRepo" -> new.RemoteURL \notin new.RemoteURLs
          [] a = "NoRepo" -> new.RemoteURL = ""
          [] a = "NotRequestedRevision" -> cfg.Revision \notin {"", new.Revision}
          [] a = "Unversioned" -> VersionOf(sc).version = Zero
          [] a = "EphemeralTag" -> cfg.Tag # "" /\ cfg.Tag \notin ToSet(new.Tags)
          [] a = "TagNotHead" -> /\ cfg.Tag # "" /\ cfg.Tag \in ToSet(new.Tags)
                                 /\ new.NearestTagRevision # new.Revision
          [] a = "DirtyWS" -> new.DirtyWorkingTree
          [] a = "UnpushedRev" -> new.RevisionUnpushed
          [] OTHER -> cfg.Dev }

NewContext(cfg, sc) ==
    LET new == [sc EXCEPT !.RemoteURL = orElse(cfg.Repo, sc.PrimaryRemoteURL),
                          !.OffsetDir = IF cfg.Offset = "." THEN "" ELSE cfg.Offset,
                          !.NearestTag = cfg.Tag]
    IN [source |-> new, advisories |-> Advisories(cfg, sc, new)]

GuardStrict(cfg, advisories) == cfg.Strict => advisories = {}

\* What GuardRegister finds is logged, and that is all.
Blocked(advisories) ==
    advisories \cap {"DirtyWS", "UnpushedRev", "NoRepo", "NotRequestedRevision"} # {}

-----------------------------------------------------------------------------
(* The choice of the buildpack. *)

\* A Dockerfile: its ENV of the run spec and its FROMs, in order; a FROM
\* that the registry knows has the spec of its Env and of its ONBUILD; one
\* that only the daemon knows has `local'.
known(from) == from.registry

\* The FROM whose metadata is fetched first; the rest are not looked at.
firstKnown(df) == SelectSeq(df.froms, known)

fetchFromRunSpec(df) ==
    IF firstKnown(df) = <<>> THEN "" ELSE Head(firstKnown(df)).env

onBuild(df) ==
    IF firstKnown(df) = <<>> THEN "" ELSE Head(firstKnown(df)).onbuild

\* The daemon is asked for every FROM and the last answer stays.
checkLocalImage(df, dev, path) ==
    IF dev /\ path = "" /\ df.froms # <<>> THEN Last(df.froms).local ELSE path

\* An ENV of the Dockerfile is read before those of the ONBUILD, and the
\* last one stays.
processEnv(df, path) == orElse(onBuild(df), orElse(df.env, path))

\* The path of the run spec, "" when the split buildpack does not fit.
DetectSplit(df, dev) ==
    IF ~df.exists \/ onBuild(df) = "unparsable" THEN ""
    ELSE processEnv(df, checkLocalImage(df, dev, fetchFromRunSpec(df)))

SelectBuildpack(df, dev) ==
    IF DetectSplit(df, dev) # "" THEN "split" ELSE IF df.exists THEN "dockerfile" ELSE "none"

-----------------------------------------------------------------------------
(* The products. *)

\* A run spec has the legacy fields, a list of images, or wrongly both.
ValidSpec(image) == image.valid

ValidateRunSpec(spec) ==
    /\ spec.legacy # <<>> => spec.images = <<>>
    /\ spec.legacy = <<>> => spec.images # <<>>
    /\ \A i \in ToSet(spec.legacy \o spec.images) : ValidSpec(i)

Normalized(spec) == IF spec.legacy = <<>> THEN spec.images ELSE spec.legacy

\* The capacity of a slice to which n strings were appended one by one.
Capacity(n) == IF n <= 2 THEN n ELSE IF n <= 4 THEN 4 ELSE 8

\* A product of a kind appends NotService to the context's advisories, and
\* the builder's product IsBuilder and NotService: where the slice has room
\* for both they are the same array, and the builder writes last.
productAdvisories(kind, advisories) ==
    LET n == Cardinality(advisories)
    IN IF kind = "" THEN advisories
       ELSE IF n + 2 <= Capacity(n) THEN advisories \cup {"IsBuilder"}
       ELSE advisories \cup {"NotService"}

\* Contextualize sets the source of a product that has no repository.
Contextualize(b, sid) == IF sid.repo = "" THEN VersionOf(ctx[b].source) ELSE sid

Product(b, sid, kind, advisories) ==
    [source |-> Contextualize(b, sid), kind |-> kind,
     advisories |-> advisories \cup ctx[b].advisories]

SplitProducts(b) ==
    LET advs == ctx[b].advisories
        sid == VersionOf(ctx[b].source)
        images == Normalized(in[b].df.spec)
    IN [i \in DOMAIN images |->
            Product(b, [sid EXCEPT !.dir = images[i].offset], images[i].kind,
                    productAdvisories(images[i].kind, advs))]
       \o <<Product(b, [sid EXCEPT !.repo = ""], "builder",
                    advs \cup {"IsBuilder", "NotService"})>>

DockerfileProducts(b) ==
    <<Product(b, [repo |-> "", dir |-> "", version |-> "", rev |-> ""], "", {})>>

\* What is cut off a repository: a scheme, and as much of these as there is.
Schemes == {"http://", "https://", "ssh://"}
Hosts == {<<>>, <<"github.com">>, <<"github.com", "/", "opentable">>,
          <<"github.com", "/", "opentable", "/">>}
Stripped(repo) ==
    LET rest == IF repo # <<>> /\ Head(repo) \in Schemes THEN Tail(repo) ELSE repo
        host == CHOOSE h \in Hosts : /\ IsPrefix(h, rest)
                                     /\ \A g \in Hosts : IsPrefix(g, rest) => Len(g) <= Len(h)
    IN SubSeq(rest, Len(host) + 1, Len(rest))

\* After a registry's name, a path does not begin with a slash.
Joined(path) == IF path # <<>> /\ Head(path) = "/" THEN Tail(path) ELSE path

\* What is left of the repository, the offset and the kind: the images of
\* several source IDs and kinds may have one name.
imageRepoName(sid, kind) ==
    Joined(Stripped(Spelling[sid.repo])
           \o (IF sid.dir = "" THEN <<>> ELSE <<"/">> \o Spelling[sid.dir])
           \o (IF kind = "" THEN <<>> ELSE <<"-">> \o Spelling[kind]))

\* With the version, or the revision and the time.
VersionTag(p) == <<imageRepoName(p.source, p.kind), p.source.version>>
RevisionTag(b, p) == <<imageRepoName(p.source, p.kind), p.source.rev, Second[b]>>

\* The metadata Dockerfile: the labels and the advisories of the image.
Labelled(b, i) ==
    [source |-> prods[b][i].source, advisories |-> prods[b][i].advisories, of |-> <<b, i>>,
     stamp |-> labelled + 1]

\* The source an image's labels give back; the revision is the one built.
SourceIDFromLabels(image) == image.source

-----------------------------------------------------------------------------
Init ==
    /\ pc = [b \in Builds |-> "start"]
    /\ in \in [Builds -> UNION {Inputs[b] : b \in Builds}]
    /\ \A b \in Builds : in[b] \in Inputs[b]
    /\ ctx = [b \in Builds |-> [source |-> <<>>, advisories |-> {}]]
    /\ prods = [b \in Builds |-> <<>>]
    /\ at = [b \in Builds |-> 0]
    /\ containers = {} /\ local = <<>> /\ registry = <<>> /\ names = {}
    /\ labelled = 0 /\ stamps = [b \in Builds |-> <<>>] /\ faults = 0

Goto(b, step) == pc' = [pc EXCEPT ![b] = step]

\* A command fails; the build ends with its error.
Fails(b) == faults < MaxFaults /\ faults' = faults + 1 /\ Goto(b, "failed")

\* BuildManager.Build up to the buildpack's Build.
Prepare(b) ==
    /\ pc[b] = "start"
    /\ LET sc == GatherContext(in[b].ws)
           given == NewBuildConfig(in[b].cfg, sc)
           cfg == OffsetFromWorkdir(given)
           new == NewContext(cfg, sc)
           pack == SelectBuildpack(in[b].df, cfg.Dev)
       IN IF /\ OffsetFromWorkdirOK(given)
             /\ Validate(cfg) /\ GuardStrict(cfg, new.advisories) /\ pack # "none"
          THEN ctx' = [ctx EXCEPT ![b] = new] /\ Goto(b, pack)
          ELSE UNCHANGED ctx /\ Goto(b, "failed")
    /\ UNCHANGED <<in, prods, at, containers, local, registry, names, labelled, stamps, faults>>

\* firsterr.Parallel().Set: a git command fails, and so does the context.
GatherFails(b) ==
    /\ pc[b] = "start"
    /\ Fails(b)
    /\ UNCHANGED <<in, ctx, prods, at, containers, local, registry, names, labelled, stamps>>

Built(b, products) ==
    /\ prods' = [prods EXCEPT ![b] = products]
    /\ at' = [at EXCEPT ![b] = 1]

BuildDockerfile(b) ==
    /\ pc[b] = "dockerfile"
    /\ \/ Built(b, DockerfileProducts(b)) /\ Goto(b, "label") /\ UNCHANGED faults
       \/ Fails(b) /\ UNCHANGED <<prods, at>>
    /\ UNCHANGED <<in, ctx, containers, local, registry, names, labelled, stamps>>

\* buildBuild, setupTempdir and createBuildContainer.
BuildBuild(b) ==
    /\ pc[b] = "split"
    /\ \/ containers' = containers \cup {b} /\ Goto(b, "extract") /\ UNCHANGED faults
       \/ Fails(b) /\ UNCHANGED containers
    /\ UNCHANGED <<in, ctx, prods, at, local, registry, names, labelled, stamps>>

\* extractRunSpec, validateRunSpec, constructImageBuilders, extractFiles and
\* teardownBuildContainer: a failure on the way leaves the container.
Extract(b) ==
    /\ pc[b] = "extract"
    /\ \/ /\ ValidateRunSpec(in[b].df.spec)
          /\ containers' = containers \ {b}
          /\ Goto(b, "runnables")
          /\ UNCHANGED faults
       \/ ~ValidateRunSpec(in[b].df.spec) /\ Goto(b, "failed") /\ UNCHANGED <<containers, faults>>
       \/ Fails(b) /\ UNCHANGED containers
    /\ UNCHANGED <<in, ctx, prods, at, local, registry, names, labelled, stamps>>

BuildRunnables(b) ==
    /\ pc[b] = "runnables"
    /\ \/ Built(b, SplitProducts(b)) /\ Goto(b, "label") /\ UNCHANGED faults
       \/ Fails(b) /\ UNCHANGED <<prods, at>>
    /\ UNCHANGED <<in, ctx, containers, local, registry, names, labelled, stamps>>

\* The loop goes to its next product, or on to the next loop.
Next1(b, again, after) ==
    IF at[b] < Len(prods[b])
    THEN at' = [at EXCEPT ![b] = @ + 1] /\ Goto(b, again)
    ELSE at' = [at EXCEPT ![b] = 1] /\ Goto(b, after)

\* applyMetadata: both names are tags of the labelled image.
ApplyMetadata(b) ==
    /\ pc[b] = "label"
    /\ \/ /\ LET p == prods[b][at[b]]
                 tags == {VersionTag(p), RevisionTag(b, p)}
             IN local' = [t \in DOMAIN local \cup tags |->
                              IF t \in tags THEN Labelled(b, at[b]) ELSE local[t]]
          /\ labelled' = labelled + 1
          /\ stamps' = [stamps EXCEPT ![b] = Append(@, labelled + 1)]
          /\ Next1(b, "label", "push")
          /\ UNCHANGED faults
       \/ Fails(b) /\ UNCHANGED <<local, labelled, stamps, at>>
    /\ UNCHANGED <<in, ctx, prods, containers, registry, names>>

Pushed(tag) == registry' = [t \in DOMAIN registry \cup {tag} |->
                                IF t = tag THEN local[tag] ELSE registry[t]]

\* Mutant: the error of the version's push is forgotten.
PushVersionMutant(b) ==
    /\ pc[b] = "push"
    /\ \/ Pushed(VersionTag(prods[b][at[b]])) /\ UNCHANGED faults
       \/ faults < MaxFaults /\ faults' = faults + 1 /\ UNCHANGED registry
    /\ Goto(b, "pushrev")
    /\ UNCHANGED <<in, ctx, prods, at, containers, local, names, labelled, stamps>>

\* pushToRegistry: the push of the version; the revision is pushed whatever
\* becomes of it.
PushVersion(b) ==
    /\ pc[b] = "push"
    /\ \/ Pushed(VersionTag(prods[b][at[b]])) /\ Goto(b, "pushrev") /\ UNCHANGED faults
       \/ /\ faults < MaxFaults /\ faults' = faults + 1
          /\ Goto(b, "pushfailed") /\ UNCHANGED registry
    /\ UNCHANGED <<in, ctx, prods, at, containers, local, names, labelled, stamps>>

PushRevision(b) ==
    /\ pc[b] \in {"pushrev", "pushfailed"}
    /\ \/ /\ Pushed(RevisionTag(b, prods[b][at[b]]))
          /\ Goto(b, IF pc[b] = "pushrev" THEN "record" ELSE "failed")
          /\ UNCHANGED faults
       \/ Fails(b) /\ UNCHANGED registry
    /\ UNCHANGED <<in, ctx, prods, at, containers, local, names, labelled, stamps>>

\* recordName: the source and its advisories under the version's name.
RecordName(b) ==
    /\ pc[b] = "record"
    /\ \/ /\ LET p == prods[b][at[b]]
             IN names' = names \cup {[source |-> p.source, name |-> VersionTag(p),
                                      advisories |-> p.advisories, of |-> <<b, at[b]>>,
                                      stamp |-> stamps[b][at[b]]]}
          /\ Next1(b, "push", "done")
          /\ UNCHANGED faults
       \/ Fails(b) /\ UNCHANGED <<names, at>>
    /\ UNCHANGED <<in, ctx, prods, containers, local, registry, labelled, stamps>>

Next ==
    \E b \in Builds :
        \/ Prepare(b) \/ GatherFails(b) \/ BuildDockerfile(b)
        \/ BuildBuild(b) \/ Extract(b) \/ BuildRunnables(b)
        \/ ApplyMetadata(b) \/ PushVersion(b) \/ PushRevision(b) \/ RecordName(b)

Spec == Init /\ [][Next]_vars

-----------------------------------------------------------------------------
(* Properties. *)

\* What a builder tells the name cache is in the registry: under the name it
\* recorded there is an image labelled with that version, which is its own or
\* one that was labelled since, and never one from before, whatever failed and
\* whoever else builds and pushes under that name (Builder.Register:
\* builder.go:68-82).
RecordedIsPushed ==
    \A r \in names :
        /\ r.name \in DOMAIN registry
        /\ registry[r.name].stamp >= r.stamp
        /\ SourceIDFromLabels(registry[r.name]).version = r.source.version

-----------------------------------------------------------------------------
(* Said of the code by its comments or its use, and not so: see the README. *)

\* The image under a recorded name is the one the recording build built.
RecordedIsOwn == \A r \in names : registry[r.name].of = r.of

\* Its labels give back the repository and the offset that were recorded.
RecordedIsOfSource ==
    \A r \in names :
        LET sid == SourceIDFromLabels(registry[r.name])
        IN sid.repo = r.source.repo /\ sid.dir = r.source.dir

\* An image of a kind is marked as not being a service.
KindIsNotService ==
    \A b \in Builds : \A i \in DOMAIN prods[b] :
        prods[b][i].kind # "" => "NotService" \in prods[b][i].advisories

\* The products of a build have names of their own.
ProductsAreApart ==
    \A b \in Builds : \A i, j \in DOMAIN prods[b] :
        i # j => VersionTag(prods[b][i]) # VersionTag(prods[b][j])

\* "registers the image if there are no blocking advisories; warns about the
\* advisories and does not register otherwise" (build_manager.go:46-47).
BlockedIsNotRegistered == \A r \in names : ~Blocked(r.advisories)

\* "if you pass it a path, it will instead build the project at that path"
\* (sous_build.go:27-28).
PathIsBuilt ==
    \A b \in Builds :
        in[b].cfg.Offset = "" /\ in[b].cfg.Path = "a" =>
            OffsetFromWorkdirOK(NewBuildConfig(in[b].cfg, GatherContext(in[b].ws)))

\* A build leaves no container behind.
ContainersRemoved == \A b \in containers : pc[b] # "failed"

\* A build of version 0.0.0 is advised to be unversioned, and no other.
UnversionedIsTold ==
    \A t \in DOMAIN registry :
        registry[t].source.version = Zero <=> "Unversioned" \in registry[t].advisories

=============================================================================
