------------------------------ MODULE MCTools ------------------------------
EXTENDS Tools, TLC

CONSTANTS s1, s2, t1, i1, i2, i3, p1, p2
Symmetry == Permutations(Procs)
----------------------------------------------------------------------------
(* Two images of one source ID and revision, the second with an advisory,   *)
(* and one of a source ID that has the same tag.                            *)
MCTagOf == (s1 :> t1) @@ (s2 :> t1)
MCSidOf == (i1 :> s1) @@ (i2 :> s1) @@ (i3 :> s2)
MCRevOf == (i1 :> "r1") @@ (i2 :> "r1") @@ (i3 :> "r2")
MCAdvisories == (i1 :> {}) @@ (i2 :> {"dirty"}) @@ (i3 :> {})

----------------------------------------------------------------------------
(* Builds of every kind of working copy and Dockerfile.                     *)
Cfg == [Repo |-> "", Offset |-> "", Path |-> "", Tag |-> "", Revision |-> "", Strict |-> FALSE, Dev |-> FALSE]
Cfgs ==
    {Cfg, [Cfg EXCEPT !.Strict = TRUE], [Cfg EXCEPT !.Tag = "v2", !.Dev = TRUE],
     [Cfg EXCEPT !.Tag = "v0", !.Offset = "."], [Cfg EXCEPT !.Repo = "fork", !.Revision = "r9"],
     [Cfg EXCEPT !.Path = "a"]}

Origin == [name |-> "origin", url |-> "repo", fetch |-> TRUE]
Clean ==
    [remotes |-> <<Origin>>, tags |-> <<"v1">>, nearest |-> "v1",
     nearestRevision |-> "r1", revision |-> "r1", offset |-> "", unpushed |-> {},
     modified |-> {}, new |-> {}]
Dirty == [Clean EXCEPT !.modified = {"f"}, !.unpushed = {"r2"}, !.revision = "r2"]
Untagged == [Dirty EXCEPT !.tags = <<>>, !.nearest = "hash", !.nearestRevision = "r2"]
NoRemote == [Clean EXCEPT !.remotes = <<>>, !.offset = "sub", !.new = {"g"}]
Forked == [Clean EXCEPT !.remotes = <<Origin, [name |-> "upstream", url |-> "unparsable", fetch |-> TRUE],
                                        [name |-> "upstream", url |-> "repo", fetch |-> FALSE]>>, !.tags = <<"hash", "v1">>]

From == [registry |-> TRUE, env |-> "", onbuild |-> "", local |-> ""]
Image == [kind |-> "", offset |-> "", valid |-> TRUE]
NoSpec == [legacy |-> <<>>, images |-> <<>>]
File == [exists |-> TRUE, env |-> "", froms |-> <<From>>, spec |-> NoSpec]
Split ==
    [File EXCEPT !.froms = <<[From EXCEPT !.onbuild = "path"]>>,
                 !.spec.images = <<Image, [Image EXCEPT !.kind = "test"]>>]
Files ==
    {File, [File EXCEPT !.exists = FALSE], Split,
     [Split EXCEPT !.froms = <<[From EXCEPT !.registry = FALSE, !.local = "path"]>>],
     [Split EXCEPT !.froms = <<[From EXCEPT !.env = "path", !.onbuild = "unparsable"]>>],
     [Split EXCEPT !.spec = [legacy |-> <<Image>>, images |-> <<>>]],
     [Split EXCEPT !.spec = [legacy |-> <<Image>>, images |-> <<Image>>]],
     [Split EXCEPT !.spec.images = <<Image, [Image EXCEPT !.offset = "a"], Image>>]}

MCInputs ==
    [b1 |-> [cfg : Cfgs, ws : {Clean, Dirty, Untagged, NoRemote, Forked}, df : Files],
     b2 |-> [cfg : {Cfg}, ws : {Dirty}, df : {File}]]
MCBuilds == DOMAIN MCInputs

(* Both repositories are named app.                                         *)
MCSecond == [b1 |-> 1, b2 |-> 1]
MCSpelling ==
    [n \in {"", "sub", "a", "test", "builder"} |-> IF n = "" THEN <<>> ELSE <<n>>] @@
    ("repo" :> <<"ssh://", "github.com", "/", "opentable", "/", "app">>) @@
    ("fork" :> <<"github.com", "/", "app">>)

----------------------------------------------------------------------------
(* Rows that have all columns, with as many values as the format has marks, *)
(* arrive as they were meant.                                               *)
Columns == <<"component_id", "versionstring">>
Marks == ("component_id" :> 2) @@ ("versionstring" :> 1)
SomeRows == [component_id : {<<1, 2>>, <<2, 1>>}, versionstring : {<<1>>, <<2>>}]
ASSUME StatementsAlign ==
    \A a, b, c \in SomeRows : Database!Received(<<a, b, c>>, Columns, Marks) = <<a, b, c>>

(* A cluster is read as it is there, if it allows at most one advisory.     *)
ASSUME ClustersReadBack ==
    \A statuses \in {<<>>, <<500>>, <<500, 503>>}, advs \in {<<>>, <<"dirty">>, <<"dirty", "unpushed">>} :
        Database!loadCluster(statuses, advs).statuses = statuses <=> Len(advs) < 2 \/ statuses = <<>>

----------------------------------------------------------------------------
(* Flags, directories and what is detected in them.                         *)
Text == INSTANCE Names

Flag(which, source, repo, offset, flavor, tag, cluster, all) ==
    [cmd |-> which, source |-> source, repo |-> repo, offset |-> offset, flavor |-> flavor,
     tag |-> tag, revision |-> "", cluster |-> cluster, all |-> all,
     force |-> FALSE, wait |-> TRUE, use |-> FALSE, ignore |-> FALSE, kind |-> ""]

MCFlags ==
    {[Flag("deploy", <<>>, repo, offset, flavor, tag, cluster, FALSE)
        EXCEPT !.force = force, !.wait = wait] :
        repo \in {"", "r", "q"}, offset \in {"", "d", "*"}, flavor \in {"", "f", "*"},
        tag \in {"", "1", "bad"}, cluster \in {"", "c", "x"}, force, wait \in BOOLEAN}
    \cup {Flag("metadata", source, repo, offset, flavor, "", cluster, FALSE) :
        source \in {<<>>, <<"q", "d">>, <<"bad">>}, repo \in {"", "q"}, offset \in {"", "d"},
        flavor \in {"", "f"}, cluster \in {"", "c"}}
    \cup {[Flag("init", <<>>, "", "", flavor, "", cluster, FALSE)
        EXCEPT !.use = use, !.ignore = ignore, !.kind = kind] :
        flavor \in {"", "f"}, cluster \in {"", "c", "x"}, use, ignore \in BOOLEAN,
        kind \in {"", "http-service"}}

MCContexts == {[repo |-> "", offset |-> "", tag |-> ""]} \cup
              [repo : {"r"}, offset : {"", "d"}, tag : {"", "2"}]
MCDetected == {<<>>, [f \in {"", "f"} |-> IF f = "" THEN {"c", "y"} ELSE {"b"}], [f \in {""} |-> {}]}
MCExisting ==
    {id \in [repo : Repos, offset : Offsets, flavor : Flavors, cluster : Clusters] :
        id.repo = "q" \/ (id.offset = "d" /\ id.cluster = "c")}

(* The texts of up to three tokens, and longer ones after a host.          *)
Tokens == {"a", "b", ",", "~", "/"}
Short == UNION {[1..n -> Tokens] : n \in 0..2}
Paths == {<<"github.com", "/">> \o s \o t : s, t \in Short}
DIDs == {[cluster |-> c, manifest |-> Text!ManifestID(Text!SourceLocation(<<"h", "/", "o", "/">> \o r, d), f)] :
           c \in {<<"a">>, <<"b">>}, r \in {<<"a">>, <<"b">>, <<"a", "b">>},
           d, f \in {<<>>, <<"a">>, <<"a", "/", "b">>}}

ASSUME NamesRoundTrip == Text!RoundTrips(Short, {<<"a">>, <<"b", "a">>})
ASSUME GitHubNamesAgree == Text!GitHubAgrees(Paths)
ASSUME RequestIDsDiffer == Text!RequestsDiffer(DIDs, 10)

----------------------------------------------------------------------------
(* Environments that override nothing, some fields well, or some badly.     *)
MCEnvironments ==
    {[f \in {} |-> ""], ("ExtraConsole" :> "two") @@ ("StateLocation" :> "bad"),
     [f \in {"SiblingURLs", "PollIntervalForClient"} |-> "ftp"]}
MCArguments ==
    {[cmd |-> "work"]} \cup [cmd : {"set"}, name : {"Server", "PollIntervalForClient"}, value : {"two"}]

----------------------------------------------------------------------------
(* Configuration directories of clusters and flavours.                      *)
Dir(name, singularity, request) == [name |-> name, singularity |-> singularity, request |-> request]
MCDirs ==
    {Dir(<<"c">>, "readable", "missing"), Dir(<<"c", "f">>, "readable", "readable"),
     Dir(<<"c", "f", "old">>, "readable", "readable"), Dir(<<"d">>, "missing", "readable")}
============================================================================
