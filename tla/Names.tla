-------------------------------- MODULE Names --------------------------------
(***************************************************************************)
(* How sources, manifests and deployments are written and read back        *)
(* (lib/source_id.go, source_location.go, manifest_id.go, deploymentid.go, *)
(* ext/github/sourcelocation.go), how they are sent in a query             *)
(* (server/queries.go), and what Singularity is given for a name           *)
(* (ext/singularity/deployer.go).                                          *)
(*                                                                         *)
(* A text is a sequence of tokens: the separators, and words of letters    *)
(* and digits.                                                             *)
(***************************************************************************)
EXTENDS Naturals, Sequences, FiniteSets, SequencesExt

Separators == {",", "~", ":", "/"}
Illegal == [error |-> "illegal"]     \* any error that is returned
Panics == [error |-> "panic"]        \* an index out of range
IsOK(r) == "error" \notin DOMAIN r

(* strings.Split and SplitN(_, _, 2).                                      *)
Split(s, sep) ==
    FoldLeft(LAMBDA parts, t : IF t = sep THEN Append(parts, <<>>)
                               ELSE [parts EXCEPT ![Len(parts)] = Append(@, t)],
             << <<>> >>, s)
SplitTwo(s, sep) ==
    IF sep \notin Range(s) THEN <<s>>
    ELSE LET i == CHOOSE i \in DOMAIN s : s[i] = sep /\ \A j \in 1..(i - 1) : s[j] # sep
         IN  <<SubSeq(s, 1, i - 1), SubSeq(s, i + 1, Len(s))>>

(* A first character that is neither a letter, a digit, a dot nor a slash  *)
(* is the separator of what follows.                                       *)
ParseChunks(s) ==
    CASE s = <<>> -> <<>>
      [] s # <<>> /\ s[1] \notin Separators \ {"/"} -> Split(s, ",")
      [] OTHER -> Split(Tail(s), s[1])

SourceLocation(repo, dir) == [repo |-> repo, dir |-> dir]
NoLocation == SourceLocation(<<>>, <<>>)

SourceLocationFromChunks(chunks) ==
    CASE Len(chunks) > 2 -> Illegal
      [] chunks = <<>> \/ (Len(chunks) < 3 /\ chunks[1] = <<>>) -> Illegal
      [] OTHER -> SourceLocation(chunks[1], IF Len(chunks) > 1 THEN chunks[2] ELSE <<>>)
ParseSourceLocation(s) == SourceLocationFromChunks(ParseChunks(s))

LocationString(sl) == sl.repo \o (IF sl.dir = <<>> THEN <<>> ELSE <<",">> \o sl.dir)

(* UnmarshalText knows no errors: what does not parse is empty.            *)
UnmarshalLocation(s) ==
    LET sl == ParseSourceLocation(s) IN IF IsOK(sl) THEN sl ELSE NoLocation

(* A version is a word; "bad" is one that semv.Parse refuses.              *)
ValidVersion(v) == v # <<"bad">> /\ v # <<>>
SourceIDFromChunks(chunks) ==
    CASE chunks = <<>> -> Panics
      [] chunks # <<>> /\ chunks[1] = <<>> -> Illegal
      [] Len(chunks) = 1 /\ chunks[1] # <<>> -> Panics
      [] Len(chunks) > 1 /\ chunks[1] # <<>> /\ ~ValidVersion(chunks[2]) -> Illegal
      [] OTHER -> [location |-> SourceLocation(chunks[1], IF Len(chunks) > 2 THEN chunks[3] ELSE <<>>),
                   version |-> chunks[2]]
ParseSourceID(s) == SourceIDFromChunks(ParseChunks(s))
SourceIDString(sid) ==
    sid.location.repo \o <<",">> \o sid.version
    \o (IF sid.location.dir = <<>> THEN <<>> ELSE <<",">> \o sid.location.dir)
NewSourceID(repo, dir, version) ==
    IF ValidVersion(version) THEN [location |-> SourceLocation(repo, dir), version |-> version]
    ELSE Illegal

ManifestID(source, flavor) == [source |-> source, flavor |-> flavor]
ManifestIDString(mid) ==
    LocationString(mid.source) \o (IF mid.flavor = <<>> THEN <<>> ELSE <<"~">> \o mid.flavor)
ParseManifestID(s) ==
    LET parts == Split(s, "~")
    IN  IF Len(parts) > 2 THEN Illegal
        ELSE ManifestID(UnmarshalLocation(parts[1]), IF Len(parts) = 2 THEN parts[2] ELSE <<>>)

DeploymentIDString(did) == did.cluster \o <<":">> \o ManifestIDString(did.manifest)
ParseDeploymentID(s) ==
    LET parts == SplitTwo(s, ":")
        mid == ParseManifestID(parts[2])
    IN  IF s = <<>> \/ Len(parts) # 2 THEN Illegal
        ELSE IF ~IsOK(mid) THEN Illegal
        ELSE [cluster |-> parts[1], manifest |-> mid]

-----------------------------------------------------------------------------
(* A query: what is given for each parameter, in order.                    *)

Single(query, field, default) ==
    CASE field \notin DOMAIN query -> default
      [] field \in DOMAIN query /\ Len(query[field]) > 1 -> Illegal
      [] OTHER -> [value |-> query[field][1]]
Required == Illegal
Default == [value |-> <<>>]

QueryMap(did) ==
    [repo |-> <<did.manifest.source.repo>>, offset |-> <<did.manifest.source.dir>>,
     flavor |-> <<did.manifest.flavor>>, cluster |-> <<did.cluster>>]

ManifestIDFromValues(query) ==
    LET r == Single(query, "repo", Required)
        o == Single(query, "offset", Default)
        f == Single(query, "flavor", Default)
    IN  IF \A v \in {r, o, f} : IsOK(v)
        THEN ManifestID(SourceLocation(r.value, o.value), f.value) ELSE Illegal
DeploymentIDFromValues(query) ==
    LET c == Single(query, "cluster", Required)
        mid == ManifestIDFromValues(query)
    IN  IF IsOK(c) /\ IsOK(mid) THEN [cluster |-> c.value, manifest |-> mid] ELSE Illegal

-----------------------------------------------------------------------------
(* A GitHub location: after github.com, a user, a repository and a         *)
(* directory, the last of which may also follow a comma.                   *)
NonEmpty(part) == part # <<>>
Joined(parts) == FlattenSeq([i \in DOMAIN parts |-> IF i = 1 THEN parts[i] ELSE <<"/">> \o parts[i]])
RepoPath(s) ==
    LET parts == Split(s, "/")
    IN  IF Len(parts) < 3 THEN Illegal
        ELSE IF parts[3] = <<>> THEN Illegal
        ELSE [user |-> parts[2], repo |-> parts[3],
              dir |-> Joined(SelectSeq(SubSeq(parts, 4, Len(parts)), NonEmpty))]
ValidPath(rp) ==     \* validateChars: words, and in the directory slashes
    /\ Range(rp.user) \cap Separators = {}
    /\ Range(rp.repo) \cap Separators = {}
    /\ Range(rp.dir) \cap Separators \subseteq {"/"}
Host == <<"github.com">>
ParseGitHub(s) ==
    LET repodir == SplitTwo(s, ",")
        rp == RepoPath(repodir[1])
        full == IF Len(repodir) = 1 THEN rp
                ELSE [rp EXCEPT !.dir = IF @ = <<>> THEN repodir[2] ELSE @ \o <<",">> \o repodir[2]]
    IN  IF Len(s) < 2 \/ ~IsOK(rp) THEN Illegal
        ELSE IF <<s[1], s[2]>> # Host \o <<"/">> \/ ~ValidPath(full) THEN Illegal
        ELSE SourceLocation(Joined(SelectSeq(<<Host, full.user, full.repo>>, NonEmpty)), full.dir)

-----------------------------------------------------------------------------
(* The name of a Singularity request: the repository's own name, offset,   *)
(* flavour and cluster, with everything illegal an underscore, and then a  *)
(* digest of them all, cut at a length.  A digest is the name itself.      *)
ShortName(sl) ==
    LET parts == Split(sl.repo, "/") IN IF Len(parts) < 3 THEN Illegal ELSE [value |-> Last(parts)]
Sanitized(s) == [i \in DOMAIN s |-> IF s[i] \in Separators THEN "_" ELSE s[i]]
Digest(did) == <<LocationString(did.manifest.source), did.manifest.flavor, did.cluster>>
MakeRequestID(did, maxLen) ==
    LET sn == ShortName(did.manifest.source)
        base == Sanitized(sn.value) \o <<"-">> \o Sanitized(did.manifest.source.dir) \o <<"-">>
                \o Sanitized(did.manifest.flavor) \o <<"-">> \o Sanitized(did.cluster) \o <<"-">>
    IN  IF ~IsOK(sn) THEN Illegal
        ELSE [base |-> SubSeq(base, 1, IF Len(base) < maxLen THEN Len(base) ELSE maxLen),
              digest |-> IF Len(base) < maxLen THEN Digest(did) ELSE <<>>]

-----------------------------------------------------------------------------
(* What the operators above are for, over any finite sets of texts.        *)

Plain(s) == Range(s) \cap {",", "~", ":"} = {}

(* What is written is read back, given names without separators and a repo *)
(* that starts like one.                                                   *)
RoundTrips(texts, clusters) ==
    \A repo, dir, flavor \in texts : \A cluster \in clusters :
        (Plain(repo) /\ Plain(dir) /\ Plain(flavor) /\ repo # <<>>) =>
            LET sl == SourceLocation(repo, dir)
                mid == ManifestID(sl, flavor)
                did == [cluster |-> cluster, manifest |-> mid]
                sid == [location |-> sl, version |-> <<"v">>]
            IN  /\ ParseSourceLocation(LocationString(sl)) = sl
                /\ ParseManifestID(ManifestIDString(mid)) = mid
                /\ ParseDeploymentID(DeploymentIDString(did)) = did
                /\ ParseSourceID(SourceIDString(sid)) = sid
                /\ DeploymentIDFromValues(QueryMap(did)) = did

(* What the reader of -source accepts, with a user in it, both readers     *)
(* read back.  (Without one it accepts a name that it then does not.)      *)
GitHubAgrees(texts) ==
    \A s \in texts :
        LET g == ParseGitHub(s) IN
        IsOK(g) /\ RepoPath(SplitTwo(s, ",")[1]).user # <<>> =>
            ParseGitHub(LocationString(g)) = g
            /\ ParseSourceLocation(LocationString(g)) = g

(* Requests are told apart by their digests while the rest leaves room.    *)
RequestsDiffer(dids, maxLen) ==
    \A d, e \in dids :
        LET p == MakeRequestID(d, maxLen)
            q == MakeRequestID(e, maxLen)
        IN  IsOK(p) /\ IsOK(q) /\ p = q /\ p.digest # <<>> => d = e
=============================================================================
