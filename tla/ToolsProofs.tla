----------------------------- MODULE ToolsProofs -----------------------------
(* What lies under and beside the server, one part at a time: each part's   *)
(* variables only ever change by its own steps.                             *)
EXTENDS Tools, FiniteSetTheorems, SequenceTheorems, WellFoundedInduction, TLAPS

----------------------------------------------------------------------------
(* A part that is not at work does not move.                                *)
LEMMA PartSteps ==
    [Next]_vars => /\ [Cache!Next]_cacheVars
                   /\ [Builder!Next]_buildVars
                   /\ [Database!Next]_tableVars
                   /\ [CommandLine!Next]_commandVars
                   /\ [Configuration!Next]_configVars
                   /\ [Containers!Next]_containerVars
  BY DEF Next, vars, Others

----------------------------------------------------------------------------
(* Fan-in (util/firsterr, ext/otpl).                                        *)

(* The channel is closed when every goroutine is done, and one that is done *)
(* has handed on its configuration.                                         *)
FanInv ==
    /\ st = [d \in Dirs |-> st[d]]
    /\ caller = "nil" => closed
    /\ closed => \A d \in Dirs : st[d] = "done"
    /\ mode = "all" => \A d \in Dirs :
           st[d] = "done" /\ Containers!Fan!parseSingleOTPLConfig(d) # {} =>
               Containers!Fan!getClusterAndFlavor(d) \in DOMAIN manifests

(* A step of the goroutines keeps it.                                       *)
LEMMA FanNext ==
    ASSUME FanInv, [Containers!Next]_containerVars
    PROVE  FanInv'
<1> DEFINE key(d) == Containers!Fan!getClusterAndFlavor(d)
           some(d) == Containers!Fan!parseSingleOTPLConfig(d) # {}
<1>i. /\ st = [d \in Dirs |-> st[d]]
      /\ caller = "nil" => closed
      /\ closed => \A d \in Dirs : st[d] = "done"
      /\ mode = "all" => \A d \in Dirs : st[d] = "done" /\ some(d) => key(d) \in DOMAIN manifests
  BY DEF FanInv
<1> DEFINE Kept ==
             /\ st' = [d \in Dirs |-> st'[d]]
             /\ caller' = "nil" => closed'
             /\ closed' => \A d \in Dirs : st'[d] = "done"
             /\ mode' = "all" => \A d \in Dirs : st'[d] = "done" /\ some(d) =>
                                                     key(d) \in DOMAIN manifests'
<1>g. SUFFICES Kept
  BY DEF FanInv, Containers!Fan!getClusterAndFlavor, Containers!Fan!parseSingleOTPLConfig
<1>1. ASSUME NEW d \in Dirs, Containers!Fan!Run(d) PROVE Kept
  <2> HIDE DEF key, some
  <2>1. UNCHANGED <<mode, closed, caller, manifests>> /\ st[d] = "running"
    BY <1>1 DEF Containers!Fan!Run
  <2>2. \E s \in {"sending", "done"} : st' = [st EXCEPT ![d] = s]
                                      /\ (s = "done" /\ mode = "all" => ~some(d))
    BY <1>1 DEF Containers!Fan!Run, some
  <2> QED BY <1>i, <2>1, <2>2
<1>2. ASSUME NEW d \in Dirs, Containers!Fan!First(d) PROVE Kept
  <2> HIDE DEF key, some
  <2> QED BY <1>i, <1>2 DEF Containers!Fan!First
<1>3. ASSUME NEW d \in Dirs, Containers!Fan!Collect(d) PROVE Kept
  <2>1. UNCHANGED <<mode, closed, caller>> /\ caller = "waits" /\ st[d] = "sending"
        /\ st' = [st EXCEPT ![d] = "done"]
    BY <1>3 DEF Containers!Fan!Collect
  <2>2. DOMAIN manifests' = DOMAIN manifests \cup {key(d)}
    BY <1>3 DEF Containers!Fan!Collect
  <2> HIDE DEF key, some
  <2> QED BY <1>i, <2>1, <2>2
<1>4. CASE Containers!Fan!Close \/ Containers!Fan!Return
  <2> HIDE DEF key, some
  <2> QED BY <1>i, <1>4 DEF Containers!Fan!Close, Containers!Fan!Return
<1>5. CASE UNCHANGED <<mode, st, closed, caller, manifests>>
  <2> HIDE DEF key, some
  <2> QED BY <1>i, <1>5
<1> QED
  BY <1>1, <1>2, <1>3, <1>4, <1>5
     DEF Containers!Next, Containers!DeploymentsCall, Containers!ManifestsCall,
         Containers!DeployStatesCall, Containers!FanStep, Containers!Fan!Next,
         Containers!fanVars, containerVars

(* A caller that returns without an error has waited for every function,    *)
(* and has the configuration of each directory that has one (firsterr.go,   *)
(* otpl.go); for any functions and directories.                             *)
THEOREM NilMeansAllAlways == Spec => []NilMeansAll
<1>1. Init => FanInv
  BY DEF Init, Containers!Init, Containers!Fan!Init, FanInv
<1>2. FanInv /\ [Next]_vars => FanInv'
  BY FanNext, PartSteps
<1>3. FanInv => NilMeansAll
  BY DEF FanInv, NilMeansAll, Containers!NilMeansAll, Containers!Fan!NilMeansAll
<1> QED
  BY <1>1, <1>2, <1>3, PTL DEF Spec

----------------------------------------------------------------------------
(* The concurrent maps (util/cmap), of any key type.                        *)

MapsThere == m = [x \in Maps |-> m[x]]

(* Every entry stays as it is, unless the call is one of Set or Remove.     *)
EntriesStay ==
    \A x \in Maps : \A k \in DOMAIN m[x] :
        \/ k \in DOMAIN m'[x] /\ m'[x][k] = m[x][k]
        \/ did'.op \in {"Set", "Remove"}

(* What Add and AddAll write to a map leaves what was there on top.         *)
LEMMA WrittenStays ==
    ASSUME MapsThere, NEW x \in Maps, NEW f,
           \A k \in DOMAIN m[x] : k \in DOMAIN f /\ f[k] = m[x][k],
           m' = [m EXCEPT ![x] = f]
    PROVE  EntriesStay /\ MapsThere'
  BY DEF MapsThere, EntriesStay

(* The methods that change no map.                                          *)
LEMMA ReadsStay == MapsThere /\ m' = m => EntriesStay /\ MapsThere'
  BY DEF MapsThere, EntriesStay

(* The methods of the maps of deployments,                                  *)
LEMMA DeploymentsStay ==
    ASSUME MapsThere, Containers!Deployments!Next
    PROVE  EntriesStay /\ MapsThere'
<1>1. PICK p \in Procs :
         \/ Containers!Deployments!Set(p) \/ Containers!Deployments!Add(p)
         \/ Containers!Deployments!Remove(p) \/ Containers!Deployments!Filter(p)
         \/ Containers!Deployments!Clone(p) \/ Containers!Deployments!Snapshot(p)
         \/ Containers!Deployments!AddAll(p) \/ Containers!Deployments!Merge(p)
  BY DEF Containers!Deployments!Next
<1>2. CASE Containers!Deployments!Set(p) \/ Containers!Deployments!Remove(p)
  <2>1. \E x : did' = [op |-> "Set", map |-> x] \/ did' = [op |-> "Remove", map |-> x]
    BY <1>2, Zenon
       DEF Containers!Deployments!Did, Containers!Deployments!Set, Containers!Deployments!Remove
  <2>2. \E x \in Maps : \E f : m' = [m EXCEPT ![x] = f]
    BY <1>2 DEF Containers!Deployments!Set, Containers!Deployments!Remove
  <2> QED BY <2>1, <2>2 DEF EntriesStay, MapsThere
<1>3. CASE Containers!Deployments!Add(p)
  <2>1. PICK x \in Maps : \E v : m' = [m EXCEPT ![x] =
               Containers!Deployments!With([j \in {Containers!DeploymentID(v)} |-> v], m[x])]
    BY <1>3, Zenon DEF Containers!Deployments!Add
  <2> QED BY <2>1, WrittenStays DEF Containers!Deployments!With
<1>4. CASE Containers!Deployments!AddAll(p)
  <2>1. CASE m' = m
    BY <2>1, ReadsStay
  <2>2. ASSUME NEW x \in Maps, DOMAIN m[x] \cap DOMAIN held[p].snap = {},
               m' = [m EXCEPT ![x] =
                       [k \in DOMAIN m[x] \cup DOMAIN held[p].snap |->
                            IF k \in DOMAIN held[p].snap THEN held[p].snap[k] ELSE m[x][k]]]
        PROVE  EntriesStay /\ MapsThere'
    BY <2>2, WrittenStays
  <2> QED BY <1>4, <2>1, <2>2 DEF Containers!Deployments!AddAll, Containers!Deployments!With
<1>5. CASE \/ Containers!Deployments!Filter(p) \/ Containers!Deployments!Clone(p)
           \/ Containers!Deployments!Snapshot(p) \/ Containers!Deployments!Merge(p)
  <2>1. m' = m
    BY <1>5 DEF Containers!Deployments!Filter, Containers!Deployments!Clone,
         Containers!Deployments!Snapshot, Containers!Deployments!Merge
  <2> QED BY <2>1, ReadsStay
<1> QED BY <1>1, <1>2, <1>3, <1>4, <1>5
(* of those of manifests,                                                   *)
LEMMA ManifestsStay ==
    ASSUME MapsThere, Containers!Manifests!Next
    PROVE  EntriesStay /\ MapsThere'
<1>1. PICK p \in Procs :
         \/ Containers!Manifests!Set(p) \/ Containers!Manifests!Add(p)
         \/ Containers!Manifests!Remove(p) \/ Containers!Manifests!Filter(p)
         \/ Containers!Manifests!Clone(p) \/ Containers!Manifests!Snapshot(p)
         \/ Containers!Manifests!AddAll(p) \/ Containers!Manifests!Merge(p)
  BY DEF Containers!Manifests!Next
<1>2. CASE Containers!Manifests!Set(p) \/ Containers!Manifests!Remove(p)
  <2>1. \E x : did' = [op |-> "Set", map |-> x] \/ did' = [op |-> "Remove", map |-> x]
    BY <1>2, Zenon
       DEF Containers!Manifests!Did, Containers!Manifests!Set, Containers!Manifests!Remove
  <2>2. \E x \in Maps : \E f : m' = [m EXCEPT ![x] = f]
    BY <1>2 DEF Containers!Manifests!Set, Containers!Manifests!Remove
  <2> QED BY <2>1, <2>2 DEF EntriesStay, MapsThere
<1>3. CASE Containers!Manifests!Add(p)
  <2>1. PICK x \in Maps : \E v : m' = [m EXCEPT ![x] =
               Containers!Manifests!With([j \in {Containers!ManifestID(v)} |-> v], m[x])]
    BY <1>3, Zenon DEF Containers!Manifests!Add
  <2> QED BY <2>1, WrittenStays DEF Containers!Manifests!With
<1>4. CASE Containers!Manifests!AddAll(p)
  <2>1. CASE m' = m
    BY <2>1, ReadsStay
  <2>2. ASSUME NEW x \in Maps, DOMAIN m[x] \cap DOMAIN held[p].snap = {},
               m' = [m EXCEPT ![x] =
                       [k \in DOMAIN m[x] \cup DOMAIN held[p].snap |->
                            IF k \in DOMAIN held[p].snap THEN held[p].snap[k] ELSE m[x][k]]]
        PROVE  EntriesStay /\ MapsThere'
    BY <2>2, WrittenStays
  <2> QED BY <1>4, <2>1, <2>2 DEF Containers!Manifests!AddAll, Containers!Manifests!With
<1>5. CASE \/ Containers!Manifests!Filter(p) \/ Containers!Manifests!Clone(p)
           \/ Containers!Manifests!Snapshot(p) \/ Containers!Manifests!Merge(p)
  <2>1. m' = m
    BY <1>5 DEF Containers!Manifests!Filter, Containers!Manifests!Clone,
         Containers!Manifests!Snapshot, Containers!Manifests!Merge
  <2> QED BY <2>1, ReadsStay
<1> QED BY <1>1, <1>2, <1>3, <1>4, <1>5
(* and of those of the states of deployments.                               *)
LEMMA DeployStatesStay ==
    ASSUME MapsThere, Containers!DeployStates!Next
    PROVE  EntriesStay /\ MapsThere'
<1>1. PICK p \in Procs :
         \/ Containers!DeployStates!Set(p) \/ Containers!DeployStates!Add(p)
         \/ Containers!DeployStates!Remove(p) \/ Containers!DeployStates!Filter(p)
         \/ Containers!DeployStates!Clone(p) \/ Containers!DeployStates!Snapshot(p)
         \/ Containers!DeployStates!AddAll(p) \/ Containers!DeployStates!Merge(p)
  BY DEF Containers!DeployStates!Next
<1>2. CASE Containers!DeployStates!Set(p) \/ Containers!DeployStates!Remove(p)
  <2>1. \E x : did' = [op |-> "Set", map |-> x] \/ did' = [op |-> "Remove", map |-> x]
    BY <1>2, Zenon
       DEF Containers!DeployStates!Did, Containers!DeployStates!Set, Containers!DeployStates!Remove
  <2>2. \E x \in Maps : \E f : m' = [m EXCEPT ![x] = f]
    BY <1>2 DEF Containers!DeployStates!Set, Containers!DeployStates!Remove
  <2> QED BY <2>1, <2>2 DEF EntriesStay, MapsThere
<1>3. CASE Containers!DeployStates!Add(p)
  <2>1. PICK x \in Maps : \E v : m' = [m EXCEPT ![x] =
               Containers!DeployStates!With([j \in {Containers!DeploymentID(v)} |-> v], m[x])]
    BY <1>3, Zenon DEF Containers!DeployStates!Add
  <2> QED BY <2>1, WrittenStays DEF Containers!DeployStates!With
<1>4. CASE Containers!DeployStates!AddAll(p)
  <2>1. CASE m' = m
    BY <2>1, ReadsStay
  <2>2. ASSUME NEW x \in Maps, DOMAIN m[x] \cap DOMAIN held[p].snap = {},
               m' = [m EXCEPT ![x] =
                       [k \in DOMAIN m[x] \cup DOMAIN held[p].snap |->
                            IF k \in DOMAIN held[p].snap THEN held[p].snap[k] ELSE m[x][k]]]
        PROVE  EntriesStay /\ MapsThere'
    BY <2>2, WrittenStays
  <2> QED BY <1>4, <2>1, <2>2 DEF Containers!DeployStates!AddAll, Containers!DeployStates!With
<1>5. CASE \/ Containers!DeployStates!Filter(p) \/ Containers!DeployStates!Clone(p)
           \/ Containers!DeployStates!Snapshot(p) \/ Containers!DeployStates!Merge(p)
  <2>1. m' = m
    BY <1>5 DEF Containers!DeployStates!Filter, Containers!DeployStates!Clone,
         Containers!DeployStates!Snapshot, Containers!DeployStates!Merge
  <2> QED BY <2>1, ReadsStay
<1> QED BY <1>1, <1>2, <1>3, <1>4, <1>5

(* Only Set replaces an entry and only Remove takes one away, whichever of  *)
(* the other methods interleave (CMap.Add, CMap.AddAll: cmap.go:160-205).   *)
THEOREM AddReplacesNothingAlways == Spec => AddReplacesNothing
<1> DEFINE Stay == [EntriesStay]_<<m, held, did, result, calls>>
<1>1. Init => MapsThere
  BY DEF Init, Containers!Init, Containers!Manifests!Init, MapsThere
<1>2. MapsThere /\ [Next]_vars => MapsThere' /\ Stay
  <2> SUFFICES ASSUME MapsThere, [Containers!Next]_containerVars PROVE MapsThere' /\ Stay
    BY PartSteps
  <2>1. CASE \/ Containers!Deployments!Next \/ Containers!Manifests!Next
             \/ Containers!DeployStates!Next
    BY <2>1, DeploymentsStay, ManifestsStay, DeployStatesStay
  <2>2. CASE UNCHANGED <<m, held, did, result, calls>>
    BY <2>2 DEF MapsThere
  <2> QED
    BY <2>1, <2>2 DEF Containers!Next, Containers!DeploymentsCall, Containers!ManifestsCall,
         Containers!DeployStatesCall, Containers!FanStep, Containers!cmapVars, containerVars
<1> QED
  BY <1>1, <1>2, PTL DEF Spec, AddReplacesNothing, Containers!AddReplacesNothing,
     Containers!Deployments!AddReplacesNothing, Containers!Manifests!AddReplacesNothing,
     Containers!DeployStates!AddReplacesNothing, EntriesStay, Containers!Deployments!vars,
     Containers!Manifests!vars, Containers!DeployStates!vars

----------------------------------------------------------------------------
(* What a deploy, init or metadata command is told to change                *)
(* (lib/resolvefilter.go, graph/targetmanifest.go).                         *)

(* The repository, the offset and the tag that a user means in a directory. *)
RepoMeant(f, dir) ==
    IF f.source # <<>> THEN f.source[1] ELSE IF CommandLine!Given(f.repo) THEN f.repo ELSE dir.repo
OffsetMeant(f, dir) ==
    IF f.source # <<>> THEN f.source[2] ELSE IF CommandLine!Given(f.offset) THEN f.offset
    ELSE IF CommandLine!Given(f.repo) THEN "" ELSE dir.offset
TagMeant(f, dir) ==
    IF CommandLine!Given(f.tag) THEN f.tag
    ELSE IF CommandLine!Given(f.repo) \/ f.source # <<>> THEN CommandLine!None ELSE dir.tag

(* The filter of the flags, before and after the directory is looked at.    *)
LEMMA FilterOfFlags ==
    ASSUME NEW f \in Flags, ~CommandLine!IsError(CommandLine!BuildFilter(f))
    PROVE  LET rf == CommandLine!BuildFilter(f) IN
           /\ DOMAIN rf = {"repo", "cluster", "revision", "offset", "flavor", "tag"}
           /\ rf.repo = IF f.source # <<>> THEN f.source[1]
                        ELSE IF CommandLine!Given(f.repo) THEN f.repo ELSE "*"
           /\ f.source # <<>> => rf.repo # "*" /\ rf.offset = f.source[2] /\ rf.offset # "*"
           /\ f.source = <<>> => rf.offset = CommandLine!BuildFieldMatcher(f.offset, f.all)
           /\ rf.flavor = CommandLine!BuildFieldMatcher(f.flavor, f.all)
           /\ rf.cluster = IF CommandLine!Given(f.cluster) THEN f.cluster ELSE "*"
           /\ f.all => rf.cluster = "*" /\ rf.tag = "*"
           /\ ~f.all => rf.tag = IF CommandLine!Given(f.tag) THEN f.tag ELSE "*"
<1> USE DEF CommandLine!All, CommandLine!Given
<1> DEFINE plain == [repo |-> CommandLine!BuildFieldMatcher(f.repo, TRUE),
                     cluster |-> CommandLine!BuildFieldMatcher(f.cluster, TRUE),
                     revision |-> CommandLine!BuildFieldMatcher(f.revision, TRUE),
                     offset |-> CommandLine!BuildFieldMatcher(f.offset, f.all),
                     flavor |-> CommandLine!BuildFieldMatcher(f.flavor, f.all),
                     tag |-> CommandLine!All]
           tagged == IF f.all \/ f.tag \in {"", "*"} THEN plain
                     ELSE CommandLine!SetTag(plain, f.tag)
           sourced == IF f.source = <<>> \/ CommandLine!IsError(tagged) THEN tagged
                      ELSE IF f.repo # "" \/ f.offset # "" \/ f.source = <<"bad">>
                           THEN CommandLine!Error
                      ELSE [tagged EXCEPT !.repo = f.source[1], !.offset = f.source[2]]
           rf == CommandLine!BuildFilter(f)
<1>1. rf = IF ~CommandLine!IsError(sourced) /\ f.all /\ ~CommandLine!AllFields(sourced)
           THEN CommandLine!Error ELSE sourced
  BY Zenon DEF CommandLine!BuildFilter
<1>2. CommandLine!IsError(CommandLine!Error)
  BY DEF CommandLine!IsError, CommandLine!Error
<1>3. /\ DOMAIN plain = {"repo", "cluster", "revision", "offset", "flavor", "tag"}
      /\ plain.repo = IF CommandLine!Given(f.repo) THEN f.repo ELSE "*"
      /\ plain.cluster = IF CommandLine!Given(f.cluster) THEN f.cluster ELSE "*"
      /\ plain.offset = CommandLine!BuildFieldMatcher(f.offset, f.all)
      /\ plain.flavor = CommandLine!BuildFieldMatcher(f.flavor, f.all)
      /\ plain.tag = "*"
  BY DEF CommandLine!BuildFieldMatcher
<1> HIDE DEF plain
<1>4. ~CommandLine!IsError(tagged) =>
          /\ DOMAIN tagged = DOMAIN plain
          /\ tagged.repo = plain.repo /\ tagged.cluster = plain.cluster
          /\ tagged.offset = plain.offset /\ tagged.flavor = plain.flavor
          /\ tagged.tag = IF f.all \/ ~CommandLine!Given(f.tag) THEN "*" ELSE f.tag
  BY <1>2, <1>3 DEF CommandLine!SetTag
<1> HIDE DEF tagged
<1>5. /\ rf = sourced /\ ~CommandLine!IsError(sourced)
      /\ f.all => CommandLine!AllFields(sourced)
  BY <1>1, <1>2
<1>6. ~CommandLine!IsError(tagged)
  BY <1>2, <1>5
<1>7. /\ DOMAIN rf = DOMAIN plain
      /\ rf.cluster = plain.cluster /\ rf.flavor = plain.flavor /\ rf.tag = tagged.tag
      /\ f.source = <<>> => rf.repo = plain.repo /\ rf.offset = plain.offset
      /\ f.source # <<>> => rf.repo = f.source[1] /\ rf.offset = f.source[2] /\ f.source # <<"bad">>
  BY <1>2, <1>3, <1>4, <1>5, <1>6
<1> HIDE DEF sourced
<1>8. f.all => rf.cluster = "*" /\ rf.tag = "*"
  <2>1. f.all => CommandLine!AllFields(rf)
    BY <1>5
  <2>2. "cluster" \in DOMAIN rf /\ "tag" \in DOMAIN rf
    BY <1>3, <1>7
  <2> HIDE DEF rf
  <2> QED BY <2>1, <2>2 DEF CommandLine!AllFields
<1> HIDE DEF rf
<1> QED BY <1>3, <1>4, <1>6, <1>7, <1>8, CommandAssumption DEF CommandLine!FlagsAssumption, rf

(* With the directory's help, the filter is of what is meant                *)
(* (newRefinedResolveFilter).                                               *)
LEMMA RefinedIsMeant ==
    ASSUME NEW f \in Flags, NEW dir, ~CommandLine!IsError(CommandLine!BuildFilter(f)),
           ~CommandLine!IsError(CommandLine!Refine(CommandLine!BuildFilter(f), dir))
    PROVE  LET r == CommandLine!Refine(CommandLine!BuildFilter(f), dir) IN
           /\ r.repo = RepoMeant(f, dir) /\ r.offset = OffsetMeant(f, dir)
           /\ CommandLine!ValueOr(r.flavor, "") =
                  IF CommandLine!Given(f.flavor) THEN f.flavor ELSE ""
           /\ r.cluster = IF CommandLine!Given(f.cluster) THEN f.cluster ELSE "*"
           /\ r.cluster # "*" /\ ~CommandLine!IsError(CommandLine!TargetVersion(r)) =>
                  CommandLine!TargetVersion(r).version = TagMeant(f, dir)
<1> USE DEF CommandLine!All, CommandLine!Given
<1> DEFINE rf == CommandLine!BuildFilter(f)
           r == CommandLine!Refine(rf, dir)
<1>1. CommandLine!IsError(CommandLine!Error)
  BY DEF CommandLine!IsError, CommandLine!Error
<1> HIDE DEF rf
<1>2. /\ r.repo = IF rf.repo = "*" /\ dir.repo # "" THEN dir.repo ELSE rf.repo
      /\ r.offset = IF rf.repo = "*" /\ rf.offset \in {"*", ""} THEN dir.offset
                    ELSE CommandLine!ValueOr(rf.offset, "")
      /\ r.tag = IF rf.repo = "*" /\ rf.tag = "*" /\ CommandLine!ValidTag(dir.tag)
                 THEN dir.tag ELSE rf.tag
      /\ r.flavor = rf.flavor /\ r.cluster = rf.cluster /\ r.repo # "*"
  BY <1>1, FilterOfFlags DEF CommandLine!Refine, rf
<1> HIDE DEF r
<1>3. r.repo = RepoMeant(f, dir)
  BY <1>2, FilterOfFlags DEF RepoMeant, rf
<1>4. r.offset = OffsetMeant(f, dir)
  BY <1>2, FilterOfFlags
     DEF OffsetMeant, rf, CommandLine!BuildFieldMatcher, CommandLine!ValueOr
<1>5. CommandLine!ValueOr(r.flavor, "") = IF CommandLine!Given(f.flavor) THEN f.flavor ELSE ""
  BY <1>2, FilterOfFlags DEF rf, CommandLine!BuildFieldMatcher, CommandLine!ValueOr
<1>6. r.cluster = IF CommandLine!Given(f.cluster) THEN f.cluster ELSE "*"
  BY <1>2, FilterOfFlags DEF rf
<1>7. ASSUME r.cluster # "*", ~CommandLine!IsError(CommandLine!TargetVersion(r))
      PROVE  CommandLine!TargetVersion(r).version = TagMeant(f, dir)
  <2>1. r.tag # "*" /\ CommandLine!TargetVersion(r) = [version |-> r.tag]
    BY <1>1, <1>7 DEF CommandLine!TargetVersion
  <2>2. ~f.all /\ rf.tag = IF CommandLine!Given(f.tag) THEN f.tag ELSE "*"
    BY <1>2, <1>7, FilterOfFlags DEF rf
  <2>3. r.tag = TagMeant(f, dir)
    BY <1>2, <2>1, <2>2, FilterOfFlags DEF TagMeant, rf
  <2> QED BY <2>1, <2>3
<1> QED BY <1>3, <1>4, <1>5, <1>6, <1>7 DEF r, rf

(* On its way a deploy has in hand what its flags and directory mean.       *)
OnTheWay ==
    /\ "at" \in DOMAIN cmd /\ others \in Nat /\ DOMAIN gdm = CommandLine!IDs
    /\ cmd.at \in {"get", "put"} =>
           LET r == CommandLine!Refine(CommandLine!BuildFilter(cmd.flags), cmd.ctx) IN
           /\ cmd.flags \in Flags
           /\ ~CommandLine!IsError(CommandLine!BuildFilter(cmd.flags))
           /\ ~CommandLine!IsError(r)
           /\ r.cluster # "*" /\ ~CommandLine!IsError(CommandLine!TargetVersion(r))
           /\ cmd.target = CommandLine!TargetDeploymentID(r)
           /\ cmd.version = CommandLine!TargetVersion(r).version

(* What is changed under the name that the flags and the directory have.    *)
IsMeant(f, dir, id) ==
    /\ id.repo = RepoMeant(f, dir) /\ id.offset = OffsetMeant(f, dir)
    /\ id.flavor = IF CommandLine!Given(f.flavor) THEN f.flavor ELSE ""
    /\ CommandLine!Given(f.cluster) => id.cluster = f.cluster
    /\ CommandLine!FilterManifestID(CommandLine!Refine(CommandLine!BuildFilter(f), dir), id)

(* A deployment of the filter's manifest and cluster is one that is meant.  *)
LEMMA NamedIsMeant ==
    ASSUME NEW f \in Flags, NEW dir, ~CommandLine!IsError(CommandLine!BuildFilter(f)), NEW id,
           ~CommandLine!IsError(CommandLine!Refine(CommandLine!BuildFilter(f), dir)),
           LET r == CommandLine!Refine(CommandLine!BuildFilter(f), dir) IN
           /\ id.repo = r.repo /\ id.offset = r.offset
           /\ id.flavor = CommandLine!ValueOr(r.flavor, "")
           /\ r.cluster # "*" => id.cluster = r.cluster
    PROVE  IsMeant(f, dir, id)
<1> DEFINE r == CommandLine!Refine(CommandLine!BuildFilter(f), dir)
<1>1. /\ r.repo = RepoMeant(f, dir) /\ r.offset = OffsetMeant(f, dir)
      /\ CommandLine!ValueOr(r.flavor, "") = IF CommandLine!Given(f.flavor) THEN f.flavor ELSE ""
      /\ r.cluster = IF CommandLine!Given(f.cluster) THEN f.cluster ELSE "*"
  BY RefinedIsMeant
<1> HIDE DEF r
<1>2. CommandLine!FilterManifestID(r, id)
  BY DEF CommandLine!FilterManifestID, CommandLine!MatchField, CommandLine!Match,
         CommandLine!ValueOr, CommandLine!All, r
<1> QED BY <1>1, <1>2 DEF IsMeant, r, CommandLine!Given

(* Every step keeps it, and changes nothing that is not meant.              *)
ChangedIsMeant ==
    \A id \in CommandLine!IDs :
        (gdm'[id] # gdm[id] /\ others' = others) \/ id \in metadata' \ metadata =>
            /\ IsMeant(cmd'.flags, cmd'.ctx, id)
            /\ gdm'[id] \in {gdm[id], CommandLine!NoVersion, TagMeant(cmd'.flags, cmd'.ctx)}

(* A step of the command, of the server or of others.                       *)
LEMMA WayStep ==
    ASSUME OnTheWay, CommandLine!Next PROVE OnTheWay' /\ ChangedIsMeant
<1>1. ASSUME NEW f \in Flags, NEW dir \in Contexts, CommandLine!Begin(f, dir)
      PROVE  OnTheWay' /\ ChangedIsMeant
  BY <1>1 DEF CommandLine!Begin, OnTheWay, ChangedIsMeant, CommandLine!All
<1>2. ASSUME NEW f \in Flags, NEW dir \in Contexts, NEW d \in Detected,
             CommandLine!SousInit(f, dir, d)
      PROVE  OnTheWay' /\ ChangedIsMeant
  <2> DEFINE r == CommandLine!Refine(CommandLine!BuildFilter(f), dir)
             mid == CommandLine!TargetManifestID(r)
  <2>1. \/ gdm' = gdm
        \/ /\ ~CommandLine!IsError(CommandLine!BuildFilter(f)) /\ ~CommandLine!IsError(r)
           /\ \E specs : gdm' = [id \in CommandLine!IDs |->
                  IF id \in CommandLine!OfManifest(mid)
                     /\ id.cluster \in CommandLine!InitClusters(f, specs)
                  THEN CommandLine!NoVersion ELSE gdm[id]]
    BY <1>2, Zenon DEF CommandLine!SousInit
  <2>2. /\ cmd'.flags = f /\ cmd'.ctx = dir /\ cmd'.at = "end" /\ "at" \in DOMAIN cmd'
        /\ UNCHANGED <<metadata, others>>
    <3>1. \E result2, specs : cmd' = [at |-> "end", result |-> result2, kind |-> "init",
                                      flags |-> f, ctx |-> dir, specs |-> specs]
      BY <1>2, Zenon DEF CommandLine!SousInit
    <3> QED BY <1>2, <3>1 DEF CommandLine!SousInit
  <2>3. ASSUME NEW id \in CommandLine!IDs, gdm'[id] # gdm[id]
        PROVE  IsMeant(f, dir, id) /\ gdm'[id] = CommandLine!NoVersion
    <3>1. PICK specs : gdm' = [i \in CommandLine!IDs |->
                  IF i \in CommandLine!OfManifest(mid)
                     /\ i.cluster \in CommandLine!InitClusters(f, specs)
                  THEN CommandLine!NoVersion ELSE gdm[i]]
      BY <2>1, <2>3
    <3>2. /\ id \in CommandLine!OfManifest(mid) /\ id.cluster \in CommandLine!InitClusters(f, specs)
          /\ gdm'[id] = CommandLine!NoVersion
      BY <2>3, <3>1
    <3>3. ~CommandLine!IsError(CommandLine!BuildFilter(f)) /\ ~CommandLine!IsError(r)
      BY <2>1, <2>3
    <3>4. r.cluster = IF CommandLine!Given(f.cluster) THEN f.cluster ELSE "*"
      BY <3>3, RefinedIsMeant
    <3>5. r.cluster # "*" => id.cluster = r.cluster
      BY <3>2, <3>4 DEF CommandLine!InitClusters, CommandLine!Given
    <3>6. /\ id.repo = r.repo /\ id.offset = r.offset
          /\ id.flavor = CommandLine!ValueOr(r.flavor, "")
      BY <3>2 DEF CommandLine!OfManifest, CommandLine!TargetManifestID
    <3> QED BY <3>2, <3>3, <3>5, <3>6, NamedIsMeant
  <2>4. DOMAIN gdm' = CommandLine!IDs
    BY <2>1 DEF OnTheWay
  <2> HIDE DEF r, mid
  <2> QED BY <2>2, <2>3, <2>4 DEF OnTheWay, ChangedIsMeant
<1>3. ASSUME NEW f \in Flags, NEW dir \in Contexts, NEW present \in BOOLEAN,
             CommandLine!MetadataSet(f, dir, present)
      PROVE  OnTheWay' /\ ChangedIsMeant
  <2> DEFINE r == CommandLine!Refine(CommandLine!BuildFilter(f), dir)
             mid == CommandLine!TargetManifestID(r)
             chosen == {id \in CommandLine!OfManifest(mid) :
                            gdm[id] # CommandLine!None /\ CommandLine!Match(r.cluster, id.cluster)}
  <2>1. \/ metadata' = metadata
        \/ /\ ~CommandLine!IsError(CommandLine!BuildFilter(f)) /\ ~CommandLine!IsError(r)
           /\ metadata' = metadata \cup chosen
    BY <1>3, Zenon DEF CommandLine!MetadataSet
  <2>2. /\ cmd'.flags = f /\ cmd'.ctx = dir /\ cmd'.at = "end" /\ "at" \in DOMAIN cmd'
        /\ UNCHANGED <<gdm, others>>
    <3>1. \E result2 : cmd' = [at |-> "end", kind |-> "metadata", flags |-> f, ctx |-> dir,
                               result |-> result2]
      BY <1>3, Zenon DEF CommandLine!MetadataSet
    <3> QED BY <1>3, <3>1 DEF CommandLine!MetadataSet
  <2>3. ASSUME NEW id \in metadata' \ metadata PROVE IsMeant(f, dir, id)
    <3>1. /\ ~CommandLine!IsError(CommandLine!BuildFilter(f)) /\ ~CommandLine!IsError(r)
          /\ id \in CommandLine!OfManifest(mid) /\ CommandLine!Match(r.cluster, id.cluster)
      BY <2>1, <2>3
    <3>2. r.cluster # "*" => id.cluster = r.cluster
      BY <3>1 DEF CommandLine!Match, CommandLine!All
    <3>3. /\ id.repo = r.repo /\ id.offset = r.offset
          /\ id.flavor = CommandLine!ValueOr(r.flavor, "")
      BY <3>1 DEF CommandLine!OfManifest, CommandLine!TargetManifestID
    <3> QED BY <3>1, <3>2, <3>3, NamedIsMeant
  <2> QED BY <2>2, <2>3 DEF OnTheWay, ChangedIsMeant
<1>4. CASE CommandLine!Retrieve
  BY <1>4 DEF CommandLine!Retrieve, CommandLine!End, OnTheWay, ChangedIsMeant
<1>5. ASSUME NEW full \in BOOLEAN, CommandLine!Update(full)
      PROVE  OnTheWay' /\ ChangedIsMeant
  <2> DEFINE r == CommandLine!Refine(CommandLine!BuildFilter(cmd.flags), cmd.ctx)
  <2>1. /\ cmd.at = "put" /\ UNCHANGED <<metadata, others>>
        /\ gdm' = gdm \/ gdm' = [gdm EXCEPT ![cmd.target] = cmd.version]
    BY <1>5 DEF CommandLine!Update
  <2>2. /\ "at" \in DOMAIN cmd' /\ cmd'.at \in {"end", "poll"}
        /\ cmd'.flags = cmd.flags /\ cmd'.ctx = cmd.ctx
    <3>1. \/ \E result2 \in {"error", "already", "optimistic"} : CommandLine!End(result2)
          \/ cmd' = [at |-> "poll", kind |-> "deploy", flags |-> cmd.flags, ctx |-> cmd.ctx,
                     target |-> cmd.target, version |-> cmd.version, polls |-> 0]
      BY <1>5 DEF CommandLine!Update
    <3>2. ASSUME NEW result2, CommandLine!End(result2)
          PROVE  /\ "at" \in DOMAIN cmd' /\ cmd'.at = "end"
                 /\ cmd'.flags = cmd.flags /\ cmd'.ctx = cmd.ctx
      BY <3>2 DEF CommandLine!End
    <3> QED BY <3>1, <3>2
  <2>3. /\ cmd.flags \in Flags /\ ~CommandLine!IsError(CommandLine!BuildFilter(cmd.flags))
        /\ ~CommandLine!IsError(r) /\ r.cluster # "*"
        /\ ~CommandLine!IsError(CommandLine!TargetVersion(r))
        /\ cmd.target = CommandLine!TargetDeploymentID(r)
        /\ cmd.version = CommandLine!TargetVersion(r).version
    BY <2>1 DEF OnTheWay
  <2>4. cmd.version = TagMeant(cmd.flags, cmd.ctx)
    BY <2>3, RefinedIsMeant
  <2>5. IsMeant(cmd.flags, cmd.ctx, cmd.target)
    BY <2>3, NamedIsMeant DEF CommandLine!TargetDeploymentID
  <2>6. \A id \in CommandLine!IDs : gdm'[id] # gdm[id] => id = cmd.target /\ gdm'[id] = cmd.version
    BY <2>1 DEF OnTheWay
  <2> HIDE DEF r
  <2> QED BY <2>1, <2>2, <2>4, <2>5, <2>6 DEF OnTheWay, ChangedIsMeant
<1>6. CASE CommandLine!Poll
  <2>1. "at" \in DOMAIN cmd' /\ cmd'.at \in {"end", "poll"} /\ UNCHANGED <<gdm, metadata, others>>
    <3>1. \/ \E result2 : CommandLine!End(result2)
          \/ cmd.at = "poll" /\ cmd' = [cmd EXCEPT !.polls = @ + 1]
      BY <1>6, Zenon DEF CommandLine!Poll
    <3>2. ASSUME NEW result2, CommandLine!End(result2)
          PROVE  "at" \in DOMAIN cmd' /\ cmd'.at = "end"
      BY <3>2 DEF CommandLine!End
    <3> QED BY <1>6, <3>1, <3>2 DEF CommandLine!Poll, OnTheWay
  <2> QED BY <2>1 DEF OnTheWay, ChangedIsMeant
<1>7. CASE CommandLine!Work \/ CommandLine!Evict
  BY <1>7 DEF CommandLine!Work, CommandLine!Evict, OnTheWay, ChangedIsMeant
<1>8. CASE cmd.at \in {"get", "put", "poll"} /\ CommandLine!OtherPut(cmd.target, "other")
  BY <1>8 DEF CommandLine!OtherPut, OnTheWay, ChangedIsMeant
<1> QED
  BY <1>1, <1>2, <1>3, <1>4, <1>5, <1>6, <1>7, <1>8 DEF CommandLine!Next

(* A command changes what its user has named, the directory standing in for *)
(* what is not named, and to the version that is meant (cli/,               *)
(* lib/resolvefilter.go); for any flags, directories, clusters and servers. *)
THEOREM NamedIsChangedAlways == Spec => NamedIsChanged
<1>1. Init => OnTheWay
  BY DEF Init, CommandLine!Init, OnTheWay
<1>2. OnTheWay /\ [Next]_vars => OnTheWay' /\ [ChangedIsMeant]_(CommandLine!vars)
  <2> SUFFICES ASSUME OnTheWay, [CommandLine!Next]_commandVars
               PROVE  OnTheWay' /\ [ChangedIsMeant]_(CommandLine!vars)
    BY PartSteps
  <2>1. CASE UNCHANGED commandVars
    BY <2>1 DEF commandVars, CommandLine!vars, OnTheWay
  <2>2. CASE CommandLine!Next
    BY <2>2, WayStep
  <2> QED BY <2>1, <2>2
<1>3. [ChangedIsMeant]_(CommandLine!vars) => [CommandLine!ChangesNamed]_(CommandLine!vars)
  BY DEF CommandLine!ChangesNamed, ChangedIsMeant, IsMeant, RepoMeant, OffsetMeant, TagMeant
<1> QED
  BY <1>1, <1>2, <1>3, PTL DEF Spec, NamedIsChanged, CommandLine!NamedIsChanged

----------------------------------------------------------------------------
(* The configuration file (config/config.go, util/configloader).            *)

(* An empty place of the state is filled.                                   *)
Filled(f, text) ==
    IF f = "StateLocation" /\ text = "" THEN Configuration!defaultStateLocation ELSE text

(* A command has a configuration with all fields, and goes on with the one  *)
(* that it saves.                                                           *)
HasConfig(p) ==
    LET r == commands[p] IN
    /\ r.at \in {"init", "run", "saving"} => r.config = [f \in Configuration!Fields |-> r.config[f]]
    /\ r.at = "saving" =>
           r.after.at \in {"idle", "run"} /\ (r.after.at = "run" => r.after.config = r.config)

(* The file has of a field what was set, and so has the command that is     *)
(* going to write it, but for what it sets itself; there is nothing else in *)
(* the file while it is written.                                            *)
SetIn(text, f) ==
    said[f] # Configuration!Unsaid => Filled(f, text) = Filled(f, said[f])
InFile(f) ==
    /\ said[f] # Configuration!Unsaid => file \notin {Configuration!NoFile, Configuration!Broken}
    /\ SetIn(Configuration!loadYAMLFile[f], f)
InHand(p, f) ==
    LET r == commands[p] IN
    /\ r.at = "init" => said[f] = Configuration!Unsaid
    /\ r.at = "run" /\ r.args.cmd = "set" => SetIn(r.config[f], f)
    /\ r.at = "saving" =>
           /\ file = Configuration!Empty
           /\ IF f \in DOMAIN r.sets THEN r.config[f] = r.sets[f] ELSE SetIn(r.config[f], f)
OneWrites == \A p, q \in Procs : Configuration!Writing(p) /\ Configuration!Writing(q) => p = q
NoneSaves == \A p \in Procs : commands[p].at # "saving"

ConfigInv ==
    /\ commands = [p \in Procs |-> commands[p]]
    /\ said = [f \in Configuration!Fields |-> said[f]]
    /\ \A p \in Procs : HasConfig(p)
    /\ \A f \in Configuration!Fields \ unsure :
          /\ OneWrites
          /\ NoneSaves => InFile(f)
          /\ \A p \in Procs : InHand(p, f)

(* FillDefaults leaves every field as Filled says.                          *)
LEMMA FilledIs ==
    ASSUME NEW c, c = [f \in Configuration!Fields |-> c[f]]
    PROVE  Configuration!FillDefaults(c) = [f \in Configuration!Fields |-> Filled(f, c[f])]
BY DEF Configuration!FillDefaults, Filled

(* What is loaded has all fields: those of the file, where the environment  *)
(* does not override them.                                                  *)
LEMMA LoadIs ==
    ASSUME NEW env, NEW c, c = Configuration!Load(env).config
    PROVE  /\ c = [f \in Configuration!Fields |-> c[f]]
           /\ \A f \in Configuration!Fields \ DOMAIN env :
                  c[f] = Filled(f, Configuration!loadYAMLFile[f])
<1> DEFINE old == Configuration!FillDefaults(Configuration!loadYAMLFile)
<1>1. old = [f \in Configuration!Fields |-> Filled(f, Configuration!loadYAMLFile[f])]
  BY FilledIs DEF Configuration!loadYAMLFile
<1> HIDE DEF old
<1>2. c \in {old, Configuration!overrideWithEnv(old, env)}
  BY DEF Configuration!Load, old
<1>3. CASE c = old
  BY <1>1, <1>3
<1>4. CASE c = Configuration!overrideWithEnv(old, env)
  BY <1>1, <1>4 DEF Configuration!overrideWithEnv, Configuration!overrideField
<1> QED BY <1>2, <1>3, <1>4

(* What marks a file that is missing or broken is no field's name.          *)
LEMMA FieldNames ==
    "Server" \in Configuration!Fields /\ "missing" \notin Configuration!Fields
    /\ "broken" \notin Configuration!Fields
<1>1. Configuration!Visited[2] = "Server" /\ DOMAIN Configuration!Visited = 1..7
      /\ \A i \in 1..7 : Configuration!Visited[i] \notin {"missing", "broken"}
  BY DEF Configuration!Visited
<1> QED BY <1>1 DEF Configuration!Fields, Configuration!Range

(* A configuration with all fields is one that is read.                     *)
LEMMA WholeIsRead ==
    ASSUME NEW c, c = [f \in Configuration!Fields |-> c[f]]
    PROVE  c \notin {Configuration!NoFile, Configuration!Broken, Configuration!Empty}
<1>1. "Server" \in DOMAIN c
  BY FieldNames
<1> QED BY <1>1 DEF Configuration!NoFile, Configuration!Broken, Configuration!Empty

(* A step of a command, or of the user, keeps it.                           *)
LEMMA ConfigNext ==
    ASSUME ConfigInv, [Configuration!Next]_configVars
    PROVE  ConfigInv'
<1>1. ASSUME NEW p \in Procs, NEW env \in Environments, NEW args \in Arguments,
             Configuration!Start(p, env, args)
      PROVE  ConfigInv'
  <2> DEFINE c == Configuration!Load(env).config
             fails == Configuration!Load(env).failed
  <2>1. /\ c = [f \in Configuration!Fields |-> c[f]]
        /\ \A f \in Configuration!Fields \ DOMAIN env :
              c[f] = Filled(f, Configuration!loadYAMLFile[f])
    BY LoadIs
  <2> HIDE DEF c
  <2>2. PICK r : /\ commands' = [commands EXCEPT ![p] = r]
                 /\ \/ r.at = "idle"
                    \/ file = Configuration!NoFile /\ r.at = "init" /\ r.config = c
                    \/ /\ file # Configuration!NoFile /\ r.at = "run"
                       /\ r.config = c /\ r.args = args
    <3> DEFINE x == [at |-> "init", config |-> c, failed |-> fails, args |-> args, env |-> env]
               y == [at |-> "run", config |-> c, args |-> args, env |-> env]
               z == IF file = Configuration!NoFile THEN x
                    ELSE IF fails THEN Configuration!idle ELSE y
    <3>1. commands' = [commands EXCEPT ![p] = z]
      BY <1>1 DEF Configuration!Start, c
    <3>2. /\ x.at = "init" /\ x.config = c
          /\ y.at = "run" /\ y.config = c /\ y.args = args /\ Configuration!idle.at = "idle"
      BY DEF Configuration!idle
    <3> HIDE DEF x, y
    <3> QED BY <3>1, <3>2
  <2>3. /\ commands'[p] = r /\ \A q \in Procs \ {p} : commands'[q] = commands[q]
        /\ commands' = [q \in Procs |-> commands'[q]]
    BY <2>2 DEF ConfigInv
  <2>4. UNCHANGED <<file, said>> /\ commands[p].at = "idle"
    BY <1>1 DEF Configuration!Start
  <2>5. \A q \in Procs : HasConfig(q)'
    BY <2>1, <2>2, <2>3 DEF ConfigInv, HasConfig
  <2>6. ASSUME NEW f \in Configuration!Fields \ unsure'
        PROVE  OneWrites' /\ (NoneSaves' => InFile(f)') /\ \A q \in Procs : InHand(q, f)'
    <3>1. \/ args.cmd = "work" /\ file # Configuration!NoFile /\ unsure' = unsure
          \/ ~(\E q \in Procs : Configuration!Writing(q)) /\ unsure' = unsure \cup DOMAIN env
      BY <1>1, <2>6 DEF Configuration!Start
    <3>2. f \notin unsure
      BY <3>1, <2>6
    <3>3. OneWrites'
      <4>1. \A q \in Procs \ {p} : Configuration!Writing(q)' = Configuration!Writing(q)
        BY <2>3, Zenon DEF Configuration!Writing
      <4>2. CASE args.cmd = "work" /\ file # Configuration!NoFile
        <5>1. ~Configuration!Writing(p)'
          BY <2>2, <2>3, <4>2 DEF Configuration!Writing
        <5> QED BY <3>2, <4>1, <5>1 DEF ConfigInv, OneWrites
      <4>3. CASE ~(\E q \in Procs : Configuration!Writing(q))
        BY <4>1, <4>3 DEF OneWrites
      <4> QED BY <3>1, <4>2, <4>3
    <3>4. NoneSaves => InFile(f)
      BY <3>2 DEF ConfigInv
    <3>5. NoneSaves' => NoneSaves
      BY <2>3, <2>4 DEF NoneSaves
    <3>6. InFile(f)' = InFile(f)
      BY <2>4, Zenon DEF InFile, SetIn, Configuration!loadYAMLFile
    <3>7. ASSUME NEW q \in Procs \ {p} PROVE InHand(q, f)'
      BY <2>3, <2>4, <3>2 DEF ConfigInv, InHand, SetIn
    <3>8. InHand(p, f)'
      <4>1. CASE r.at \notin {"init", "run"} \/ (r.at = "run" /\ args.cmd # "set")
        BY <2>2, <2>3, <4>1 DEF InHand
      <4>2. CASE r.at \in {"init", "run"} /\ (r.at = "run" => args.cmd = "set")
        <5>1. ~(\E q \in Procs : Configuration!Writing(q)) /\ f \notin DOMAIN env
          BY <2>2, <2>6, <3>1, <4>2
        <5>2. InFile(f)
          BY <3>4, <5>1 DEF NoneSaves, Configuration!Writing
        <5>3. c[f] = Filled(f, Configuration!loadYAMLFile[f])
          BY <2>1, <5>1
        <5>4. Filled(f, c[f]) = c[f]
          BY <5>3 DEF Filled, Configuration!defaultStateLocation
        <5>5. SetIn(c[f], f)
          BY <5>2, <5>3, <5>4 DEF InFile, SetIn
        <5> QED BY <2>2, <2>3, <2>4, <4>2, <5>2, <5>5 DEF InHand, InFile, SetIn
      <4> QED BY <2>2, <4>1, <4>2
    <3> QED BY <3>3, <3>4, <3>5, <3>6, <3>7, <3>8
  <2> QED BY <2>3, <2>4, <2>5, <2>6 DEF ConfigInv
<1>s. ASSUME NEW p \in Procs, NEW c, NEW sets, NEW after, Configuration!Save(p, c, sets, after),
             Configuration!Writing(p), commands[p].at # "saving",
             c = [f \in Configuration!Fields |-> c[f]],
             after.at \in {"idle", "run"}, after.at = "run" => after.config = c,
             \A f \in Configuration!Fields \ unsure :
                /\ IF f \in DOMAIN sets THEN c[f] = sets[f] ELSE SetIn(c[f], f)
                /\ after.at = "run" => SetIn(c[f], f),
             UNCHANGED <<said, unsure>>
      PROVE  ConfigInv'
  <2>1. PICK r : /\ commands' = [commands EXCEPT ![p] = r]
                 /\ \/ /\ file' = Configuration!Empty /\ r.at = "saving" /\ r.config = c
                       /\ r.sets = sets /\ r.after = after
                    \/ UNCHANGED file /\ r = after
    <3> DEFINE x == [at |-> "saving", config |-> c, sets |-> sets, after |-> after]
    <3>1. x.at = "saving" /\ x.config = c /\ x.sets = sets /\ x.after = after
      OBVIOUS
    <3>2. \/ file' = Configuration!Empty /\ commands' = [commands EXCEPT ![p] = x]
          \/ UNCHANGED file /\ commands' = [commands EXCEPT ![p] = after]
      BY <1>s DEF Configuration!Save
    <3> HIDE DEF x
    <3> QED BY <3>1, <3>2
  <2>2. /\ commands'[p] = r /\ \A q \in Procs \ {p} : commands'[q] = commands[q]
        /\ commands' = [q \in Procs |-> commands'[q]]
    BY <2>1 DEF ConfigInv
  <2>3. \A q \in Procs : HasConfig(q)'
    BY <1>s, <2>1, <2>2 DEF ConfigInv, HasConfig
  <2>4. ASSUME NEW f \in Configuration!Fields \ unsure'
        PROVE  OneWrites' /\ (NoneSaves' => InFile(f)') /\ \A q \in Procs : InHand(q, f)'
    <3>1. f \in Configuration!Fields \ unsure
      BY <1>s, <2>4
    <3>2. OneWrites /\ (NoneSaves => InFile(f)) /\ \A q \in Procs : InHand(q, f)
      BY <3>1 DEF ConfigInv
    <3>3. \A q \in Procs \ {p} : ~Configuration!Writing(q)
      BY <1>s, <3>2 DEF OneWrites
    <3>4. \A q \in Procs \ {p} : ~Configuration!Writing(q)'
      BY <2>2, <3>3 DEF Configuration!Writing
    <3>5. NoneSaves
      BY <1>s, <3>3 DEF NoneSaves, Configuration!Writing
    <3>6. ASSUME NEW q \in Procs \ {p} PROVE InHand(q, f)'
      BY <2>2, <3>3, <3>6 DEF InHand, Configuration!Writing
    <3>7. InHand(p, f)'
      BY <1>s, <2>1, <2>2, <3>1 DEF InHand, SetIn
    <3>8. NoneSaves' => InFile(f)'
      <4>1. NoneSaves' => UNCHANGED <<file, said>>
        BY <1>s, <2>1, <2>2 DEF NoneSaves
      <4> QED BY <3>2, <3>5, <4>1 DEF InFile, SetIn, Configuration!loadYAMLFile
    <3> QED BY <3>4, <3>6, <3>7, <3>8 DEF OneWrites
  <2> QED BY <1>s, <2>2, <2>3, <2>4 DEF ConfigInv
<1>2. ASSUME NEW p \in Procs, Configuration!Initialise(p)
      PROVE  ConfigInv'
  <2> DEFINE old == commands[p].config
  <2>1. PICK answer \in Answers :
           Configuration!Save(p, Configuration!userInitConfig(old, answer),
               IF answer = "" THEN Configuration!Empty ELSE [f \in {"Server"} |-> answer],
               IF commands[p].failed THEN Configuration!idle
               ELSE [at |-> "run", config |-> Configuration!userInitConfig(old, answer),
                     args |-> commands[p].args, env |-> commands[p].env])
    BY <1>2, Zenon DEF Configuration!Initialise
  <2> DEFINE c == Configuration!userInitConfig(old, answer)
             sets == IF answer = "" THEN Configuration!Empty ELSE [f \in {"Server"} |-> answer]
             after == IF commands[p].failed THEN Configuration!idle
                      ELSE [at |-> "run", config |-> c,
                            args |-> commands[p].args, env |-> commands[p].env]
  <2>2. commands[p].at = "init" /\ UNCHANGED <<said, unsure>>
    BY <1>2 DEF Configuration!Initialise
  <2>3. Configuration!Writing(p) /\ commands[p].at # "saving"
    BY <2>2 DEF Configuration!Writing
  <2>4. old = [f \in Configuration!Fields |-> old[f]]
    BY <2>2 DEF ConfigInv, HasConfig
  <2> HIDE DEF old
  <2>5. /\ c = [f \in Configuration!Fields |-> c[f]]
        /\ \A f \in Configuration!Fields : f \in DOMAIN sets => c[f] = sets[f]
    BY <2>4 DEF Configuration!userInitConfig, Configuration!Empty
  <2>6. after.at \in {"idle", "run"} /\ (after.at = "run" => after.config = c)
    <3> HIDE DEF c
    <3> QED BY DEF Configuration!idle
  <2>7. \A f \in Configuration!Fields \ unsure : SetIn(c[f], f)
    BY <2>2 DEF ConfigInv, InHand, SetIn
  <2>8. Configuration!Save(p, c, sets, after)
    BY <2>1
  <2> HIDE DEF c, sets, after
  <2> QED BY <1>s, <2>2, <2>3, <2>5, <2>6, <2>7, <2>8
<1>3. ASSUME NEW p \in Procs, Configuration!SousConfig(p)
      PROVE  ConfigInv'
  <2> DEFINE old == commands[p].config
             name == commands[p].args.name
             text == commands[p].args.value
             c == Configuration!SetValidValue(old, name, text)
             sets == [f \in Configuration!forFieldNamed(name) |-> text]
  <2>1. /\ commands[p].at = "run" /\ commands[p].args.cmd = "set"
        /\ UNCHANGED <<said, unsure>>
        /\ \/ commands' = [commands EXCEPT ![p] = Configuration!idle] /\ UNCHANGED file
           \/ ~Configuration!IsError(c) /\ Configuration!Save(p, c, sets, Configuration!idle)
    BY <1>3 DEF Configuration!SousConfig
  <2>2. Configuration!Writing(p)
    BY <2>1 DEF Configuration!Writing
  <2>3. CASE commands' = [commands EXCEPT ![p] = Configuration!idle] /\ UNCHANGED file
    <3>1. /\ commands'[p].at = "idle" /\ \A q \in Procs \ {p} : commands'[q] = commands[q]
          /\ commands' = [q \in Procs |-> commands'[q]]
      BY <2>3 DEF ConfigInv, Configuration!idle
    <3>2. \A q \in Procs : HasConfig(q)'
      BY <3>1 DEF ConfigInv, HasConfig
    <3>3. ASSUME NEW f \in Configuration!Fields \ unsure'
          PROVE  OneWrites' /\ (NoneSaves' => InFile(f)') /\ \A q \in Procs : InHand(q, f)'
      <4>1. OneWrites /\ (NoneSaves => InFile(f)) /\ \A q \in Procs : InHand(q, f)
        BY <2>1, <3>3 DEF ConfigInv
      <4>2. OneWrites'
        BY <3>1, <4>1 DEF OneWrites, Configuration!Writing
      <4>3. NoneSaves' => InFile(f)'
        BY <2>1, <2>3, <3>1, <4>1 DEF NoneSaves, InFile, SetIn, Configuration!loadYAMLFile
      <4>4. \A q \in Procs : InHand(q, f)'
        BY <2>1, <2>3, <3>1, <4>1 DEF InHand, SetIn
      <4> QED BY <4>2, <4>3, <4>4
    <3> QED BY <2>1, <3>1, <3>2, <3>3 DEF ConfigInv
  <2>4. CASE ~Configuration!IsError(c) /\ Configuration!Save(p, c, sets, Configuration!idle)
    <3>1. c = Configuration!SetValue(old, name, text)
      BY <2>4 DEF Configuration!SetValidValue, Configuration!IsError, Configuration!Error
    <3>2. c = [f \in Configuration!Fields |->
                  IF f \in Configuration!forFieldNamed(name) THEN text ELSE old[f]]
      BY <2>4, <3>1 DEF Configuration!SetValue, Configuration!IsError, Configuration!Error
    <3>3. \A f \in Configuration!Fields \ unsure : SetIn(old[f], f)
      BY <2>1 DEF ConfigInv, InHand
    <3> HIDE DEF c, old
    <3>4. \A f \in Configuration!Fields \ unsure :
             IF f \in DOMAIN sets THEN c[f] = sets[f] ELSE SetIn(c[f], f)
      BY <3>2, <3>3
    <3>5. c = [f \in Configuration!Fields |-> c[f]]
      BY <3>2
    <3>6. Configuration!idle.at = "idle"
      BY DEF Configuration!idle
    <3> HIDE DEF sets
    <3> QED BY <1>s, <2>1, <2>2, <2>4, <3>4, <3>5, <3>6
  <2> QED BY <2>1, <2>3, <2>4
<1>4. ASSUME NEW p \in Procs, Configuration!WriteFile(p)
      PROVE  ConfigInv'
  <2> DEFINE r == commands[p]
  <2>1. /\ r.at = "saving" /\ commands' = [commands EXCEPT ![p] = r.after]
        /\ \/ /\ file' = r.config \/ (file # Configuration!Empty /\ file' = Configuration!Broken)
              /\ said' = [f \in Configuration!Fields |->
                            IF f \in DOMAIN r.sets THEN r.sets[f] ELSE said[f]]
              /\ UNCHANGED unsure
           \/ unsure' = Configuration!Fields /\ UNCHANGED said
    BY <1>4 DEF Configuration!WriteFile
  <2>2. /\ commands'[p] = r.after /\ \A q \in Procs \ {p} : commands'[q] = commands[q]
        /\ commands' = [q \in Procs |-> commands'[q]]
    BY <2>1 DEF ConfigInv
  <2>3. HasConfig(p)
    BY DEF ConfigInv
  <2>4. \A q \in Procs : HasConfig(q)'
    BY <2>1, <2>2, <2>3 DEF ConfigInv, HasConfig
  <2>5. said' = [f \in Configuration!Fields |-> said'[f]]
    BY <2>1 DEF ConfigInv
  <2>6. ASSUME NEW f \in Configuration!Fields \ unsure'
        PROVE  OneWrites' /\ (NoneSaves' => InFile(f)') /\ \A q \in Procs : InHand(q, f)'
    <3>1. OneWrites /\ (\A q \in Procs : InHand(q, f)) /\ f \in Configuration!Fields \ unsure
      BY <2>1, <2>6 DEF ConfigInv
    <3>2. Configuration!Writing(p)
      BY <2>1 DEF Configuration!Writing
    <3>3. \A q \in Procs \ {p} : ~Configuration!Writing(q)
      BY <3>1, <3>2 DEF OneWrites
    <3>4. \A q \in Procs \ {p} : ~Configuration!Writing(q)'
      BY <2>2, <3>3 DEF Configuration!Writing
    <3>5. file' = r.config /\ f \in Configuration!Fields
          /\ said'[f] = IF f \in DOMAIN r.sets THEN r.sets[f] ELSE said[f]
      BY <2>1, <2>6, <3>1 DEF InHand
    <3>6. said'[f] # Configuration!Unsaid => Filled(f, r.config[f]) = Filled(f, said'[f])
      BY <2>1, <3>1, <3>5 DEF InHand, SetIn, Filled
    <3>7. InFile(f)'
      <4>1. r.config = [g \in Configuration!Fields |-> r.config[g]]
        BY <2>1, <2>3 DEF HasConfig
      <4> DEFINE c == r.config
      <4>2. Configuration!loadYAMLFile'[f] = c[f]
        <5>1. file' = c /\ c = [g \in Configuration!Fields |-> c[g]]
          BY <3>5, <4>1
        <5> HIDE DEF c
        <5> QED BY <3>5, <5>1 DEF Configuration!loadYAMLFile
      <4>3. file' \notin {Configuration!NoFile, Configuration!Broken}
        BY <3>5, <4>1, WholeIsRead
      <4> QED BY <3>6, <4>2, <4>3 DEF InFile, SetIn
    <3>8. ASSUME NEW q \in Procs \ {p} PROVE InHand(q, f)'
      BY <2>2, <3>3, <3>8 DEF InHand, Configuration!Writing
    <3>9. InHand(p, f)'
      <4>1. r.after.at \in {"idle", "run"} /\ (r.after.at = "run" => r.after.config = r.config)
        BY <2>1, <2>3 DEF HasConfig
      <4>2. commands'[p] = r.after
        BY <2>2
      <4> QED BY <3>6, <4>1, <4>2 DEF InHand, SetIn
    <3> QED BY <3>4, <3>7, <3>8, <3>9 DEF OneWrites
  <2> QED BY <2>2, <2>4, <2>5, <2>6 DEF ConfigInv
<1>5. ASSUME NEW p \in Procs, Configuration!Work(p) \/ Configuration!Exit(p)
      PROVE  ConfigInv'
  <2>1. PICK r : /\ commands' = [commands EXCEPT ![p] = r] /\ r.at \in {"works", "idle"}
                 /\ UNCHANGED <<file, said, unsure>>
                 /\ \/ commands[p].at = "run" /\ commands[p].args.cmd = "work"
                    \/ commands[p].at = "works"
    <3>1. CASE Configuration!Exit(p)
      BY <3>1 DEF Configuration!Exit, Configuration!idle
    <3>2. CASE Configuration!Work(p)
      <4> DEFINE works == [at |-> "works", config |-> commands[p].config, env |-> commands[p].env]
      <4>1. /\ commands' = [commands EXCEPT ![p] = works]
               \/ commands' = [commands EXCEPT ![p] = Configuration!idle]
            /\ commands[p].at = "run" /\ commands[p].args.cmd = "work"
            /\ UNCHANGED <<file, said, unsure>>
        BY <3>2 DEF Configuration!Work
      <4>2. Configuration!idle.at = "idle"
        BY DEF Configuration!idle
      <4>3. works.at = "works"
        OBVIOUS
      <4> HIDE DEF works
      <4> QED BY <4>1, <4>2, <4>3
    <3> QED BY <1>5, <3>1, <3>2
  <2>2. /\ commands'[p] = r /\ \A q \in Procs \ {p} : commands'[q] = commands[q]
        /\ commands' = [q \in Procs |-> commands'[q]]
    BY <2>1 DEF ConfigInv
  <2>3. \A q \in Procs : HasConfig(q)'
    BY <2>1, <2>2 DEF ConfigInv, HasConfig
  <2>4. ASSUME NEW f \in Configuration!Fields \ unsure'
        PROVE  OneWrites' /\ (NoneSaves' => InFile(f)') /\ \A q \in Procs : InHand(q, f)'
    <3>1. OneWrites /\ (NoneSaves => InFile(f)) /\ \A q \in Procs : InHand(q, f)
      BY <2>1, <2>4 DEF ConfigInv
    <3>2. OneWrites'
      BY <2>1, <2>2, <3>1 DEF OneWrites, Configuration!Writing
    <3>3. NoneSaves' => InFile(f)'
      BY <2>1, <2>2, <3>1 DEF NoneSaves, InFile, SetIn, Configuration!loadYAMLFile
    <3>4. \A q \in Procs : InHand(q, f)'
      BY <2>1, <2>2, <3>1 DEF InHand, SetIn
    <3> QED BY <3>2, <3>3, <3>4
  <2> QED BY <2>1, <2>2, <2>3, <2>4 DEF ConfigInv
<1>6. ASSUME NEW f \in Edited, NEW text \in {"one", "ftp"}, Configuration!Edit(f, text)
      PROVE  ConfigInv'
  <2>1. /\ file' = [g \in DOMAIN file \cup {f} |-> IF g = f THEN text ELSE file[g]]
        /\ said' = [said EXCEPT ![f] = text] /\ UNCHANGED commands
        /\ unsure' = IF \E q \in Procs : Configuration!Writing(q)
                     THEN Configuration!Fields ELSE unsure
        /\ file \notin {Configuration!NoFile, Configuration!Broken}
    BY <1>6 DEF Configuration!Edit
  <2>2. said' = [g \in Configuration!Fields |-> said'[g]]
    BY <2>1 DEF ConfigInv
  <2>3. \A q \in Procs : HasConfig(q)'
    BY <2>1 DEF ConfigInv, HasConfig
  <2>4. ASSUME NEW g \in Configuration!Fields \ unsure'
        PROVE  OneWrites' /\ (NoneSaves' => InFile(g)') /\ \A q \in Procs : InHand(q, g)'
    <3>1. OneWrites /\ (NoneSaves => InFile(g)) /\ (\A q \in Procs : ~Configuration!Writing(q))
      BY <2>1, <2>4 DEF ConfigInv
    <3>2. NoneSaves
      BY <3>1 DEF NoneSaves, Configuration!Writing
    <3>3. \A q \in Procs : InHand(q, g)'
      BY <2>1, <3>1 DEF InHand, Configuration!Writing
    <3>4. OneWrites'
      BY <2>1, <3>1 DEF OneWrites, Configuration!Writing
    <3>5. file' \notin {Configuration!NoFile, Configuration!Broken}
      <4>1. f \in DOMAIN file' /\ f \in Configuration!Fields
        BY <1>6, <2>1, ConfigAssumption DEF Configuration!EditedAssumption
      <4>2. f \notin {"missing", "broken"}
        BY <4>1, FieldNames
      <4> QED BY <4>1, <4>2 DEF Configuration!NoFile, Configuration!Broken
    <3>6. SetIn(Configuration!loadYAMLFile[g], g)'
      BY <2>1, <2>4, <3>1, <3>2 DEF ConfigInv, InFile, SetIn, Filled, Configuration!loadYAMLFile
    <3> QED BY <3>3, <3>4, <3>5, <3>6 DEF InFile
  <2> QED BY <2>1, <2>2, <2>3, <2>4 DEF ConfigInv
<1>7. CASE UNCHANGED configVars
  BY <1>7 DEF configVars, ConfigInv, HasConfig, InFile, SetIn, InHand, OneWrites, NoneSaves,
              Configuration!Writing, Configuration!loadYAMLFile
<1> QED BY <1>1, <1>2, <1>3, <1>4, <1>5, <1>6, <1>7 DEF Configuration!Next

(* What the user has set in the configuration is what the next command      *)
(* loads, whatever else was set since (local_config.go), if the file was    *)
(* written by one after the other, without failing, and the field was not   *)
(* overridden by a writer's environment; for any number of commands, any    *)
(* environments and any values.                                             *)
THEOREM SetIsKeptAlways == Spec => []SetIsKept
<1>1. Init => ConfigInv
  BY DEF Init, Configuration!Init, ConfigInv, HasConfig, InFile, SetIn, InHand, OneWrites, NoneSaves,
         Configuration!Writing, Configuration!idle
<1>2. ConfigInv /\ [Next]_vars => ConfigInv'
  BY ConfigNext, PartSteps
<1>3. ConfigInv => SetIsKept
  <2> SUFFICES ASSUME ConfigInv, NoneSaves, NEW f \in Configuration!Fields,
                      said[f] # Configuration!Unsaid, f \notin unsure
               PROVE  /\ file \notin {Configuration!NoFile, Configuration!Broken}
                      /\ Configuration!FillDefaults(Configuration!loadYAMLFile)[f]
                             = Configuration!FillDefaults(Configuration!Asked)[f]
    BY DEF SetIsKept, Configuration!SetIsKept, NoneSaves
  <2>1. InFile(f)
    BY DEF ConfigInv
  <2>2. /\ Configuration!FillDefaults(Configuration!loadYAMLFile)[f]
              = Filled(f, Configuration!loadYAMLFile[f])
        /\ Configuration!FillDefaults(Configuration!Asked)[f] = Filled(f, Configuration!Asked[f])
    BY FilledIs DEF Configuration!loadYAMLFile, Configuration!Asked
  <2>3. Configuration!Asked[f] = said[f]
    BY DEF Configuration!Asked
  <2> QED BY <2>1, <2>2, <2>3 DEF InFile, SetIn
<1> QED
  BY <1>1, <1>2, <1>3, PTL DEF Spec

----------------------------------------------------------------------------
(* Builds (ext/docker/build.go, build_manager.go).                          *)

(* An image was stamped when it was labelled, and is labelled with the      *)
(* version of its tag if the tag names one: that of a revision has a part   *)
(* more.                                                                    *)
Labels(images, n) ==
    \A t \in DOMAIN images :
        /\ images[t].stamp \in Nat /\ images[t].stamp =< n
        /\ Len(t) = 2 => t[2] = images[t].source.version

(* No tag has gone back to an image that was labelled before.               *)
NotOlder(old, new) ==
    \A t \in DOMAIN old : t \in DOMAIN new /\ new[t].stamp >= old[t].stamp

(* Both names of every product are tags of the daemon by the time the first *)
(* is pushed, and the version's is one of the registry's from its push to   *)
(* its recording; under it is the product's image or one labelled since.    *)
Early == {"start", "dockerfile", "split", "extract", "runnables"}
Looping == {"label", "push", "pushrev", "pushfailed", "record"}
InDaemon(b, i) ==
    /\ i \in 1..Len(stamps[b])
    /\ {Builder!VersionTag(prods[b][i]), Builder!RevisionTag(b, prods[b][i])} \subseteq DOMAIN local
    /\ local[Builder!VersionTag(prods[b][i])].stamp >= stamps[b][i]
InRegistry(b, i) ==
    /\ Builder!VersionTag(prods[b][i]) \in DOMAIN registry
    /\ registry[Builder!VersionTag(prods[b][i])].stamp >= stamps[b][i]
Progress(b) ==
    /\ stamps[b] \in Seq(Nat)
    /\ pc[b] \in Early => stamps[b] = <<>>
    /\ pc[b] \in Looping =>
        /\ Len(prods[b]) \in Nat /\ at[b] \in 1..Len(prods[b])
        /\ pc[b] = "label" => Len(stamps[b]) = at[b] - 1
        /\ \A i \in 1..Len(prods[b]) : pc[b] # "label" \/ i < at[b] => InDaemon(b, i)
        /\ pc[b] \in {"pushrev", "record"} => InRegistry(b, at[b])

Recorded ==
    \A r \in inserted :
        /\ r.name \in DOMAIN registry /\ r.stamp \in Nat /\ registry[r.name].stamp >= r.stamp
        /\ Len(r.name) = 2 /\ r.name[2] = r.source.version

BuildInv ==
    /\ pc = [b \in Builds |-> pc[b]] /\ prods = [b \in Builds |-> prods[b]]
    /\ at = [b \in Builds |-> at[b]] /\ stamps = [b \in Builds |-> stamps[b]]
    /\ \A b \in Builds : in[b] \in Inputs[b]
    /\ labelled \in Nat /\ Labels(local, labelled) /\ Labels(registry, labelled)
    /\ NotOlder(registry, local) /\ Recorded
    /\ \A b \in Builds : Progress(b)

(* What a build makes is at least one product, in a sequence.               *)
LEMMA ProductsAreThere ==
    ASSUME BuildInv, NEW b \in Builds,
           NEW products \in {Builder!DockerfileProducts(b), Builder!SplitProducts(b)}
    PROVE  Len(products) \in Nat /\ 1 \in 1..Len(products)
<1>1. CASE products = Builder!DockerfileProducts(b)
  <2>1. \E p : products = <<p>>
    BY <1>1, Zenon DEF Builder!DockerfileProducts
  <2> QED BY <2>1
<1>2. CASE products = Builder!SplitProducts(b)
  <2> DEFINE images == Builder!Normalized(in[b].df.spec)
             all == Builder!ToSet(images)
             P(x) == Builder!Product(b, [Builder!VersionOf(ctx[b].source) EXCEPT !.dir = x.offset],
                         x.kind, Builder!productAdvisories(x.kind, ctx[b].advisories))
             Q == Builder!Product(b, [Builder!VersionOf(ctx[b].source) EXCEPT !.repo = ""],
                      "builder", ctx[b].advisories \cup {"IsBuilder", "NotService"})
             S == {P(x) : x \in all} \cup {Q}
             mine == [i \in DOMAIN images |-> P(images[i])]
  <2>1. images \in Seq(all)
    <3>1. \A list \in {in[b].df.spec.legacy, in[b].df.spec.images} :
              list \in Seq(Builder!ToSet(list))
      BY BuilderAssumption DEF Builder!BuildsAssumption, BuildInv
    <3>2. images \in {in[b].df.spec.legacy, in[b].df.spec.images}
      BY DEF Builder!Normalized
    <3> QED BY <3>1, <3>2
  <2>5. products = mine \o <<Q>>
    BY <1>2, Zenon DEF Builder!SplitProducts
  <2> HIDE DEF P, Q, images, all
  <2>2. DOMAIN images = 1..Len(images) /\ Len(images) \in Nat
        /\ \A i \in 1..Len(images) : images[i] \in all
    BY <2>1, LenProperties, ElementOfSeq
  <2>3. mine \in Seq(S) /\ Len(mine) = Len(images)
    <3>1. \A i \in 1..Len(images) : P(images[i]) \in S
      BY <2>2
    <3> HIDE DEF S
    <3> QED BY <2>2, <3>1, IsASeq
  <2>4. <<Q>> \in Seq(S) /\ Len(<<Q>>) = 1
    OBVIOUS
  <2> HIDE DEF S, mine
  <2>6. Len(products) = Len(images) + 1
    BY <2>3, <2>4, <2>5, ConcatProperties
  <2> QED BY <2>2, <2>6
<1> QED BY <1>1, <1>2

(* Labelling a product names it to the daemon as its labels say, and puts   *)
(* the newest of all images under both names.                               *)
LEMMA LabellingKeepsLabels ==
    ASSUME labelled \in Nat, Labels(local, labelled), NEW b \in Builds,
           NEW both, both = {Builder!VersionTag(prods[b][at[b]]),
                             Builder!RevisionTag(b, prods[b][at[b]])},
           local' = [t \in DOMAIN local \cup both |->
                        IF t \in both THEN Builder!Labelled(b, at[b]) ELSE local[t]]
    PROVE  /\ Labels(local', labelled + 1) /\ DOMAIN local' = DOMAIN local \cup both
           /\ NotOlder(local, local') /\ \A t \in both : local'[t].stamp = labelled + 1
<1> DEFINE source == prods[b][at[b]].source
           image == Builder!Labelled(b, at[b])
<1>1. image.source = source /\ image.stamp = labelled + 1
  BY DEF Builder!Labelled
<1>2. ASSUME NEW t \in both
      PROVE  Len(t) = 2 => t[2] = source.version
  <2>1. \/ \E k : t = <<k, source.version>>
        \/ \E k, r, n : t = <<k, r, n>>
    BY Zenon DEF Builder!VersionTag, Builder!RevisionTag
  <2> HIDE DEF source
  <2> QED BY <2>1
<1> HIDE DEF source, image
<1>3. /\ DOMAIN local' = DOMAIN local \cup both
      /\ \A t \in both : local'[t] = image
      /\ \A t \in DOMAIN local \ both : local'[t] = local[t]
  BY DEF image
<1>4. NotOlder(local, local')
  BY <1>1, <1>3 DEF NotOlder, Labels
<1>5. ASSUME NEW t \in DOMAIN local'
      PROVE  /\ local'[t].stamp \in Nat /\ local'[t].stamp =< labelled + 1
             /\ Len(t) = 2 => t[2] = local'[t].source.version
  <2>1. CASE t \in both
    BY <1>1, <1>2, <1>3, <2>1
  <2>2. CASE t \in DOMAIN local \ both
    BY <1>3, <2>2 DEF Labels
  <2> QED BY <1>3, <2>1, <2>2
<1> QED BY <1>1, <1>3, <1>4, <1>5 DEF Labels

(* A push takes to the registry what the daemon has, which is no older.     *)
LEMMA PushingKeepsLabels ==
    ASSUME Labels(local, labelled), Labels(registry, labelled), NotOlder(registry, local),
           NEW t \in DOMAIN local, Builder!Pushed(t)
    PROVE  /\ Labels(registry', labelled) /\ NotOlder(registry, registry')
           /\ NotOlder(registry', local)
           /\ t \in DOMAIN registry' /\ registry'[t] = local[t]
<1>1. /\ DOMAIN registry' = DOMAIN registry \cup {t} /\ registry'[t] = local[t]
      /\ \A u \in DOMAIN registry \ {t} : registry'[u] = registry[u]
  BY DEF Builder!Pushed
<1> QED BY <1>1 DEF Labels, NotOlder

(* A step of one build keeps all of it, for all of them.                    *)
LEMMA BuildStep ==
    ASSUME BuildInv, NEW b \in Builds,
           \/ Builder!Prepare(b) \/ Builder!GatherFails(b) \/ Builder!BuildDockerfile(b)
           \/ Builder!BuildBuild(b) \/ Builder!Extract(b) \/ Builder!BuildRunnables(b)
           \/ Builder!ApplyMetadata(b) \/ Builder!PushVersion(b) \/ Builder!PushRevision(b)
           \/ Builder!RecordName(b)
    PROVE  BuildInv'
<1>d. ASSUME prods' = prods, Labels(local, labelled), Labels(local', labelled'), NotOlder(local, local'),
             NEW c \in Builds, NEW i, stamps[c] \in Seq(Nat), InDaemon(c, i),
             i \in 1..Len(stamps'[c]), stamps'[c][i] = stamps[c][i]
      PROVE  InDaemon(c, i)'
  <2> DEFINE v == Builder!VersionTag(prods[c][i])
             w == Builder!RevisionTag(c, prods[c][i])
  <2>1. v' = v /\ w' = w
    BY <1>d DEF Builder!VersionTag, Builder!RevisionTag
  <2>2. v \in DOMAIN local /\ w \in DOMAIN local /\ local[v].stamp >= stamps[c][i]
        /\ stamps[c][i] \in Nat
    BY <1>d, ElementOfSeq DEF InDaemon
  <2> HIDE DEF v, w
  <2>3. v \in DOMAIN local' /\ w \in DOMAIN local' /\ local'[v].stamp >= stamps'[c][i]
    BY <1>d, <2>2 DEF NotOlder, Labels
  <2> QED BY <1>d, <2>1, <2>3 DEF InDaemon, v, w
<1>s. \A c \in Builds : stamps[c] \in Seq(Nat)
  BY DEF BuildInv, Progress
<1>0. ASSUME pc' = [pc EXCEPT ![b] = pc'[b]], in' = in, prods' = [prods EXCEPT ![b] = prods'[b]],
             at' = [at EXCEPT ![b] = at'[b]], stamps' = [stamps EXCEPT ![b] = stamps'[b]],
             labelled' \in Nat, Labels(local', labelled'), NotOlder(local, local'),
             Labels(registry', labelled'), NotOlder(registry, registry'),
             NotOlder(registry', local'), Recorded', Progress(b)'
      PROVE  BuildInv'
  <2>1. ASSUME NEW c \in Builds PROVE Progress(c)'
    <3>1. CASE c = b
      BY <1>0, <3>1
    <3>2. CASE c # b
      <4>1. pc'[c] = pc[c] /\ prods'[c] = prods[c] /\ at'[c] = at[c] /\ stamps'[c] = stamps[c]
        BY <1>0, <3>2 DEF BuildInv
      <4>2. Progress(c) /\ stamps[c] \in Seq(Nat)
        BY DEF BuildInv, Progress
      <4>3. ASSUME NEW i, InDaemon(c, i) PROVE InDaemon(c, i)'
        <5> DEFINE v == Builder!VersionTag(prods[c][i])
                   w == Builder!RevisionTag(c, prods[c][i])
        <5>1. v' = v /\ w' = w
          BY <4>1 DEF Builder!VersionTag, Builder!RevisionTag
        <5>2. v \in DOMAIN local /\ w \in DOMAIN local /\ local[v].stamp >= stamps[c][i]
              /\ stamps[c][i] \in Nat /\ i \in 1..Len(stamps[c])
          BY <4>2, <4>3, ElementOfSeq DEF InDaemon
        <5> HIDE DEF v, w
        <5>3. v \in DOMAIN local' /\ w \in DOMAIN local' /\ local'[v].stamp >= stamps[c][i]
          BY <1>0, <5>2 DEF NotOlder, Labels, BuildInv
        <5> QED BY <4>1, <5>1, <5>2, <5>3 DEF InDaemon, v, w
      <4>4. ASSUME NEW i \in 1..Len(stamps[c]), InRegistry(c, i) PROVE InRegistry(c, i)'
        <5> DEFINE v == Builder!VersionTag(prods[c][i])
        <5>1. v' = v
          BY <4>1 DEF Builder!VersionTag
        <5>2. v \in DOMAIN registry /\ registry[v].stamp >= stamps[c][i] /\ stamps[c][i] \in Nat
          BY <4>2, <4>4, ElementOfSeq DEF InRegistry
        <5> HIDE DEF v
        <5>3. v \in DOMAIN registry' /\ registry'[v].stamp >= stamps[c][i]
          BY <1>0, <5>2 DEF NotOlder, Labels, BuildInv
        <5> QED BY <4>1, <5>1, <5>3 DEF InRegistry, v
      <4>5. pc[c] \in {"pushrev", "record"} => at[c] \in 1..Len(stamps[c])
        BY <4>2 DEF Progress, Looping, InDaemon
      <4> QED
        BY <4>1, <4>2, <4>3, <4>4, <4>5 DEF Progress
    <3> QED BY <3>1, <3>2
  <2>2. /\ pc' = [c \in Builds |-> pc'[c]] /\ prods' = [c \in Builds |-> prods'[c]]
        /\ at' = [c \in Builds |-> at'[c]] /\ stamps' = [c \in Builds |-> stamps'[c]]
        /\ \A c \in Builds : in'[c] \in Inputs[c]
    BY <1>0 DEF BuildInv
  <2> QED BY <1>0, <2>1, <2>2 DEF BuildInv, Labels, NotOlder
<1>k. \A images, n : n \in Nat /\ Labels(images, n) => NotOlder(images, images)
  BY DEF Labels, NotOlder
<1>e. ASSUME UNCHANGED <<in, local, registry, inserted, labelled>>
      PROVE  /\ in' = in /\ labelled' \in Nat
             /\ Labels(local', labelled') /\ NotOlder(local, local')
             /\ Labels(registry', labelled') /\ NotOlder(registry, registry')
             /\ NotOlder(registry', local') /\ Recorded'
  <2>1. Labels(local, labelled) /\ Labels(registry, labelled) /\ NotOlder(registry, local)
        /\ labelled \in Nat /\ Recorded
    BY DEF BuildInv
  <2>2. NotOlder(local, local) /\ NotOlder(registry, registry)
    BY <2>1, <1>k
  <2>3. Recorded'
    BY <1>e, <2>1 DEF Recorded
  <2> QED BY <1>e, <2>1, <2>2, <2>3 DEF Labels, NotOlder
<1>f. ASSUME Builder!Fails(b), UNCHANGED <<in, prods, at, local, registry, inserted, labelled, stamps>>
      PROVE  BuildInv'
  <2>1. pc' = [pc EXCEPT ![b] = "failed"]
    BY <1>f DEF Builder!Fails, Builder!Goto
  <2>2. pc'[b] = "failed"
    BY <2>1 DEF BuildInv
  <2>3. Progress(b)'
    BY <1>f, <1>s, <2>2 DEF Progress, Looping, Early
  <2>4. pc' = [pc EXCEPT ![b] = pc'[b]] /\ prods' = [prods EXCEPT ![b] = prods'[b]]
        /\ at' = [at EXCEPT ![b] = at'[b]] /\ stamps' = [stamps EXCEPT ![b] = stamps'[b]]
    BY <1>f, <2>1 DEF BuildInv
  <2> QED BY <1>0, <1>e, <1>f, <2>3, <2>4
<1>1. CASE Builder!Prepare(b)
  <2>0. pc[b] = "start"
    BY <1>1, Zenon DEF Builder!Prepare
  <2>1. PICK step \in {"failed", "split", "dockerfile"} : pc' = [pc EXCEPT ![b] = step]
    <3>1. \E pack \in {"split", "dockerfile", "none"} :
              \/ pack # "none" /\ pc' = [pc EXCEPT ![b] = pack]
              \/ pc' = [pc EXCEPT ![b] = "failed"]
      BY <1>1, Zenon DEF Builder!Prepare, Builder!Goto, Builder!SelectBuildpack
    <3> QED BY <3>1
  <2>4. UNCHANGED <<in, prods, at, local, registry, inserted, labelled, stamps>>
    BY <1>1, Zenon DEF Builder!Prepare
  <2>2. pc'[b] \notin Looping
    BY <2>1 DEF BuildInv, Looping
  <2>3. Progress(b)'
    BY <2>0, <2>2, <2>4 DEF BuildInv, Progress, Early
  <2>5. pc' = [pc EXCEPT ![b] = pc'[b]] /\ prods' = [prods EXCEPT ![b] = prods'[b]]
        /\ at' = [at EXCEPT ![b] = at'[b]] /\ stamps' = [stamps EXCEPT ![b] = stamps'[b]]
    BY <2>1, <2>4 DEF BuildInv
  <2> QED BY <1>0, <1>e, <2>3, <2>4, <2>5
<1>b. ASSUME NEW products \in {Builder!DockerfileProducts(b), Builder!SplitProducts(b)},
             pc[b] \in Early, Builder!Built(b, products), Builder!Goto(b, "label"),
             UNCHANGED <<in, local, registry, inserted, labelled, stamps>>
      PROVE  BuildInv'
  <2>1. Len(products) \in Nat /\ 1 \in 1..Len(products)
    BY ProductsAreThere
  <2>2. /\ pc' = [pc EXCEPT ![b] = "label"] /\ prods' = [prods EXCEPT ![b] = products]
        /\ at' = [at EXCEPT ![b] = 1]
    BY <1>b DEF Builder!Built, Builder!Goto
  <2>3. pc'[b] = "label" /\ prods'[b] = products /\ at'[b] = 1
    BY <2>2 DEF BuildInv
  <2>6. stamps'[b] = <<>>
    BY <1>b DEF BuildInv, Progress
  <2>4. Progress(b)'
    <3>1. Len(stamps'[b]) = at'[b] - 1 /\ stamps'[b] \in Seq(Nat)
      BY <2>3, <2>6
    <3>2. \A i \in 1..Len(prods'[b]) : ~(i < at'[b])
      BY <2>1, <2>3
    <3> QED BY <2>1, <2>3, <3>1, <3>2 DEF Progress, Looping, Early
  <2>5. pc' = [pc EXCEPT ![b] = pc'[b]] /\ prods' = [prods EXCEPT ![b] = prods'[b]]
        /\ at' = [at EXCEPT ![b] = at'[b]] /\ stamps' = [stamps EXCEPT ![b] = stamps'[b]]
    BY <1>b, <2>2 DEF BuildInv
  <2> QED BY <1>0, <1>b, <1>e, <2>4, <2>5
<1>2. CASE Builder!GatherFails(b)
  BY <1>f, <1>2 DEF Builder!GatherFails
<1>3. CASE Builder!BuildDockerfile(b)
  BY <1>b, <1>f, <1>3, Zenon DEF Builder!BuildDockerfile, Early
<1>4. CASE Builder!BuildBuild(b) \/ Builder!Extract(b)
  <2>0. UNCHANGED <<in, prods, at, local, registry, inserted, labelled, stamps>>
        /\ pc[b] \in {"split", "extract"}
    BY <1>4, Zenon DEF Builder!BuildBuild, Builder!Extract
  <2>1. CASE Builder!Fails(b)
    BY <1>f, <2>0, <2>1
  <2>2. CASE ~Builder!Fails(b)
    <3>1. \E step \in {"extract", "runnables", "failed"} : Builder!Goto(b, step)
      BY <1>4, <2>2, Zenon DEF Builder!BuildBuild, Builder!Extract
    <3>2. pc' = [pc EXCEPT ![b] = pc'[b]] /\ pc'[b] \notin Looping
      BY <3>1 DEF Builder!Goto, BuildInv, Looping
    <3>3. Progress(b)'
      BY <2>0, <3>2 DEF BuildInv, Progress, Early
    <3>4. prods' = [prods EXCEPT ![b] = prods'[b]]
          /\ at' = [at EXCEPT ![b] = at'[b]] /\ stamps' = [stamps EXCEPT ![b] = stamps'[b]]
      BY <2>0 DEF BuildInv
    <3> QED BY <1>0, <1>e, <2>0, <3>2, <3>3, <3>4
  <2> QED BY <2>1, <2>2
<1>5. CASE Builder!BuildRunnables(b)
  BY <1>b, <1>f, <1>5, Zenon DEF Builder!BuildRunnables, Early
<1>6. CASE Builder!ApplyMetadata(b)
  <2>0. pc[b] = "label" /\ UNCHANGED <<in, prods, registry, inserted>>
    BY <1>6 DEF Builder!ApplyMetadata
  <2>1. CASE Builder!Fails(b) /\ UNCHANGED <<local, labelled, stamps, at>>
    BY <1>f, <2>0, <2>1
  <2>2. CASE ~(Builder!Fails(b) /\ UNCHANGED <<local, labelled, stamps, at>>)
    <3> DEFINE both == {Builder!VersionTag(prods[b][at[b]]),
                        Builder!RevisionTag(b, prods[b][at[b]])}
               v == Builder!VersionTag(prods[b][at[b]])
    <3>1. /\ local' = [t \in DOMAIN local \cup both |->
                          IF t \in both THEN Builder!Labelled(b, at[b]) ELSE local[t]]
          /\ Builder!Next1(b, "label", "push") /\ labelled' = labelled + 1
          /\ stamps' = [stamps EXCEPT ![b] = Append(@, labelled + 1)]
      BY <1>6, <2>2 DEF Builder!ApplyMetadata
    <3>2. /\ Labels(local', labelled') /\ DOMAIN local' = DOMAIN local \cup both
          /\ NotOlder(local, local') /\ \A t \in both : local'[t].stamp = labelled + 1
      BY <3>1, LabellingKeepsLabels DEF BuildInv
    <3>4. Progress(b) /\ labelled \in Nat /\ stamps[b] \in Seq(Nat)
      BY <1>s DEF BuildInv
    <3>5. /\ Len(prods[b]) \in Nat /\ at[b] \in 1..Len(prods[b])
          /\ Len(stamps[b]) = at[b] - 1
          /\ \A i \in 1..Len(prods[b]) : i < at[b] => InDaemon(b, i)
      BY <2>0, <3>4 DEF Progress, Looping
    <3>a. stamps'[b] = Append(stamps[b], labelled + 1)
      BY <3>1 DEF BuildInv
    <3>b. /\ stamps'[b] \in Seq(Nat) /\ Len(stamps'[b]) = at[b]
          /\ \A i \in 1..Len(stamps[b]) : stamps'[b][i] = stamps[b][i]
          /\ stamps'[b][at[b]] = labelled + 1
      BY <3>4, <3>5, <3>a, AppendProperties
    <3>3. \A i \in Nat : i = at[b] => InDaemon(b, i)'
      <4>1. both \subseteq DOMAIN local' /\ prods' = prods /\ v \in both
        BY <2>0, <3>2
      <4>2. local'[v].stamp = labelled + 1
        BY <3>2, <4>1
      <4>3. at[b] \in 1..Len(stamps'[b]) /\ labelled + 1 >= labelled + 1
        BY <3>4, <3>5, <3>b
      <4> QED BY <3>b, <4>1, <4>2, <4>3 DEF InDaemon, Builder!VersionTag, Builder!RevisionTag
    <3>6. \A i \in 1..Len(prods[b]) : i <= at[b] => InDaemon(b, i)'
      <4> TAKE i \in 1..Len(prods[b])
      <4>1. CASE i < at[b]
        <5>1. i \in 1..Len(stamps'[b]) /\ stamps'[b][i] = stamps[b][i]
          BY <3>5, <3>b, <4>1
        <5>2. InDaemon(b, i) /\ Labels(local, labelled)
          BY <3>5, <4>1 DEF BuildInv
        <5> QED BY <1>d, <2>0, <3>2, <3>4, <5>1, <5>2
      <4>2. CASE i = at[b]
        BY <3>3, <4>2
      <4> QED BY <3>5, <4>1, <4>2
    <3>7. \/ /\ at[b] < Len(prods[b]) /\ at' = [at EXCEPT ![b] = @ + 1]
             /\ pc' = [pc EXCEPT ![b] = "label"]
          \/ /\ ~(at[b] < Len(prods[b])) /\ at' = [at EXCEPT ![b] = 1]
             /\ pc' = [pc EXCEPT ![b] = "push"]
      BY <3>1 DEF Builder!Next1, Builder!Goto
    <3>8. Progress(b)'
      <4>1. \/ at[b] < Len(prods[b]) /\ at'[b] = at[b] + 1 /\ pc'[b] = "label"
            \/ ~(at[b] < Len(prods[b])) /\ at'[b] = 1 /\ pc'[b] = "push"
        BY <3>7 DEF BuildInv
      <4>2. prods' = prods
        BY <2>0
      <4>3. /\ Len(prods'[b]) \in Nat /\ at'[b] \in 1..Len(prods'[b])
            /\ pc'[b] = "label" => Len(stamps'[b]) = at'[b] - 1
        BY <3>5, <3>b, <4>1, <4>2
      <4>4. \A i \in 1..Len(prods'[b]) : pc'[b] # "label" \/ i < at'[b] => InDaemon(b, i)'
        BY <3>5, <3>6, <4>1, <4>2
      <4>5. pc'[b] \in {"label", "push"} /\ stamps'[b] \in Seq(Nat)
        BY <3>b, <4>1
      <4> QED BY <4>3, <4>4, <4>5 DEF Progress, Early
    <3>9. pc' = [pc EXCEPT ![b] = pc'[b]] /\ at' = [at EXCEPT ![b] = at'[b]]
          /\ prods' = [prods EXCEPT ![b] = prods'[b]]
          /\ stamps' = [stamps EXCEPT ![b] = stamps'[b]]
      BY <2>0, <3>1, <3>7, <3>a DEF BuildInv
    <3>c. /\ labelled' \in Nat /\ Labels(registry', labelled') /\ NotOlder(registry, registry')
          /\ NotOlder(registry', local')
      <4>1. Labels(registry, labelled) /\ Labels(local, labelled) /\ NotOlder(registry, local)
        BY DEF BuildInv
      <4>2. Labels(registry', labelled')
        BY <2>0, <3>1, <3>4, <4>1 DEF Labels
      <4>3. NotOlder(registry', local')
        BY <2>0, <3>2, <4>1 DEF NotOlder, Labels
      <4> QED BY <1>k, <2>0, <3>1, <3>4, <4>1, <4>2, <4>3
    <3>d. Recorded'
      BY <2>0 DEF BuildInv, Recorded
    <3> QED BY <1>0, <2>0, <3>2, <3>8, <3>9, <3>c, <3>d
  <2> QED BY <2>1, <2>2
<1>p. ASSUME NEW tag, tag = Builder!VersionTag(prods[b][at[b]])
                      \/ tag = Builder!RevisionTag(b, prods[b][at[b]]),
             pc[b] \in Looping \ {"label"}, Builder!Pushed(tag),
             UNCHANGED <<in, prods, local, inserted, labelled, stamps>>
      PROVE  /\ in' = in /\ labelled' \in Nat
             /\ Labels(local', labelled') /\ NotOlder(local, local')
             /\ Labels(registry', labelled') /\ NotOlder(registry, registry')
             /\ NotOlder(registry', local') /\ Recorded'
             /\ tag \in DOMAIN registry' /\ registry'[tag] = local[tag]
  <2>1. tag \in DOMAIN local
    BY <1>p DEF BuildInv, Progress, InDaemon
  <2>2. Labels(local, labelled) /\ Labels(registry, labelled) /\ NotOlder(registry, local)
        /\ labelled \in Nat /\ Recorded
    BY DEF BuildInv
  <2>3. /\ Labels(registry', labelled) /\ NotOlder(registry, registry')
        /\ NotOlder(registry', local)
        /\ tag \in DOMAIN registry' /\ registry'[tag] = local[tag]
    BY <1>p, <2>1, <2>2, PushingKeepsLabels
  <2>4. NotOlder(local, local)
    BY <1>k, <2>2
  <2>5. Recorded'
    BY <1>p, <2>2, <2>3 DEF Recorded, Labels, NotOlder
  <2> QED BY <1>p, <2>2, <2>3, <2>4, <2>5
<1>q. ASSUME UNCHANGED <<prods, local, labelled, stamps>>, pc[b] \in Looping \ {"label"}
      PROVE  /\ stamps'[b] \in Seq(Nat) /\ Len(prods[b]) \in Nat /\ at[b] \in 1..Len(prods[b])
             /\ \A i \in 1..Len(prods[b]) : InDaemon(b, i) /\ InDaemon(b, i)'
  <2>1. Progress(b)
    BY DEF BuildInv
  <2>2. ASSUME NEW i, InDaemon(b, i) PROVE InDaemon(b, i)'
    BY <1>q, <2>2 DEF InDaemon, Builder!VersionTag, Builder!RevisionTag
  <2> QED BY <1>q, <2>1, <2>2 DEF Progress
<1>7. CASE Builder!PushVersion(b)
  <2> DEFINE tag == Builder!VersionTag(prods[b][at[b]])
  <2>1. /\ pc[b] = "push" /\ UNCHANGED <<in, prods, at, local, inserted, labelled, stamps>>
        /\ \/ Builder!Pushed(tag) /\ pc' = [pc EXCEPT ![b] = "pushrev"]
           \/ UNCHANGED registry /\ pc' = [pc EXCEPT ![b] = "pushfailed"]
    BY <1>7 DEF Builder!PushVersion, Builder!Goto
  <2>2. pc[b] \in Looping \ {"label"}
    BY <2>1 DEF Looping
  <2>3. /\ in' = in /\ labelled' \in Nat
        /\ Labels(local', labelled') /\ NotOlder(local, local')
        /\ Labels(registry', labelled') /\ NotOlder(registry, registry')
        /\ NotOlder(registry', local') /\ Recorded'
        /\ Builder!Pushed(tag) => tag \in DOMAIN registry' /\ registry'[tag] = local[tag]
    <3>1. CASE Builder!Pushed(tag)
      BY <1>p, <2>1, <2>2, <3>1
    <3>2. CASE UNCHANGED registry /\ ~Builder!Pushed(tag)
      BY <1>e, <2>1, <3>2
    <3> QED BY <2>1, <3>1, <3>2
  <2>4. Progress(b)'
    <3>1. \/ pc'[b] = "pushrev" /\ tag \in DOMAIN registry' /\ registry'[tag] = local[tag]
          \/ pc'[b] = "pushfailed"
      BY <2>1, <2>3 DEF BuildInv
    <3>2. tag = Builder!VersionTag(prods[b][at[b]])'
      BY <2>1 DEF Builder!VersionTag
    <3>3. /\ stamps'[b] \in Seq(Nat) /\ Len(prods[b]) \in Nat /\ at[b] \in 1..Len(prods[b])
          /\ \A i \in 1..Len(prods[b]) : InDaemon(b, i) /\ InDaemon(b, i)'
      BY <1>q, <2>1, <2>2
    <3>4. local[tag].stamp >= stamps[b][at[b]]
      BY <3>3 DEF InDaemon
    <3> HIDE DEF tag
    <3>5. pc'[b] = "pushrev" => InRegistry(b, at[b])'
      BY <2>1, <3>1, <3>2, <3>4 DEF InRegistry
    <3> QED BY <2>1, <3>1, <3>3, <3>5 DEF Progress, Looping, Early
  <2>5. pc' = [pc EXCEPT ![b] = pc'[b]] /\ prods' = [prods EXCEPT ![b] = prods'[b]]
        /\ at' = [at EXCEPT ![b] = at'[b]] /\ stamps' = [stamps EXCEPT ![b] = stamps'[b]]
    BY <2>1 DEF BuildInv
  <2> HIDE DEF tag
  <2> QED BY <1>0, <2>3, <2>4, <2>5
<1>8. CASE Builder!PushRevision(b)
  <2>0. /\ pc[b] \in {"pushrev", "pushfailed"}
        /\ UNCHANGED <<in, prods, at, local, inserted, labelled, stamps>>
    BY <1>8 DEF Builder!PushRevision
  <2>1. CASE Builder!Fails(b) /\ UNCHANGED registry
    BY <1>f, <2>0, <2>1
  <2>2. CASE ~(Builder!Fails(b) /\ UNCHANGED registry)
    <3> DEFINE tag == Builder!RevisionTag(b, prods[b][at[b]])
    <3>1. /\ Builder!Pushed(tag)
          /\ pc' = [pc EXCEPT ![b] = IF pc[b] = "pushrev" THEN "record" ELSE "failed"]
      BY <1>8, <2>2 DEF Builder!PushRevision, Builder!Goto
    <3>a. pc[b] \in Looping \ {"label"}
      BY <2>0 DEF Looping
    <3>2. /\ in' = in /\ labelled' \in Nat
          /\ Labels(local', labelled') /\ NotOlder(local, local')
          /\ Labels(registry', labelled') /\ NotOlder(registry, registry')
          /\ NotOlder(registry', local') /\ Recorded'
      BY <1>p, <2>0, <3>1, <3>a
    <3>4. Progress(b)'
      <4>1. (pc[b] = "pushrev" /\ pc'[b] = "record") \/ pc'[b] = "failed"
        BY <2>0, <3>1 DEF BuildInv
      <4>2. Progress(b) /\ Labels(registry, labelled)
        BY DEF BuildInv
      <4>3. /\ stamps'[b] \in Seq(Nat) /\ Len(prods[b]) \in Nat /\ at[b] \in 1..Len(prods[b])
            /\ \A i \in 1..Len(prods[b]) : InDaemon(b, i) /\ InDaemon(b, i)'
        BY <1>q, <2>0, <3>a
      <4>4. ASSUME pc[b] = "pushrev" PROVE InRegistry(b, at[b])'
        <5> DEFINE v == Builder!VersionTag(prods[b][at[b]])
        <5>1. v' = v
          BY <2>0 DEF Builder!VersionTag
        <5>2. v \in DOMAIN registry /\ registry[v].stamp >= stamps[b][at[b]]
          BY <4>2, <4>4 DEF Progress, Looping, InRegistry
        <5>3. stamps[b][at[b]] \in Nat
          BY <1>s, <4>3, ElementOfSeq DEF InDaemon
        <5> HIDE DEF v
        <5>4. v \in DOMAIN registry' /\ registry'[v].stamp >= stamps[b][at[b]]
          BY <3>2, <4>2, <5>2, <5>3 DEF NotOlder, Labels
        <5> QED BY <2>0, <5>1, <5>4 DEF InRegistry, v
      <4> HIDE DEF tag
      <4> QED BY <2>0, <4>1, <4>3, <4>4 DEF Progress, Looping, Early
    <3>5. pc' = [pc EXCEPT ![b] = pc'[b]] /\ prods' = [prods EXCEPT ![b] = prods'[b]]
          /\ at' = [at EXCEPT ![b] = at'[b]] /\ stamps' = [stamps EXCEPT ![b] = stamps'[b]]
      BY <2>0, <3>1 DEF BuildInv
    <3> QED BY <1>0, <3>2, <3>4, <3>5
  <2> QED BY <2>1, <2>2
<1>9. CASE Builder!RecordName(b)
  <2>0. pc[b] = "record" /\ UNCHANGED <<in, prods, local, registry, labelled, stamps>>
    BY <1>9 DEF Builder!RecordName
  <2>1. CASE Builder!Fails(b) /\ UNCHANGED <<inserted, at>>
    BY <1>f, <2>0, <2>1
  <2>2. CASE ~(Builder!Fails(b) /\ UNCHANGED <<inserted, at>>)
    <3>1. /\ \E r : /\ inserted' = inserted \cup {r} /\ r.source = prods[b][at[b]].source
                    /\ r.name = Builder!VersionTag(prods[b][at[b]]) /\ r.stamp = stamps[b][at[b]]
          /\ Builder!Next1(b, "push", "done")
      <4> DEFINE new == [source |-> prods[b][at[b]].source,
                         name |-> Builder!VersionTag(prods[b][at[b]]),
                         advisories |-> prods[b][at[b]].advisories, of |-> <<b, at[b]>>,
                         stamp |-> stamps[b][at[b]]]
      <4>1. inserted' = inserted \cup {new}
        BY <1>9, <2>2 DEF Builder!RecordName
      <4>3. /\ new.source = prods[b][at[b]].source
            /\ new.name = Builder!VersionTag(prods[b][at[b]]) /\ new.stamp = stamps[b][at[b]]
        OBVIOUS
      <4>2. Builder!Next1(b, "push", "done")
        BY <1>9, <2>2 DEF Builder!RecordName
      <4> HIDE DEF new
      <4> QED BY <4>1, <4>2, <4>3
    <3>2. Progress(b) /\ Recorded
      BY DEF BuildInv
    <3>a. /\ stamps'[b] \in Seq(Nat) /\ Len(prods[b]) \in Nat /\ at[b] \in 1..Len(prods[b])
          /\ \A i \in 1..Len(prods[b]) : InDaemon(b, i) /\ InDaemon(b, i)'
      BY <1>q, <2>0 DEF Looping
    <3>b. stamps[b][at[b]] \in Nat
      BY <1>s, <3>a, ElementOfSeq DEF InDaemon
    <3>3. Recorded'
      <4>1. PICK r : /\ inserted' = inserted \cup {r} /\ r.source = prods[b][at[b]].source
                     /\ r.name = Builder!VersionTag(prods[b][at[b]]) /\ r.stamp = stamps[b][at[b]]
        BY <3>1
      <4>2. InRegistry(b, at[b])
        BY <2>0, <3>2 DEF Progress, Looping
      <4>3. /\ r.name \in DOMAIN registry /\ r.stamp \in Nat /\ registry[r.name].stamp >= r.stamp
            /\ Len(r.name) = 2 /\ r.name[2] = r.source.version
        BY <3>b, <4>1, <4>2 DEF InRegistry, Builder!VersionTag
      <4> QED BY <2>0, <3>2, <4>1, <4>3 DEF Recorded
    <3>4. \/ /\ at[b] < Len(prods[b]) /\ at' = [at EXCEPT ![b] = @ + 1]
             /\ pc' = [pc EXCEPT ![b] = "push"]
          \/ /\ ~(at[b] < Len(prods[b])) /\ at' = [at EXCEPT ![b] = 1]
             /\ pc' = [pc EXCEPT ![b] = "done"]
      BY <3>1 DEF Builder!Next1, Builder!Goto
    <3>5. Progress(b)'
      <4>1. \/ at[b] < Len(prods[b]) /\ at'[b] = at[b] + 1 /\ pc'[b] = "push"
            \/ pc'[b] = "done"
        BY <3>4 DEF BuildInv
      <4> QED BY <2>0, <3>a, <4>1 DEF Progress, Looping, Early
    <3>6. pc' = [pc EXCEPT ![b] = pc'[b]] /\ at' = [at EXCEPT ![b] = at'[b]]
          /\ prods' = [prods EXCEPT ![b] = prods'[b]]
          /\ stamps' = [stamps EXCEPT ![b] = stamps'[b]]
      BY <2>0, <3>1, <3>4 DEF BuildInv
    <3>7. /\ Labels(local, labelled) /\ Labels(registry, labelled) /\ labelled \in Nat
          /\ NotOlder(registry, local) /\ NotOlder(local, local) /\ NotOlder(registry, registry)
      BY <1>k DEF BuildInv
    <3> QED BY <1>0, <2>0, <3>3, <3>5, <3>6, <3>7
  <2> QED BY <2>1, <2>2
<1> QED BY <1>1, <1>2, <1>3, <1>4, <1>5, <1>6, <1>7, <1>8, <1>9

(* Under the name that a builder tells the name cache, the registry has an  *)
(* image of that version, the builder's own or one labelled since, whatever *)
(* fails and whoever else builds and pushes under that name (build.go); for *)
(* any number of builds, any working copies and Dockerfiles, and however    *)
(* the repositories, offsets and kinds are spelled.                         *)
THEOREM RecordedIsPushedAlways == Spec => []RecordedIsPushed
<1>1. Init => BuildInv
  BY DEF Init, Builder!Init, BuildInv, Labels, NotOlder, Recorded, Progress, Looping, Early
<1>2. BuildInv /\ [Next]_vars => BuildInv'
  <2> SUFFICES ASSUME BuildInv, [Builder!Next]_buildVars PROVE BuildInv'
    BY PartSteps
  <2>1. CASE UNCHANGED buildVars
    BY <2>1 DEF buildVars, BuildInv, Labels, NotOlder, Recorded, Progress, InDaemon, InRegistry,
                Builder!VersionTag, Builder!RevisionTag
  <2>2. CASE Builder!Next
    BY <2>2, BuildStep DEF Builder!Next
  <2> QED BY <2>1, <2>2
<1>3. BuildInv => RecordedIsPushed
  BY DEF BuildInv, Labels, Recorded, RecordedIsPushed, Builder!RecordedIsPushed,
         Builder!SourceIDFromLabels
<1> QED
  BY <1>1, <1>2, <1>3, PTL DEF Spec

----------------------------------------------------------------------------
(* The cache of image names (ext/docker/image_mapping.go).                  *)

(* The tables: ids are used once, a canonical name has one row, a row of a  *)
(* digest has the image's source ID and Etag.                               *)
TablesOK ==
    /\ nextId \in Nat
    /\ tags \in [Tags -> Images \cup {NoName}]
    /\ \A r \in meta :
           /\ r.id \in Nat /\ r.id < nextId
           /\ IF r.cn \in Images THEN r.sid = SidOf[r.cn] /\ r.etag = r.cn ELSE r.etag = NoName
    /\ \A r, s \in meta : r.id = s.id \/ r.cn = s.cn => r = s
    /\ \A n \in DOMAIN names : names[n] \in Nat /\ names[n] < nextId

(* What a call has in hand.                                                 *)
Fields == {"at", "why", "sid", "rev", "name", "etag", "cn", "id", "advs", "more",
           "named", "todo", "again", "found", "calm"}
Inserting == {"addquals", "addname", "namesof"}
LocalsOK(l) ==
    /\ DOMAIN l = Fields
    /\ l.sid \in Sids \cup {NoName}
    /\ l.at = "cname" \/ l.why = "warm" => l.sid \in Sids
    /\ l.at \in {"cname", "quals", "done"} => l.why = "label"
    /\ l.at \in {"name", "fetch", "meta"} \cup Inserting =>
           l.why \in {"label", "insert", "warm", "harvest"}
    /\ l.at \in Inserting => l.id \in Nat /\ l.id < nextId

(* All advisories of the image of a row are in, or were lost.               *)
Complete(id) ==
    \A r \in meta : r.id = id /\ r.cn \in Images =>
        \A a \in AdvisoriesOf[r.cn] : <<id, a>> \in quals \cup lost
Named(r) == \E n \in DOMAIN names : names[n] = r.id

(* A call that inserts an image has in hand the advisories that its row     *)
(* lacks, and gives a name to a row that lacks none - unless it names a row *)
(* that came in place of the one it had seen to.                            *)
Kept(l) ==
    /\ l.at = "meta" /\ l.cn \in Images => AdvisoriesOf[l.cn] \subseteq l.advs
    /\ l.at = "addquals" => \A r \in meta : r.id = l.id =>
           /\ r.cn = l.cn
           /\ r.cn \in Images => \A a \in AdvisoriesOf[r.cn] : a \in l.advs \/ <<r.id, a>> \in quals \cup lost
    /\ l.at \in {"addname", "namesof"} /\ ~mixed => Complete(l.id)

(* How far a call that nobody disturbed has come in finding an image: it    *)
(* asks the cache again only when that has the image, or there is none, and *)
(* harvests the repository only when there is none.                         *)
Sought(l) ==
    l.calm =>
        /\ l.at = "done" /\ ~l.found => ~Cache!InRegistry(l.sid)
        /\ l.at = "cname" /\ l.again =>
               Cache!Visible(l.sid) # {} \/ ~Cache!InRegistry(l.sid)
        /\ (l.at = "tags" \/ l.why = "harvest") /\ l.sid # NoName => ~Cache!InRegistry(l.sid)
        /\ l.why = "warm" =>
           /\ l.at \notin {"tags", "idle", "cname", "done"} => l.name = TagOf[l.sid]
           /\ l.at = "fetch" => l.etag = NoName \/ \E r \in meta : r.etag = l.etag /\ Named(r)
           /\ l.at = "meta" \/ l.at \in Inserting => l.cn = tags[l.name] /\ l.cn \in Images
           /\ l.at \in Inserting => \E r \in meta : r.id = l.id /\ r.cn = l.cn
           /\ l.at = "addname" =>
                  \/ l.more \in {<<l.cn>>, <<l.name, l.cn>>}
                  \/ l.more = <<>> /\ l.cn \in DOMAIN names /\ names[l.cn] = l.id

CallOK(l) == LocalsOK(l) /\ Kept(l) /\ Sought(l)

CacheInv ==
    /\ TablesOK
    /\ proc = [p \in Procs |-> proc[p]]
    /\ \A p \in Procs : CallOK(proc[p])
    /\ ~mixed => \A r \in meta : Named(r) => Complete(r.id)

(* A call that has not begun, or has come to nothing.                       *)
LEMMA IdleOK == CallOK(Cache!idle)
BY DEF CallOK, LocalsOK, Kept, Sought, Cache!idle, Inserting, Fields

(* What a call has in hand stays good when the others leave the tables      *)
(* alone, or have disturbed it: rows only come with a new id, and lose none *)
(* of their advisories while they are there.                                *)
TablesGrow ==
    /\ nextId' \in Nat /\ nextId <= nextId'
    /\ \A r \in meta' : r \in meta \/ r.id = nextId
    /\ \A r \in meta \cap meta' : \A a : <<r.id, a>> \in quals \cup lost =>
           <<r.id, a>> \in quals' \cup lost'
    /\ mixed => mixed'

(* And so a step of one call leaves every call good.                        *)
LEMMA OthersStay ==
    ASSUME TablesOK, NEW p \in Procs, NEW k, proc = [q \in Procs |-> proc[q]],
           \A q \in Procs : CallOK(proc[q]), CallOK(k)', TablesGrow,
           \/ Cache!Quietly(p, k) /\ UNCHANGED <<tags, meta, names>>
           \/ Cache!Loudly(p, k)
    PROVE  proc' = [q \in Procs |-> proc'[q]] /\ \A q \in Procs : CallOK(proc[q])'
<1>1. /\ proc' = [q \in Procs |-> proc'[q]] /\ proc'[p] = k
      /\ \A q \in Procs \ {p} :
            \/ proc'[q] = proc[q] /\ UNCHANGED <<tags, meta, names>>
            \/ proc'[q] = [proc[q] EXCEPT !.calm = FALSE]
  BY DEF Cache!Quietly, Cache!Loudly
<1>2. ASSUME NEW l, LocalsOK(l), Kept(l) PROVE LocalsOK(l)' /\ Kept(l)'
  <2>1. LocalsOK(l)'
    BY <1>2 DEF LocalsOK, TablesGrow, TablesOK, Inserting
  <2>2. Kept(l)'
    <3> SUFFICES ASSUME l.at \in Inserting PROVE Kept(l)'
      BY <1>2 DEF Kept, Inserting
    <3>1. \A r \in meta' : r.id = l.id => r \in meta
      BY <1>2 DEF LocalsOK, TablesGrow
    <3> QED BY <1>2, <3>1 DEF Kept, TablesGrow, Complete, Inserting
  <2> QED BY <2>1, <2>2
<1>3. ASSUME NEW l, LocalsOK(l), Kept(l)
      PROVE  LET d == [l EXCEPT !.calm = FALSE] IN LocalsOK(d) /\ Kept(d) /\ ~d.calm
  <2> DEFINE d == [l EXCEPT !.calm = FALSE]
  <2>1. /\ DOMAIN d = DOMAIN l /\ d.at = l.at /\ d.why = l.why /\ d.sid = l.sid /\ d.id = l.id
        /\ d.cn = l.cn /\ d.advs = l.advs /\ ~d.calm
    BY <1>3 DEF LocalsOK, Fields
  <2> HIDE DEF d
  <2>2. LocalsOK(d) /\ Kept(d)
    BY <1>3, <2>1 DEF LocalsOK, Kept
  <2> QED BY <2>1, <2>2 DEF d
<1>4. ASSUME NEW q \in Procs \ {p} PROVE CallOK(proc[q])'
  <2>1. CASE proc'[q] = proc[q] /\ UNCHANGED <<tags, meta, names>>
    <3>1. \A l : Sought(l) => Sought(l)'
      BY <2>1 DEF Sought, Cache!InRegistry, Cache!Visible, Named
    <3> QED BY <1>2, <2>1, <3>1 DEF CallOK
  <2>2. CASE proc'[q] = [proc[q] EXCEPT !.calm = FALSE]
    <3>1. \A l : ~l.calm => Sought(l)'
      BY DEF Sought
    <3> QED BY <1>2, <1>3, <2>2, <3>1 DEF CallOK
  <2> QED BY <1>1, <2>1, <2>2
<1> QED BY <1>1, <1>4

(* A step that leaves the tables alone.                                     *)
LEMMA SameTables ==
    ASSUME NEW l, CallOK(l), UNCHANGED <<tags, meta, names, quals, lost, nextId, mixed>>
    PROVE  CallOK(l)'
BY DEF CallOK, LocalsOK, Kept, Sought, Complete, Named, Cache!InRegistry, Cache!Visible

(* A call that has only read, or learnt, something.                         *)
LEMMA ReadStep ==
    ASSUME CacheInv, NEW p \in Procs, NEW k, Cache!Quietly(p, k), CallOK(k)',
           UNCHANGED <<tags, meta, names, quals, lost, nextId>>, mixed => mixed'
    PROVE  CacheInv'
<1>1. TablesGrow
  BY DEF TablesGrow, CacheInv, TablesOK
<1>2. TablesOK'
  BY DEF CacheInv, TablesOK
<1>3. (~mixed => \A r \in meta : Named(r) => Complete(r.id))'
  BY DEF CacheInv, Named, Complete
<1> QED BY <1>1, <1>2, <1>3, OthersStay DEF CacheInv

(* What is neither inserting nor warming up only asks.                      *)
LEMMA AskingOK ==
    ASSUME NEW l, LocalsOK(l), l.at \notin {"meta"} \cup Inserting,
           l.at = "done" /\ l.calm /\ ~l.found => ~Cache!InRegistry(l.sid),
           l.at = "cname" /\ l.calm /\ l.again =>
               Cache!Visible(l.sid) # {} \/ ~Cache!InRegistry(l.sid),
           (l.at = "tags" \/ l.why = "harvest") /\ l.calm /\ l.sid # NoName =>
               ~Cache!InRegistry(l.sid),
           l.why = "warm" /\ l.calm => l.at = "tags"
    PROVE  CallOK(l)
BY DEF CallOK, Kept, Sought, Inserting

(* The cache is asked again, by a call that has brought the image in or     *)
(* found that there is none.                                                *)
LEMMA AgainOK ==
    ASSUME NEW l, l.sid \in Sids,
           l.calm => Cache!Visible(l.sid) # {} \/ ~Cache!InRegistry(l.sid)
    PROVE  CallOK(Cache!Again(l))
<1> DEFINE k == Cache!Again(l)
<1>1. /\ DOMAIN k = Fields /\ k.at = "cname" /\ k.why = "label" /\ k.sid = l.sid /\ k.calm = l.calm
  BY DEF Cache!Again, Cache!idle, Fields
<1> HIDE DEF k
<1>2. LocalsOK(k)
  BY <1>1 DEF LocalsOK, Inserting
<1>3. CallOK(k)
  BY <1>1, <1>2, AskingOK DEF Inserting
<1> QED BY <1>3 DEF k

(* There is no image.                                                       *)
LEMMA MissingOK ==
    ASSUME NEW l, l.sid \in Sids \cup {NoName}, l.calm => ~Cache!InRegistry(l.sid)
    PROVE  CallOK(Cache!Missing(l))
<1> DEFINE k == Cache!Missing(l)
<1>1. /\ DOMAIN k = Fields /\ k.at = "done" /\ k.why = "label" /\ k.sid = l.sid /\ k.calm = l.calm
  BY DEF Cache!Missing, Cache!idle, Fields
<1> HIDE DEF k
<1>2. LocalsOK(k)
  BY <1>1 DEF LocalsOK, Inserting
<1>3. CallOK(k)
  BY <1>1, <1>2, AskingOK DEF Inserting
<1> QED BY <1>3 DEF k

(* A harvest goes on to its next tag, or asks the cache again.              *)
LEMMA NextTagOK ==
    ASSUME NEW l, LocalsOK(l), l.why = "harvest",
           l.calm /\ l.sid # NoName => ~Cache!InRegistry(l.sid),
           NEW k \in Cache!NextTag(l)
    PROVE  CallOK(k)
<1>1. CASE l.todo = {} /\ l.sid = NoName
  BY <1>1, IdleOK DEF Cache!NextTag
<1>2. CASE l.todo = {} /\ l.sid # NoName
  <2>1. k = Cache!Again(l) /\ l.sid \in Sids
    BY <1>2 DEF Cache!NextTag, LocalsOK
  <2> QED BY <1>2, <2>1, AgainOK
<1>3. CASE l.todo # {}
  <2>1. PICK t : k = [l EXCEPT !.at = "name", !.name = t, !.named = FALSE, !.todo = @ \ {t}]
    BY <1>3 DEF Cache!NextTag
  <2>2. /\ DOMAIN k = Fields /\ k.at = "name" /\ k.why = "harvest" /\ k.sid = l.sid
        /\ k.calm = l.calm
    BY <2>1 DEF LocalsOK, Fields
  <2>3. LocalsOK(k)
    BY <2>2 DEF LocalsOK, Inserting
  <2> QED BY <2>2, <2>3, AskingOK DEF Inserting
<1> QED BY <1>1, <1>2, <1>3

(* GetSourceID returns what the call it was for goes on with.               *)
LEMMA ReturnsOK ==
    ASSUME NEW l, LocalsOK(l), l.why \in {"label", "insert", "warm", "harvest"},
           NEW sid, NEW err \in BOOLEAN,
           l.why = "harvest" /\ l.calm /\ l.sid # NoName => ~Cache!InRegistry(l.sid),
           l.why = "warm" /\ l.calm /\ ~err =>
               \/ sid = l.sid /\ Cache!Visible(l.sid) # {}
               \/ ~Cache!InRegistry(l.sid),
           l.why = "warm" /\ l.calm /\ err => ~Cache!InRegistry(l.sid),
           NEW k \in Cache!Returns(l, sid, err)
    PROVE  CallOK(k)
<1>1. CASE l.why \in {"label", "insert"}
  BY <1>1, IdleOK DEF Cache!Returns
<1>2. CASE l.why = "harvest"
  BY <1>2, NextTagOK DEF Cache!Returns
<1>3. CASE l.why = "warm" /\ (err \/ sid = l.sid)
  <2>1. k = Cache!Again(l) /\ l.sid \in Sids
    BY <1>3 DEF Cache!Returns, LocalsOK
  <2> QED BY <1>3, <2>1, AgainOK
<1>4. CASE l.why = "warm" /\ ~(err \/ sid = l.sid)
  <2>1. k = [l EXCEPT !.at = "tags"]
    BY <1>4 DEF Cache!Returns
  <2>2. DOMAIN k = Fields /\ k.at = "tags" /\ k.why = "warm" /\ k.sid = l.sid /\ k.calm = l.calm
    BY <1>4, <2>1 DEF LocalsOK, Fields
  <2>3. LocalsOK(k)
    BY <1>4, <2>2 DEF LocalsOK, Inserting
  <2> QED BY <1>4, <2>2, <2>3, AskingOK DEF Inserting
<1> QED BY <1>1, <1>2, <1>3, <1>4

(* A call that has been disturbed is not asked for anything.                *)
LEMMA DisturbedOK ==
    ASSUME NEW l, CallOK(l) PROVE CallOK([l EXCEPT !.calm = FALSE])
<1> DEFINE d == [l EXCEPT !.calm = FALSE]
<1>1. /\ DOMAIN d = DOMAIN l /\ d.at = l.at /\ d.why = l.why /\ d.sid = l.sid /\ d.id = l.id
      /\ d.cn = l.cn /\ d.advs = l.advs /\ ~d.calm
  BY DEF CallOK, LocalsOK, Fields
<1> HIDE DEF d
<1>2. LocalsOK(d) /\ Kept(d) /\ Sought(d)
  BY <1>1 DEF CallOK, LocalsOK, Kept, Sought
<1> QED BY <1>2 DEF CallOK, d

(* A call that begins, and the answer of the cache.                         *)
LEMMA BeginStep ==
    ASSUME CacheInv, NEW p \in Procs,
           Cache!GetArtifact(p) \/ Cache!ImageLabels(p) \/ Cache!dbQueryQualsForCName(p)
    PROVE  CacheInv'
<1>1. UNCHANGED <<tags, meta, names, quals, lost, nextId, mixed>>
  BY DEF Cache!GetArtifact, Cache!ImageLabels, Cache!dbQueryQualsForCName, Cache!db, Cache!registry
<1>2. CASE Cache!GetArtifact(p)
  <2>1. PICK sid \in Sids : Cache!Quietly(p, [Cache!idle EXCEPT !.at = "cname", !.sid = sid])
    BY <1>2 DEF Cache!GetArtifact
  <2> DEFINE k == [Cache!idle EXCEPT !.at = "cname", !.sid = sid]
  <2>2. /\ DOMAIN k = Fields /\ k.at = "cname" /\ k.why = "label" /\ k.sid = sid /\ ~k.again
    BY DEF Cache!idle, Fields
  <2>3. Cache!Quietly(p, k)
    BY <2>1
  <2> HIDE DEF k
  <2>4. LocalsOK(k)
    BY <2>2 DEF LocalsOK, Inserting
  <2>5. CallOK(k)
    BY <2>2, <2>4, AskingOK DEF Inserting
  <2> QED BY <1>1, <2>3, <2>5, SameTables, ReadStep
<1>3. CASE Cache!ImageLabels(p)
  <2>1. PICK n : Cache!Quietly(p, [Cache!idle EXCEPT !.at = "name", !.name = n])
    BY <1>3 DEF Cache!ImageLabels
  <2> DEFINE k == [Cache!idle EXCEPT !.at = "name", !.name = n]
  <2>2. /\ DOMAIN k = Fields /\ k.at = "name" /\ k.why = "label" /\ k.sid = NoName
    BY DEF Cache!idle, Fields
  <2>3. Cache!Quietly(p, k)
    BY <2>1
  <2> HIDE DEF k
  <2>4. LocalsOK(k)
    BY <2>2 DEF LocalsOK, Inserting
  <2>5. CallOK(k)
    BY <2>2, <2>4, AskingOK DEF Inserting
  <2> QED BY <1>1, <2>3, <2>5, SameTables, ReadStep
<1>4. CASE Cache!dbQueryQualsForCName(p)
  <2>1. PICK k, cn, advs :
            /\ k = [Cache!Missing(proc[p]) EXCEPT !.found = TRUE, !.cn = cn, !.advs = advs]
            /\ Cache!Quietly(p, k)
    BY <1>4 DEF Cache!dbQueryQualsForCName
  <2>2. /\ DOMAIN k = Fields /\ k.at = "done" /\ k.why = "label" /\ k.sid = proc[p].sid /\ k.found
    BY <2>1 DEF Cache!Missing, Cache!idle, Fields
  <2>3. LocalsOK(proc[p])
    BY DEF CacheInv, CallOK
  <2>4. LocalsOK(k)
    BY <2>2, <2>3 DEF LocalsOK, Inserting
  <2>5. CallOK(k)
    BY <2>2, <2>4, AskingOK DEF Inserting
  <2> QED BY <1>1, <2>1, <2>5, SameTables, ReadStep
<1> QED BY <1>2, <1>3, <1>4

(* The cache is asked for a source ID.                                      *)
LEMMA NameStep ==
    ASSUME CacheInv, NEW p \in Procs, Cache!dbQueryCNameForSourceID(p)
    PROVE  CacheInv'
<1> DEFINE l == proc[p]
<1>1. l.at = "cname" /\ UNCHANGED <<tags, meta, names, quals, lost, nextId, mixed>>
  BY DEF Cache!dbQueryCNameForSourceID, Cache!db, Cache!registry
<1>2. LocalsOK(l) /\ Sought(l)
  BY DEF CacheInv, CallOK
<1>3. PICK k :
          /\ Cache!Quietly(p, k)
          /\ \/ \E cn : k = [l EXCEPT !.at = "quals", !.cn = cn]
             \/ l.again /\ Cache!Visible(l.sid) = {} /\ k = Cache!Missing(l)
             \/ ~l.again /\ k = [l EXCEPT !.at = "name", !.why = "warm", !.name = TagOf[l.sid]]
  BY DEF Cache!dbQueryCNameForSourceID, Cache!Missed
<1>4. CASE \E cn : k = [l EXCEPT !.at = "quals", !.cn = cn]
  <2>1. /\ DOMAIN k = Fields /\ k.at = "quals" /\ k.why = l.why /\ k.sid = l.sid /\ k.calm = l.calm
    BY <1>2, <1>4 DEF LocalsOK, Fields
  <2>2. LocalsOK(k) /\ Kept(k)
    BY <1>1, <1>2, <2>1 DEF LocalsOK, Inserting, Kept
  <2>3. Sought(k)
    BY <1>1, <1>2, <2>1 DEF Sought, Inserting, LocalsOK
  <2>4. CallOK(k)
    BY <2>2, <2>3 DEF CallOK
  <2> QED BY <1>1, <1>3, <2>4, SameTables, ReadStep
<1>5. CASE l.again /\ Cache!Visible(l.sid) = {} /\ k = Cache!Missing(l)
  <2>1. l.calm => ~Cache!InRegistry(l.sid)
    BY <1>1, <1>2, <1>5 DEF Sought
  <2>2. CallOK(k)
    BY <1>2, <1>5, <2>1, MissingOK DEF LocalsOK
  <2> QED BY <1>1, <1>3, <2>2, SameTables, ReadStep
<1>6. CASE ~l.again /\ k = [l EXCEPT !.at = "name", !.why = "warm", !.name = TagOf[l.sid]]
  <2>1. /\ DOMAIN k = Fields /\ k.at = "name" /\ k.why = "warm" /\ k.sid = l.sid
        /\ k.name = TagOf[l.sid]
    BY <1>2, <1>6 DEF LocalsOK, Fields
  <2>2. LocalsOK(k) /\ Kept(k)
    BY <1>1, <1>2, <2>1 DEF LocalsOK, Inserting, Kept
  <2>3. Sought(k)
    BY <2>1 DEF Sought, Inserting
  <2>4. CallOK(k)
    BY <2>2, <2>3 DEF CallOK
  <2> QED BY <1>1, <1>3, <2>4, SameTables, ReadStep
<1> QED BY <1>3, <1>4, <1>5, <1>6

(* The tags of a repository are asked for.                                  *)
LEMMA TagsStep ==
    ASSUME CacheInv, NEW p \in Procs, Cache!AllTags(p)
    PROVE  CacheInv'
<1> DEFINE l == proc[p]
<1>1. l.at = "tags" /\ UNCHANGED <<tags, meta, names, quals, lost, nextId, mixed>>
  BY DEF Cache!AllTags, Cache!db, Cache!registry
<1>2. LocalsOK(l) /\ Sought(l)
  BY DEF CacheInv, CallOK
<1>3. PICK k : Cache!Quietly(p, k) /\
          \/ \E todo : k \in Cache!NextTag([l EXCEPT !.why = "harvest", !.todo = todo])
          \/ l.sid = NoName /\ k = Cache!idle
          \/ k = [Cache!Missing(l) EXCEPT !.calm = FALSE]
  BY DEF Cache!AllTags
<1>4. CASE \E todo : k \in Cache!NextTag([l EXCEPT !.why = "harvest", !.todo = todo])
  <2>1. PICK h, todo : h = [l EXCEPT !.why = "harvest", !.todo = todo] /\ k \in Cache!NextTag(h)
    BY <1>4
  <2>2. /\ DOMAIN h = Fields /\ h.at = "tags" /\ h.why = "harvest" /\ h.sid = l.sid
        /\ h.calm = l.calm
    BY <1>1, <1>2, <2>1 DEF LocalsOK, Fields
  <2>3. LocalsOK(h)
    BY <1>2, <2>2 DEF LocalsOK, Inserting
  <2>4. l.calm /\ l.sid # NoName => ~Cache!InRegistry(l.sid)
    BY <1>1, <1>2 DEF Sought
  <2>5. CallOK(k)
    BY <2>1, <2>2, <2>3, <2>4, NextTagOK
  <2> QED BY <1>1, <1>3, <2>5, SameTables, ReadStep
<1>5. CASE l.sid = NoName /\ k = Cache!idle
  BY <1>1, <1>3, <1>5, IdleOK, SameTables, ReadStep
<1>6. CASE k = [Cache!Missing(l) EXCEPT !.calm = FALSE]
  <2>1. DOMAIN k = Fields /\ k.at = "done" /\ k.why = "label" /\ k.sid = l.sid /\ ~k.calm
    BY <1>6 DEF Cache!Missing, Cache!idle, Fields
  <2>2. LocalsOK(k)
    BY <1>2, <2>1 DEF LocalsOK, Inserting
  <2>3. CallOK(k)
    BY <2>1, <2>2, AskingOK DEF Inserting
  <2> QED BY <1>1, <1>3, <2>3, SameTables, ReadStep
<1> QED BY <1>3, <1>4, <1>5, <1>6

(* The cache is asked for a name; what it knows by a digest it need not ask *)
(* the registry about.                                                      *)
LEMMA OnNameStep ==
    ASSUME CacheInv, NEW p \in Procs, Cache!dbQueryOnName(p)
    PROVE  CacheInv'
<1> DEFINE l == proc[p]
<1>1. l.at = "name" /\ UNCHANGED <<tags, meta, names, quals, lost, nextId, mixed>>
  BY DEF Cache!dbQueryOnName, Cache!db, Cache!registry
<1>2. LocalsOK(l) /\ Sought(l)
  BY DEF CacheInv, CallOK
<1>3. PICK k : Cache!Quietly(p, k) /\
          \/ l.name \in Images /\ \E x : k \in Cache!Returns(l, x, FALSE)
          \/ \E x \in Cache!RowOfName(l.name) : k = [l EXCEPT !.at = "fetch", !.etag = x.etag]
          \/ k = [l EXCEPT !.at = "fetch", !.etag = NoName]
  BY DEF Cache!dbQueryOnName
<1>4. CASE l.name \in Images /\ \E x : k \in Cache!Returns(l, x, FALSE)
  <2>1. l.why = "warm" /\ l.calm => FALSE
    <3>1. l.why = "warm" /\ l.calm => l.name = TagOf[l.sid] /\ l.sid \in Sids
      BY <1>1, <1>2 DEF Sought, LocalsOK, Inserting
    <3> QED BY <1>4, <3>1, CacheAssumption DEF Cache!LabelsAssumption
  <2>2. l.why \in {"label", "insert", "warm", "harvest"}
    BY <1>1, <1>2 DEF LocalsOK
  <2>3. l.why = "harvest" /\ l.calm /\ l.sid # NoName => ~Cache!InRegistry(l.sid)
    BY <1>2 DEF Sought
  <2>4. PICK x : k \in Cache!Returns(l, x, FALSE)
    BY <1>4
  <2> HIDE DEF l
  <2>5. CallOK(k)
    BY <1>2, <2>1, <2>2, <2>3, <2>4, ReturnsOK
  <2> QED BY <1>1, <1>3, <2>5, SameTables, ReadStep
<1>5. ASSUME NEW etag, k = [l EXCEPT !.at = "fetch", !.etag = etag],
             etag = NoName \/ \E r \in meta : r.etag = etag /\ Named(r)
      PROVE  CacheInv'
  <2>1. /\ DOMAIN k = Fields /\ k.at = "fetch" /\ k.why = l.why /\ k.sid = l.sid
        /\ k.calm = l.calm /\ k.name = l.name /\ k.etag = etag
    BY <1>2, <1>5 DEF LocalsOK, Fields
  <2>2. LocalsOK(k) /\ Kept(k)
    BY <1>1, <1>2, <2>1 DEF LocalsOK, Inserting, Kept
  <2>3. Sought(k)
    BY <1>1, <1>2, <1>5, <2>1 DEF Sought, Inserting
  <2>4. CallOK(k)
    BY <2>2, <2>3 DEF CallOK
  <2> QED BY <1>1, <1>3, <2>4, SameTables, ReadStep
<1>6. ASSUME NEW x \in Cache!RowOfName(l.name) PROVE x \in meta /\ Named(x)
  BY DEF Cache!RowOfName, Named
<1> QED BY <1>3, <1>4, <1>5, <1>6

(* Whatever GetSourceID returns, and to whom, nothing is being inserted.    *)
LEMMA ReturnsDisturbed ==
    ASSUME NEW l, LocalsOK(l), l.why \in {"label", "insert", "warm", "harvest"},
           NEW sid, NEW err \in BOOLEAN, NEW k \in Cache!Returns(l, sid, err)
    PROVE  CallOK([k EXCEPT !.calm = FALSE])
<1>1. LocalsOK(k) /\ k.at \notin {"meta"} \cup Inserting
  <2>1. \/ k = Cache!idle
        \/ k = Cache!Again(l) /\ l.sid \in Sids
        \/ \E t : k = [l EXCEPT !.at = "name", !.name = t, !.named = FALSE, !.todo = @ \ {t}]
        \/ k = [l EXCEPT !.at = "tags"]
    BY DEF Cache!Returns, Cache!NextTag, LocalsOK
  <2>2. CASE k = Cache!idle
    BY <2>2 DEF Cache!idle, LocalsOK, Fields, Inserting
  <2>3. CASE k = Cache!Again(l) /\ l.sid \in Sids
    BY <2>3 DEF Cache!Again, Cache!idle, LocalsOK, Fields, Inserting
  <2>4. CASE \E t : k = [l EXCEPT !.at = "name", !.name = t, !.named = FALSE, !.todo = @ \ {t}]
    <3>1. DOMAIN k = Fields /\ k.at = "name" /\ k.why = l.why /\ k.sid = l.sid
      BY <2>4 DEF LocalsOK, Fields
    <3> QED BY <3>1 DEF LocalsOK, Inserting
  <2>5. CASE k = [l EXCEPT !.at = "tags"]
    <3>1. DOMAIN k = Fields /\ k.at = "tags" /\ k.why = l.why /\ k.sid = l.sid
      BY <2>5 DEF LocalsOK, Fields
    <3> QED BY <3>1 DEF LocalsOK, Inserting
  <2> QED BY <2>1, <2>2, <2>3, <2>4, <2>5
<1> DEFINE d == [k EXCEPT !.calm = FALSE]
<1>2. DOMAIN d = Fields /\ d.at = k.at /\ d.why = k.why /\ d.sid = k.sid /\ d.id = k.id /\ ~d.calm
  BY <1>1 DEF LocalsOK, Fields
<1> HIDE DEF d
<1>3. LocalsOK(d)
  BY <1>1, <1>2 DEF LocalsOK
<1>4. CallOK(d)
  BY <1>1, <1>2, <1>3, AskingOK
<1> QED BY <1>4 DEF d

(* The registry is asked for an image's labels.                             *)
LEMMA MetadataStep ==
    ASSUME CacheInv, NEW p \in Procs, Cache!GetImageMetadata(p)
    PROVE  CacheInv'
<1> DEFINE l == proc[p]
           i == Cache!Content(l.name)
<1>1. l.at = "fetch" /\ UNCHANGED <<tags, meta, names, quals, lost, nextId, mixed>>
  BY DEF Cache!GetImageMetadata, Cache!db, Cache!registry
<1>2. LocalsOK(l) /\ Sought(l)
  BY DEF CacheInv, CallOK
<1>3. PICK k : Cache!Quietly(p, k) /\
          \/ i = NoName /\ k \in Cache!Returns(l, NoName, TRUE)
          \/ i # NoName /\ i = l.etag /\ k \in Cache!Returns(l, SidOf[i], FALSE)
          \/ i # NoName /\ k = Cache!Labelled(l, i)
          \/ \E j \in Cache!Returns(l, NoName, TRUE) : k = [j EXCEPT !.calm = FALSE]
  BY Zenon DEF Cache!GetImageMetadata, Cache!NotModified
<1>4. l.why \in {"label", "insert", "warm", "harvest"}
  BY <1>1, <1>2 DEF LocalsOK
<1>5. l.why = "harvest" /\ l.calm /\ l.sid # NoName => ~Cache!InRegistry(l.sid)
  BY <1>2 DEF Sought
<1>6. l.why = "warm" /\ l.calm =>
          l.name = TagOf[l.sid] /\ l.sid \in Sids /\ i = tags[TagOf[l.sid]]
          /\ i \in Images \cup {NoName}
  <2>1. l.why = "warm" /\ l.calm => l.name = TagOf[l.sid] /\ l.sid \in Sids
    BY <1>1, <1>2 DEF Sought, LocalsOK
  <2> QED BY <2>1, CacheAssumption DEF Cache!LabelsAssumption, Cache!Content, CacheInv, TablesOK
<1> HIDE DEF l, i
<1>7. CASE i = NoName /\ k \in Cache!Returns(l, NoName, TRUE)
  <2>1. l.why = "warm" /\ l.calm => ~Cache!InRegistry(l.sid)
    BY <1>6, <1>7 DEF Cache!InRegistry
  <2>2. CallOK(k)
    BY <1>2, <1>4, <1>5, <1>7, <2>1, ReturnsOK
  <2> QED BY <1>1, <1>3, <2>2, SameTables, ReadStep
<1>8. CASE i # NoName /\ i = l.etag /\ k \in Cache!Returns(l, SidOf[i], FALSE)
  <2>1. l.why = "warm" /\ l.calm =>
            \/ SidOf[i] = l.sid /\ Cache!Visible(l.sid) # {}
            \/ ~Cache!InRegistry(l.sid)
    <3> SUFFICES ASSUME l.why = "warm", l.calm, SidOf[i] = l.sid PROVE Cache!Visible(l.sid) # {}
      BY <1>6 DEF Cache!InRegistry
    <3>1. PICK r \in meta : r.etag = i /\ Named(r)
      BY <1>1, <1>2, <1>8 DEF Sought
    <3>2. r.sid = SidOf[i]
      BY <1>8, <3>1 DEF CacheInv, TablesOK
    <3> QED BY <3>1, <3>2 DEF Named, Cache!Visible
  <2>2. CallOK(k)
    BY <1>2, <1>4, <1>5, <1>8, <2>1, ReturnsOK
  <2> QED BY <1>1, <1>3, <2>2, SameTables, ReadStep
<1>9. CASE i # NoName /\ k = Cache!Labelled(l, i)
  <2>1. /\ DOMAIN k = Fields /\ k.at = "meta" /\ k.why = l.why /\ k.sid = l.sid
        /\ k.calm = l.calm /\ k.name = l.name /\ k.cn = i /\ k.advs = AdvisoriesOf[i]
    BY <1>2, <1>9 DEF LocalsOK, Fields, Cache!Labelled, Cache!qualitiesFromLabels
  <2>2. LocalsOK(k) /\ Kept(k)
    BY <1>2, <1>4, <2>1 DEF LocalsOK, Inserting, Kept
  <2>3. Sought(k)
    BY <1>1, <1>2, <1>5, <1>6, <1>9, <2>1 DEF Sought, Inserting
  <2>4. CallOK(k)
    BY <2>2, <2>3 DEF CallOK
  <2> QED BY <1>1, <1>3, <2>4, SameTables, ReadStep
<1>a. CASE \E j \in Cache!Returns(l, NoName, TRUE) : k = [j EXCEPT !.calm = FALSE]
  <2>1. PICK j \in Cache!Returns(l, NoName, TRUE) : k = [j EXCEPT !.calm = FALSE]
    BY <1>a
  <2>2. CallOK([j EXCEPT !.calm = FALSE])
    BY <1>2, <1>4, ReturnsDisturbed
  <2> QED BY <1>1, <1>3, <2>1, <2>2, SameTables, ReadStep
<1> QED BY <1>3, <1>7, <1>8, <1>9, <1>a

(* An image is pushed, and recorded under its tag.                          *)
LEMMA RegisterStep ==
    ASSUME CacheInv, NEW p \in Procs, Cache!Register(p)
    PROVE  CacheInv'
<1>1. PICK i, k :
          /\ i \in Images /\ tags' = [tags EXCEPT ![TagOf[SidOf[i]]] = i] /\ Cache!Loudly(p, k)
          /\ k = Cache!Recorded(i) \/ k = Cache!idle
          /\ UNCHANGED <<meta, names, quals, lost, nextId, mixed>>
  BY DEF Cache!Register, Cache!db
<1>2. CallOK(k)'
  <2>1. CASE k = Cache!idle
    BY <2>1 DEF CallOK, LocalsOK, Kept, Sought, Cache!idle, Inserting, Fields
  <2>2. CASE k = Cache!Recorded(i)
    <3>1. /\ DOMAIN k = Fields /\ k.at = "meta" /\ k.why = "insert" /\ k.sid = SidOf[i]
          /\ k.cn = TagOf[SidOf[i]]
      BY <2>2 DEF Cache!Recorded, Cache!Insert, Cache!idle, Fields
    <3>2. k.sid \in Sids /\ k.cn \notin Images
      BY <1>1, <3>1, CacheAssumption DEF Cache!LabelsAssumption
    <3> QED BY <3>1, <3>2 DEF CallOK, LocalsOK, Kept, Sought, Inserting
  <2> QED BY <1>1, <2>1, <2>2
<1>3. TablesGrow
  BY <1>1 DEF TablesGrow, CacheInv, TablesOK
<1>4. TablesOK'
  <2>1. tags' \in [Tags -> Images \cup {NoName}]
    BY <1>1 DEF CacheInv, TablesOK
  <2> QED BY <1>1, <2>1 DEF CacheInv, TablesOK
<1>5. (~mixed => \A r \in meta : Named(r) => Complete(r.id))'
  BY <1>1 DEF CacheInv, Named, Complete
<1> QED BY <1>1, <1>2, <1>3, <1>4, <1>5, OthersStay DEF CacheInv

(* A row is found by its canonical name, or made.                           *)
LEMMA EnsureStep ==
    ASSUME CacheInv, NEW p \in Procs, Cache!ensureInDB(p)
    PROVE  CacheInv'
<1> DEFINE l == proc[p]
           replaced == {r \in meta : r.sid = Cache!InsertedSid(l) /\ r.rev = Cache!InsertedRev(l)}
           new == [id |-> nextId, cn |-> l.cn, sid |-> Cache!InsertedSid(l),
                   rev |-> Cache!InsertedRev(l), etag |-> IF l.cn \in Images THEN l.cn ELSE NoName]
<1>1. l.at = "meta" /\ UNCHANGED <<tags, mixed>>
  BY DEF Cache!ensureInDB, Cache!registry
<1>2. LocalsOK(l) /\ Kept(l) /\ Sought(l) /\ TablesOK
  BY DEF CacheInv, CallOK
<1>3. CASE Cache!RowOf(l.cn) # {}
  <2>1. PICK r, k : /\ r \in Cache!RowOf(l.cn) /\ k = [l EXCEPT !.at = "addquals", !.id = r.id]
                    /\ Cache!Quietly(p, k)
    BY <1>3 DEF Cache!ensureInDB
  <2>2. UNCHANGED <<meta, names, quals, lost, nextId>>
    BY <1>3 DEF Cache!ensureInDB, Cache!db
  <2>3. /\ DOMAIN k = Fields /\ k.at = "addquals" /\ k.why = l.why /\ k.sid = l.sid
        /\ k.calm = l.calm /\ k.name = l.name /\ k.cn = l.cn /\ k.advs = l.advs /\ k.id = r.id
    BY <1>2, <2>1 DEF LocalsOK, Fields
  <2>4. r \in meta /\ r.cn = l.cn
    BY <2>1 DEF Cache!RowOf
  <2>5. LocalsOK(k)
    BY <1>1, <1>2, <2>3, <2>4 DEF LocalsOK, Inserting, TablesOK
  <2>6. Kept(k)
    BY <1>1, <1>2, <2>3, <2>4 DEF Kept, TablesOK
  <2>7. Sought(k)
    BY <1>1, <1>2, <2>3, <2>4 DEF Sought, Inserting
  <2>8. CallOK(k)
    BY <2>5, <2>6, <2>7 DEF CallOK
  <2> QED BY <1>1, <2>1, <2>2, <2>8, SameTables, ReadStep
<1>4. CASE Cache!RowOf(l.cn) = {}
  <2>1. PICK k : k = [l EXCEPT !.at = "addquals", !.id = nextId] /\ Cache!Loudly(p, k)
    BY <1>4, Zenon DEF Cache!ensureInDB
  <2>2. /\ meta' = (meta \ replaced) \cup {new} /\ nextId' = nextId + 1
        /\ names' = [n \in {n \in DOMAIN names : \A r \in replaced : names[n] # r.id} |-> names[n]]
        /\ quals' = {q \in quals : \A r \in replaced : q[1] # r.id} /\ UNCHANGED lost
    BY <1>4 DEF Cache!ensureInDB
  <2>3. /\ new.id = nextId /\ new.cn = l.cn
        /\ IF new.cn \in Images THEN new.sid = SidOf[new.cn] /\ new.etag = new.cn
           ELSE new.etag = NoName
    BY DEF Cache!InsertedSid
  <2>4. replaced \subseteq meta /\ \A r \in meta : r.cn # l.cn
    BY <1>4 DEF Cache!RowOf
  <2>5. /\ DOMAIN k = Fields /\ k.at = "addquals" /\ k.why = l.why /\ k.sid = l.sid
        /\ k.calm = l.calm /\ k.name = l.name /\ k.cn = l.cn /\ k.advs = l.advs /\ k.id = nextId
    BY <1>2, <2>1 DEF LocalsOK, Fields
  <2> HIDE DEF new, replaced, l
  <2>6. TablesGrow
    <3>1. \A r \in meta' : r \in meta \/ r.id = nextId
      BY <2>2, <2>3
    <3>2. ASSUME NEW r \in meta \cap meta', NEW a, <<r.id, a>> \in quals \cup lost
          PROVE  <<r.id, a>> \in quals' \cup lost'
      <4>1. r \notin replaced
        BY <1>2, <2>2, <2>3, <3>2 DEF TablesOK
      <4>2. \A s \in replaced : r.id # s.id
        BY <1>2, <2>4, <4>1 DEF TablesOK
      <4> QED BY <2>2, <3>2, <4>2
    <3> QED BY <1>1, <1>2, <2>2, <3>1, <3>2 DEF TablesGrow, TablesOK
  <2>7. TablesOK'
    <3>1. \A r \in meta' : r = new \/ (r \in meta /\ r.id < nextId /\ r.id \in Nat /\ r.cn # new.cn)
      BY <1>2, <2>2, <2>3, <2>4 DEF TablesOK
    <3>2. \A r \in meta' : r.id \in Nat /\ r.id < nextId'
      BY <1>2, <2>2, <2>3, <3>1 DEF TablesOK
    <3>3. \A r \in meta' :
              IF r.cn \in Images THEN r.sid = SidOf[r.cn] /\ r.etag = r.cn ELSE r.etag = NoName
      BY <1>2, <2>3, <3>1 DEF TablesOK
    <3>4. \A r, s \in meta' : r.id = s.id \/ r.cn = s.cn => r = s
      BY <1>2, <2>3, <3>1 DEF TablesOK
    <3>5. \A n \in DOMAIN names' : names'[n] \in Nat /\ names'[n] < nextId'
      BY <1>2, <2>2 DEF TablesOK
    <3> QED BY <1>1, <1>2, <2>2, <3>2, <3>3, <3>4, <3>5 DEF TablesOK
  <2>8. LocalsOK(k)'
    BY <1>1, <1>2, <2>2, <2>5 DEF LocalsOK, Inserting, TablesOK
  <2>9. Kept(k)'
    <3>1. \A r \in meta' : r.id = nextId => r = new
      BY <1>2, <2>2 DEF TablesOK
    <3> QED BY <1>1, <1>2, <2>3, <2>5, <3>1 DEF Kept
  <2>a. Sought(k)'
    <3>1. new \in meta' /\ new.id = k.id /\ new.cn = k.cn
      BY <2>2, <2>3, <2>5
    <3>2. UNCHANGED tags /\ \A s : Cache!InRegistry(s)' = Cache!InRegistry(s)
      BY <1>1 DEF Cache!InRegistry
    <3> QED BY <1>1, <1>2, <2>5, <3>1, <3>2 DEF Sought, Inserting
  <2>b. (~mixed => \A r \in meta : Named(r) => Complete(r.id))'
    <3> SUFFICES ASSUME ~mixed, NEW r \in meta', Named(r)', NEW a,
                        r.cn \in Images, a \in AdvisoriesOf[r.cn]
                 PROVE  <<r.id, a>> \in quals' \cup lost'
      BY <1>1, <2>7 DEF Complete, TablesOK
    <3>1. PICK n \in DOMAIN names : names[n] = r.id
      BY <2>2 DEF Named
    <3>2. r \in meta
      BY <1>2, <2>2, <2>3, <3>1 DEF TablesOK
    <3>3. <<r.id, a>> \in quals \cup lost
      BY <3>1, <3>2 DEF CacheInv, Named, Complete
    <3> QED BY <2>6, <3>2, <3>3 DEF TablesGrow
  <2>c. CallOK(k)'
    BY <2>8, <2>9, <2>a DEF CallOK
  <2> QED BY <2>1, <2>6, <2>7, <2>b, <2>c, OthersStay DEF CacheInv
<1> QED BY <1>3, <1>4

(* The advisories of a row go in one by one.                                *)
LEMMA QualityStep ==
    ASSUME CacheInv, NEW p \in Procs, Cache!InsertQuality(p)
    PROVE  CacheInv'
<1> DEFINE l == proc[p]
<1>1. l.at = "addquals" /\ UNCHANGED <<tags, meta, names, nextId, mixed>>
  BY DEF Cache!InsertQuality, Cache!registry
<1>2. LocalsOK(l) /\ Kept(l) /\ Sought(l) /\ TablesOK
  BY DEF CacheInv, CallOK
<1>3. CASE l.advs = {} /\ UNCHANGED <<quals, lost>>
           /\ Cache!Quietly(p, [l EXCEPT !.at = "addname", !.more = <<l.cn>>])
  <2> DEFINE k == [l EXCEPT !.at = "addname", !.more = <<l.cn>>]
  <2>1. /\ DOMAIN k = Fields /\ k.at = "addname" /\ k.why = l.why /\ k.sid = l.sid /\ k.id = l.id
        /\ k.calm = l.calm /\ k.name = l.name /\ k.cn = l.cn /\ k.more = <<l.cn>>
    BY <1>2 DEF LocalsOK, Fields
  <2>2. Cache!Quietly(p, k)
    BY <1>3
  <2> HIDE DEF k
  <2>3. LocalsOK(k)
    BY <1>1, <1>2, <2>1 DEF LocalsOK, Inserting
  <2>4. Kept(k)
    BY <1>1, <1>2, <1>3, <2>1 DEF Kept, Complete
  <2>5. Sought(k)
    BY <1>1, <1>2, <2>1 DEF Sought, Inserting
  <2>6. CallOK(k)
    BY <2>3, <2>4, <2>5 DEF CallOK
  <2> QED BY <1>1, <1>3, <2>2, <2>6, SameTables, ReadStep
<1>4. ASSUME NEW a \in l.advs,
             quals' = IF Cache!Live(l.id) THEN quals \cup {<<l.id, a>>} ELSE quals,
             UNCHANGED lost, Cache!Loudly(p, [l EXCEPT !.advs = @ \ {a}])
      PROVE  CacheInv'
  <2>2. PICK k : k = [l EXCEPT !.advs = @ \ {a}] /\ Cache!Loudly(p, k)
    BY <1>4
  <2>1. /\ DOMAIN k = Fields /\ k.at = "addquals" /\ k.why = l.why /\ k.sid = l.sid /\ k.id = l.id
        /\ k.calm = l.calm /\ k.name = l.name /\ k.cn = l.cn /\ k.advs = l.advs \ {a}
    BY <1>1, <1>2, <2>2 DEF LocalsOK, Fields
  <2>3. TablesGrow
    BY <1>1, <1>2, <1>4 DEF TablesGrow, TablesOK
  <2>4. TablesOK'
    BY <1>1, <1>2 DEF TablesOK
  <2>5. LocalsOK(k)'
    BY <1>1, <1>2, <2>1 DEF LocalsOK, Inserting
  <2>6. Kept(k)'
    BY <1>1, <1>2, <1>4, <2>1 DEF Kept, Cache!Live
  <2>7. Sought(k)'
    <3>1. UNCHANGED tags /\ \A s : Cache!InRegistry(s)' = Cache!InRegistry(s)
      BY <1>1 DEF Cache!InRegistry
    <3> QED BY <1>1, <1>2, <2>1, <3>1 DEF Sought, Inserting
  <2>8. CallOK(k)'
    BY <2>5, <2>6, <2>7 DEF CallOK
  <2>9. (~mixed => \A r \in meta : Named(r) => Complete(r.id))'
    BY <1>1, <1>4 DEF CacheInv, Named, Complete
  <2> QED BY <2>2, <2>3, <2>4, <2>8, <2>9, OthersStay DEF CacheInv
<1>5. ASSUME NEW a \in l.advs,
             UNCHANGED quals, lost' = lost \cup {<<l.id, a>>},
             Cache!Quietly(p, [l EXCEPT !.advs = @ \ {a}, !.calm = FALSE])
      PROVE  CacheInv'
  <2>2. PICK k : k = [l EXCEPT !.advs = @ \ {a}, !.calm = FALSE] /\ Cache!Quietly(p, k)
    BY <1>5
  <2>1. /\ DOMAIN k = Fields /\ k.at = "addquals" /\ k.why = l.why /\ k.sid = l.sid /\ k.id = l.id
        /\ ~k.calm /\ k.cn = l.cn /\ k.advs = l.advs \ {a}
    BY <1>1, <1>2, <2>2 DEF LocalsOK, Fields
  <2>3. TablesGrow
    BY <1>1, <1>2, <1>5 DEF TablesGrow, TablesOK
  <2>4. TablesOK'
    BY <1>1, <1>2 DEF TablesOK
  <2>5. LocalsOK(k)'
    BY <1>1, <1>2, <2>1 DEF LocalsOK, Inserting
  <2>6. Kept(k)'
    BY <1>1, <1>2, <1>5, <2>1 DEF Kept, Cache!Live
  <2>7. Sought(k)'
    BY <2>1 DEF Sought
  <2>8. CallOK(k)'
    BY <2>5, <2>6, <2>7 DEF CallOK
  <2>9. (~mixed => \A r \in meta : Named(r) => Complete(r.id))'
    BY <1>1, <1>5 DEF CacheInv, Named, Complete
  <2> QED BY <1>1, <2>2, <2>3, <2>4, <2>8, <2>9, OthersStay DEF CacheInv
<1> QED BY <1>3, <1>4, <1>5 DEF Cache!InsertQuality

(* A row gets its names, unless it is gone.                                 *)
LEMMA AddNameStep ==
    ASSUME CacheInv, NEW p \in Procs, Cache!dbAddNamesForID(p)
    PROVE  CacheInv'
<1> DEFINE l == proc[p]
<1>1. l.at = "addname" /\ UNCHANGED <<tags, meta, quals, lost, nextId, mixed>>
  BY DEF Cache!dbAddNamesForID, Cache!registry
<1>2. LocalsOK(l) /\ Kept(l) /\ Sought(l) /\ TablesOK
  BY DEF CacheInv, CallOK
<1>3. l.why \in {"label", "insert", "warm", "harvest"} /\ l.id \in Nat /\ l.id < nextId
  BY <1>1, <1>2 DEF LocalsOK, Inserting
<1>4. l.why = "harvest" /\ l.calm /\ l.sid # NoName => ~Cache!InRegistry(l.sid)
  BY <1>2 DEF Sought
<1>5. l.why = "warm" /\ l.calm =>
          /\ l.name = TagOf[l.sid] /\ l.cn = tags[l.name] /\ l.cn \in Images
          /\ \E r \in meta : r.id = l.id /\ r.cn = l.cn
          /\ \/ l.more \in {<<l.cn>>, <<l.name, l.cn>>}
             \/ l.more = <<>> /\ l.cn \in DOMAIN names /\ names[l.cn] = l.id
  BY <1>1, <1>2 DEF Sought, Inserting
<1> HIDE DEF l
<1>6. ASSUME l.more = <<>>, UNCHANGED names, NEW k \in Cache!AfterNames(l), Cache!Quietly(p, k)
      PROVE  CacheInv'
  <2>1. CASE l.why = "insert" \/ l.named
    <3>1. k \in Cache!Returns(l, Cache!InsertedSid(l), FALSE)
      BY <1>6, <2>1 DEF Cache!AfterNames
    <3>2. l.why = "warm" /\ l.calm =>
              \/ Cache!InsertedSid(l) = l.sid /\ Cache!Visible(l.sid) # {}
              \/ ~Cache!InRegistry(l.sid)
      <4> SUFFICES ASSUME l.why = "warm", l.calm, Cache!InRegistry(l.sid)
                   PROVE  Cache!InsertedSid(l) = l.sid /\ Cache!Visible(l.sid) # {}
        OBVIOUS
      <4>1. l.cn \in Images /\ SidOf[l.cn] = l.sid
        BY <1>5 DEF Cache!InRegistry
      <4>2. PICK r \in meta : r.id = l.id /\ r.cn = l.cn
        BY <1>5
      <4>3. l.cn \in DOMAIN names /\ names[l.cn] = l.id
        BY <1>5, <1>6
      <4>4. r.sid = l.sid
        BY <1>2, <4>1, <4>2 DEF TablesOK
      <4> QED BY <4>1, <4>2, <4>3, <4>4 DEF Cache!InsertedSid, Cache!Visible
    <3>3. CallOK(k)
      BY <1>2, <1>3, <1>4, <3>1, <3>2, ReturnsOK
    <3> QED BY <1>1, <1>6, <3>3, SameTables, ReadStep
  <2>2. CASE ~(l.why = "insert" \/ l.named)
    <3>1. k = [l EXCEPT !.at = "namesof", !.named = TRUE]
      BY <1>6, <2>2 DEF Cache!AfterNames
    <3>2. /\ DOMAIN k = Fields /\ k.at = "namesof" /\ k.why = l.why /\ k.sid = l.sid
          /\ k.id = l.id /\ k.calm = l.calm /\ k.name = l.name /\ k.cn = l.cn
      BY <1>2, <3>1 DEF LocalsOK, Fields
    <3>3. LocalsOK(k)
      BY <1>2, <1>3, <3>2 DEF LocalsOK, Inserting
    <3>4. Kept(k)
      BY <1>1, <1>2, <3>2 DEF Kept
    <3>5. Sought(k)
      BY <1>1, <1>4, <1>5, <3>2 DEF Sought, Inserting
    <3>6. CallOK(k)
      BY <3>3, <3>4, <3>5 DEF CallOK
    <3> QED BY <1>1, <1>6, <3>6, SameTables, ReadStep
  <2> QED BY <2>1, <2>2
<1>7. ASSUME ~Cache!Live(l.id), UNCHANGED names, NEW k \in Cache!Returns(l, NoName, TRUE),
             Cache!Quietly(p, k)
      PROVE  CacheInv'
  <2>1. ~(l.why = "warm" /\ l.calm)
    BY <1>5, <1>7 DEF Cache!Live
  <2>2. CallOK(k)
    BY <1>2, <1>3, <1>4, <1>7, <2>1, ReturnsOK
  <2> QED BY <1>1, <1>7, <2>2, SameTables, ReadStep
<1>8. ASSUME l.more # <<>>, Cache!Loudly(p, [l EXCEPT !.more = Tail(@)]),
             \/ /\ Cache!Live(l.id)
                /\ names' = [n \in DOMAIN names \cup {Head(l.more)} |->
                                IF n = Head(l.more) THEN l.id ELSE names[n]]
             \/ /\ ~Cache!Live(l.id)
                /\ names' = [n \in DOMAIN names \ {Head(l.more)} |-> names[n]]
      PROVE  CacheInv'
  <2>2. PICK k : k = [l EXCEPT !.more = Tail(@)] /\ Cache!Loudly(p, k)
    BY <1>8
  <2>1. /\ DOMAIN k = Fields /\ k.at = "addname" /\ k.why = l.why /\ k.sid = l.sid /\ k.id = l.id
        /\ k.calm = l.calm /\ k.name = l.name /\ k.cn = l.cn /\ k.more = Tail(l.more)
    BY <1>1, <1>2, <2>2 DEF LocalsOK, Fields
  <2>3. TablesGrow
    BY <1>1, <1>2 DEF TablesGrow, TablesOK
  <2>4. TablesOK'
    <3>1. \A n \in DOMAIN names' : names'[n] \in Nat /\ names'[n] < nextId
      BY <1>2, <1>3, <1>8 DEF TablesOK
    <3> QED BY <1>1, <1>2, <3>1 DEF TablesOK
  <2>5. LocalsOK(k)'
    BY <1>1, <1>2, <1>3, <2>1 DEF LocalsOK, Inserting
  <2>6. Kept(k)'
    BY <1>1, <1>2, <2>1 DEF Kept, Complete
  <2>7. Sought(k)'
    <3>1. UNCHANGED <<tags, meta>> /\ \A s : Cache!InRegistry(s)' = Cache!InRegistry(s)
      BY <1>1 DEF Cache!InRegistry
    <3>2. k.why = "warm" /\ k.calm =>
              \/ k.more \in {<<k.cn>>, <<k.name, k.cn>>}
              \/ k.more = <<>> /\ k.cn \in DOMAIN names' /\ names'[k.cn] = k.id
      <4> SUFFICES ASSUME l.why = "warm", l.calm
                   PROVE  \/ Tail(l.more) \in {<<l.cn>>, <<l.name, l.cn>>}
                          \/ Tail(l.more) = <<>> /\ l.cn \in DOMAIN names' /\ names'[l.cn] = l.id
        BY <2>1
      <4>1. Cache!Live(l.id)
        BY <1>5 DEF Cache!Live
      <4>2. CASE l.more = <<l.cn>>
        <5>1. Head(l.more) = l.cn /\ Tail(l.more) = <<>>
          BY <4>2
        <5> QED BY <1>8, <4>1, <5>1
      <4>3. CASE l.more = <<l.name, l.cn>>
        BY <4>3
      <4> QED BY <1>5, <1>8, <4>2, <4>3
    <3> QED BY <1>4, <1>5, <2>1, <3>1, <3>2 DEF Sought, Inserting
  <2>8. CallOK(k)'
    BY <2>5, <2>6, <2>7 DEF CallOK
  <2>9. (~mixed => \A r \in meta : Named(r) => Complete(r.id))'
    <3> SUFFICES ASSUME ~mixed, NEW r \in meta, Named(r)' PROVE Complete(r.id)
      BY <1>1 DEF Complete
    <3>1. r.id = l.id \/ Named(r)
      BY <1>8 DEF Named
    <3> QED BY <1>1, <1>2, <3>1 DEF CacheInv, Kept
  <2> QED BY <2>2, <2>3, <2>4, <2>8, <2>9, OthersStay DEF CacheInv
<1> QED BY <1>6, <1>7, <1>8 DEF Cache!dbAddNamesForID, l

(* A call whose statement fails is disturbed, and comes to nothing or goes  *)
(* on as if there had been nothing to find.                                 *)
LEMMA FailsStep ==
    ASSUME CacheInv, NEW p \in Procs, Cache!StatementFails(p)
    PROVE  CacheInv'
<1> DEFINE l == proc[p]
<1>1. UNCHANGED <<tags, meta, names, quals, lost, nextId, mixed>>
  BY DEF Cache!StatementFails, Cache!db, Cache!registry
<1>2. LocalsOK(l)
  BY DEF CacheInv, CallOK
<1>3. PICK k :
          /\ Cache!Quietly(p, [k EXCEPT !.calm = FALSE])
          /\ \/ l.at \in {"cname", "quals"} /\ k = Cache!Missing(l)
             \/ /\ l.at = "cname"
                /\ k = [l EXCEPT !.at = "name", !.why = "warm", !.name = TagOf[l.sid]]
             \/ /\ l.at \in {"name", "meta", "namesof", "addname"}
                /\ k \in Cache!Returns(l, NoName, TRUE)
  BY DEF Cache!StatementFails, Cache!Missed
<1>4. CASE l.at \in {"cname", "quals"} /\ k = Cache!Missing(l)
  <2>1. PICK d : d = [k EXCEPT !.calm = FALSE]
    OBVIOUS
  <2>2. DOMAIN d = Fields /\ d.at = "done" /\ d.why = "label" /\ d.sid = l.sid /\ ~d.calm
    BY <1>4, <2>1 DEF Cache!Missing, Cache!idle, Fields
  <2>3. LocalsOK(d)
    BY <1>2, <2>2 DEF LocalsOK, Inserting
  <2>4. CallOK(d)
    BY <2>2, <2>3, AskingOK DEF Inserting
  <2> QED BY <1>1, <1>3, <2>1, <2>4, SameTables, ReadStep
<1>5. CASE l.at = "cname" /\ k = [l EXCEPT !.at = "name", !.why = "warm", !.name = TagOf[l.sid]]
  <2>1. PICK d : d = [k EXCEPT !.calm = FALSE]
    OBVIOUS
  <2>2. DOMAIN d = Fields /\ d.at = "name" /\ d.why = "warm" /\ d.sid = l.sid /\ ~d.calm
    BY <1>2, <1>5, <2>1 DEF LocalsOK, Fields
  <2>3. LocalsOK(d)
    BY <1>2, <1>5, <2>2 DEF LocalsOK, Inserting
  <2>4. CallOK(d)
    BY <2>2, <2>3, AskingOK DEF Inserting
  <2> QED BY <1>1, <1>3, <2>1, <2>4, SameTables, ReadStep
<1>6. CASE l.at \in {"name", "meta", "namesof", "addname"} /\ k \in Cache!Returns(l, NoName, TRUE)
  <2>1. l.why \in {"label", "insert", "warm", "harvest"}
    BY <1>2, <1>6 DEF LocalsOK, Inserting
  <2>2. CallOK([k EXCEPT !.calm = FALSE])
    BY <1>2, <1>6, <2>1, ReturnsDisturbed
  <2> QED BY <1>1, <1>3, <2>2, SameTables, ReadStep
<1> QED BY <1>3, <1>4, <1>5, <1>6

(* The row is looked up once more before it gets the name that was asked    *)
(* for.                                                                     *)
LEMMA AddNamesStep ==
    ASSUME CacheInv, NEW p \in Procs, Cache!dbAddNames(p)
    PROVE  CacheInv'
<1> DEFINE l == proc[p]
<1>1. /\ l.at = "namesof" /\ UNCHANGED <<tags, meta, names, quals, lost, nextId>>
      /\ mixed' = (mixed \/ \E x \in Cache!RowOf(l.cn) : x.id # l.id)
  BY DEF Cache!dbAddNames, Cache!db, Cache!registry
<1>2. LocalsOK(l) /\ Kept(l) /\ Sought(l) /\ TablesOK
  BY DEF CacheInv, CallOK
<1>3. l.why \in {"label", "insert", "warm", "harvest"}
  BY <1>1, <1>2 DEF LocalsOK, Inserting
<1>4. l.why = "harvest" /\ l.calm /\ l.sid # NoName => ~Cache!InRegistry(l.sid)
  BY <1>2 DEF Sought
<1>5. l.why = "warm" /\ l.calm =>
          /\ l.name = TagOf[l.sid] /\ l.cn = tags[l.name] /\ l.cn \in Images
          /\ \E r \in meta : r.id = l.id /\ r.cn = l.cn
  BY <1>1, <1>2 DEF Sought, Inserting
<1>6. ASSUME NEW x \in Cache!RowOf(l.cn), NEW k, Cache!Quietly(p, k),
             k = [l EXCEPT !.at = "addname", !.id = x.id, !.more = <<l.name, l.cn>>]
      PROVE  CacheInv'
  <2>1. /\ DOMAIN k = Fields /\ k.at = "addname" /\ k.why = l.why /\ k.sid = l.sid /\ k.id = x.id
        /\ k.calm = l.calm /\ k.name = l.name /\ k.cn = l.cn /\ k.more = <<l.name, l.cn>>
    BY <1>2, <1>6 DEF LocalsOK, Fields
  <2>2. x \in meta /\ x.cn = l.cn /\ (~mixed' => ~mixed /\ x.id = l.id)
    BY <1>1 DEF Cache!RowOf
  <2> HIDE DEF l
  <2>3. LocalsOK(k)'
    BY <1>1, <1>2, <1>3, <2>1, <2>2 DEF LocalsOK, Inserting, TablesOK
  <2>4. Kept(k)'
    BY <1>1, <1>2, <2>1, <2>2 DEF Kept, Complete
  <2>5. Sought(k)'
    <3>1. UNCHANGED <<tags, meta>> /\ \A s : Cache!InRegistry(s)' = Cache!InRegistry(s)
      BY <1>1 DEF Cache!InRegistry
    <3> QED BY <1>4, <1>5, <2>1, <2>2, <3>1 DEF Sought, Inserting
  <2>6. CallOK(k)'
    BY <2>3, <2>4, <2>5 DEF CallOK
  <2> QED BY <1>1, <1>6, <2>6, ReadStep
<1>7. ASSUME Cache!RowOf(l.cn) = {}, NEW k \in Cache!Returns(l, NoName, TRUE), Cache!Quietly(p, k)
      PROVE  CacheInv'
  <2>1. ~(l.why = "warm" /\ l.calm)
    BY <1>5, <1>7 DEF Cache!RowOf
  <2>2. mixed' <=> mixed
    BY <1>1, <1>7
  <2> HIDE DEF l
  <2>3. CallOK(k)
    BY <1>2, <1>3, <1>4, <1>7, <2>1, ReturnsOK
  <2>4. CallOK(k)'
    BY <1>1, <2>2, <2>3
       DEF CallOK, LocalsOK, Kept, Sought, Complete, Named, Cache!InRegistry, Cache!Visible
  <2> QED BY <1>1, <1>7, <2>2, <2>4, ReadStep
<1> QED BY <1>6, <1>7 DEF Cache!dbAddNames

(* The server stops, with or without another schema when it comes back.     *)
LEMMA RestartStep ==
    ASSUME CacheInv, Cache!Restart \/ Cache!GroomDatabase
    PROVE  CacheInv'
<1>1. CASE Cache!Restart
  <2>1. /\ UNCHANGED <<tags, meta, names, quals, lost, nextId, mixed>>
        /\ proc' = [p \in Procs |-> Cache!idle]
    BY <1>1 DEF Cache!Restart, Cache!db, Cache!registry
  <2>2. TablesOK' /\ (~mixed => \A r \in meta : Named(r) => Complete(r.id))'
    BY <2>1 DEF CacheInv, TablesOK, Named, Complete
  <2>3. PICK k : k = Cache!idle
    OBVIOUS
  <2>4. CallOK(k)'
    BY <2>1, <2>3, IdleOK, SameTables
  <2> QED BY <2>1, <2>2, <2>3, <2>4 DEF CacheInv
<1>2. CASE Cache!GroomDatabase
  <2>1. /\ UNCHANGED <<tags, nextId, mixed>>
        /\ meta' = {} /\ names' = [n \in {} |-> 0] /\ quals' = {}
    BY <1>2 DEF Cache!GroomDatabase, Cache!registry
  <2>2. TablesOK' /\ (~mixed => \A r \in meta : Named(r) => Complete(r.id))'
    BY <2>1 DEF CacheInv, TablesOK
  <2>3. PICK i, k : i = Cache!idle /\ k = [Cache!idle EXCEPT !.at = "tags", !.why = "groom"]
    OBVIOUS
  <2>4. CallOK(i)'
    BY <2>3 DEF CallOK, LocalsOK, Kept, Sought, Cache!idle, Inserting, Fields
  <2>5. CallOK(k)'
    <3>1. DOMAIN k = Fields /\ k.at = "tags" /\ k.why = "groom" /\ k.sid = NoName
      BY <2>3 DEF Cache!idle, Fields
    <3> QED BY <3>1 DEF CallOK, LocalsOK, Kept, Sought, Inserting
  <2>6. /\ proc' = [p \in Procs |-> proc'[p]]
        /\ \A p \in Procs : proc'[p] = i \/ proc'[p] = k
    BY <1>2, <2>3 DEF Cache!GroomDatabase
  <2> QED BY <2>2, <2>4, <2>5, <2>6 DEF CacheInv
<1> QED BY <1>1, <1>2

(* It holds whatever the processes do.                                      *)
LEMMA CacheAlways == Spec => []CacheInv
<1>1. Init => CacheInv
  <2> SUFFICES ASSUME Init PROVE CacheInv
    OBVIOUS
  <2>1. /\ tags = [t \in Tags |-> NoName] /\ meta = {} /\ names = [n \in {} |-> 0]
        /\ nextId = 1 /\ proc = [p \in Procs |-> Cache!idle]
    BY DEF Init, Cache!Init
  <2>2. TablesOK /\ (~mixed => \A r \in meta : Named(r) => Complete(r.id))
    BY <2>1 DEF TablesOK
  <2> QED BY <2>1, <2>2, IdleOK DEF CacheInv
<1>2. CacheInv /\ [Next]_vars => CacheInv'
  <2> SUFFICES ASSUME CacheInv, [Cache!Next]_cacheVars PROVE CacheInv'
    BY PartSteps
  <2>1. CASE UNCHANGED cacheVars
    <3>1. UNCHANGED <<tags, meta, names, quals, lost, nextId, mixed, proc>>
      BY <2>1 DEF cacheVars
    <3>2. TablesOK' /\ (~mixed => \A r \in meta : Named(r) => Complete(r.id))'
      BY <3>1 DEF CacheInv, TablesOK, Named, Complete
    <3>3. \A p \in Procs : CallOK(proc[p])'
      BY <3>1, SameTables DEF CacheInv
    <3> QED BY <3>1, <3>2, <3>3 DEF CacheInv
  <2>2. CASE Cache!Next
    BY <2>2, BeginStep, NameStep, TagsStep, OnNameStep, MetadataStep, RegisterStep, EnsureStep,
       QualityStep, AddNameStep, AddNamesStep, FailsStep, RestartStep DEF Cache!Next
  <2> QED BY <2>1, <2>2
<1> QED
  BY <1>1, <1>2, PTL DEF Spec

(* No image is found before all its advisories are in, whichever of several *)
(* calls made its row, whichever names it, and wherever restarts and        *)
(* failures cut them off, but for an advisory whose own insert failed, and  *)
(* unless a row is named that came in place of another (image_mapping.go);  *)
(* for any images, source IDs, tags and processes.                          *)
THEOREM AdvisoriesKeptAlways == Spec => []AdvisoriesKept
<1>1. CacheInv => AdvisoriesKept
  BY DEF CacheInv, AdvisoriesKept, Cache!AdvisoriesKept, Cache!Visible, Named, Complete
<1> QED
  BY <1>1, CacheAlways, PTL

(* An image that is in the registry under its tag is found by a call that   *)
(* nobody disturbs, whatever builds, lookups and restarts have left in the  *)
(* tables (image_mapping.go).                                               *)
THEOREM FoundIfThereAlways == Spec => []FoundIfThere
<1>1. CacheInv => FoundIfThere
  BY DEF CacheInv, FoundIfThere, Cache!FoundIfThere, CallOK, Sought
<1> QED
  BY <1>1, CacheAlways, PTL

----------------------------------------------------------------------------
(* The tables (ext/storage).                                                *)

(* A part counts as its module does.                                        *)
LEMMA TableCounting ==
    ASSUME NEW S
    PROVE  Database!Cardinality(S) = Cardinality(S)
  BY DEF Database!Cardinality, Cardinality, Database!IsFiniteSet, IsFiniteSet

(* There is a newest of some rows, and it is where no row is newer.         *)
LEMMA NewestIs ==
    ASSUME NEW n \in Nat, NEW ids \in SUBSET (1..n)
    PROVE  /\ ids # {} => /\ Database!Newest(ids) \in ids
                          /\ \A j \in ids : j <= Database!Newest(ids)
           /\ \A i \in ids : (\A j \in ids : j <= i) => Database!Newest(ids) = i
<1>1. ASSUME ids # {}
      PROVE  \E i \in ids : \A j \in ids : j <= i
  <2> DEFINE back == {n - i : i \in ids}
  <2>1. back \subseteq Nat /\ back # {}
    <3>1. \A i \in 1..n : n - i \in Nat
      OBVIOUS
    <3>2. \A i \in ids : i \in 1..n
      OBVIOUS
    <3> QED BY <1>1, <3>1, <3>2
  <2>2. PICK b \in back : \A k \in back : ~(<<k, b>> \in OpToRel(<, Nat))
    <3> HIDE DEF back
    <3> QED BY <2>1, NatLessThanWellFounded, WFMin
  <2>3. PICK i \in ids : b = n - i
    OBVIOUS
  <2>4. ASSUME NEW j \in ids
        PROVE  j <= i
    <3>1. n - j \in back /\ n - j \in Nat /\ b \in Nat
      BY <2>1
    <3>2. ~(n - j < b)
      <4> HIDE DEF back
      <4>1. ~(<<n - j, b>> \in OpToRel(<, Nat))
        BY <2>2, <3>1
      <4> QED BY <3>1, <4>1, Zenon DEF OpToRel
    <3>3. i \in 1..n /\ j \in 1..n
      OBVIOUS
    <3> HIDE DEF back
    <3> QED BY <2>3, <3>2, <3>3
  <2> QED BY <2>3, <2>4
<1>2. ids # {} => /\ Database!Newest(ids) \in ids
                  /\ \A j \in ids : j <= Database!Newest(ids)
  BY <1>1 DEF Database!Newest
<1>3. ASSUME NEW i \in ids, \A j \in ids : j <= i
      PROVE  Database!Newest(ids) = i
  <2>1. /\ Database!Newest(ids) \in ids /\ i <= Database!Newest(ids)
        /\ Database!Newest(ids) <= i
    BY <1>2, <1>3
  <2>2. Database!Newest(ids) \in Nat /\ i \in Nat
    <3>1. \A k \in ids : k \in 1..n /\ k \in Nat
      OBVIOUS
    <3> QED BY <2>1, <3>1
  <2> QED BY <2>1, <2>2
<1> QED
  BY <1>2, <1>3

(* A set in some order.                                                     *)
LEMMA InSomeOrder ==
    ASSUME NEW S, IsFiniteSet(S)
    PROVE  LET s == Database!SetToSeq(S) IN
           /\ Cardinality(S) \in Nat /\ s \in Seq(S) /\ Len(s) = Cardinality(S)
           /\ \A x \in S : \E i \in 1..Cardinality(S) : s[i] = x
           /\ \A i, j \in 1..Cardinality(S) : s[i] = s[j] => i = j
<1> DEFINE n == Cardinality(S)
           s == Database!SetToSeq(S)
<1>1. n \in Nat /\ ExistsBijection(1..n, S)
  BY FS_CardinalityType
<1>2. PICK f \in [1..n -> S] : Database!IsInjective(f)
  BY <1>1 DEF ExistsBijection, Bijection, Injection, IsInjective, Database!IsInjective
<1>3. s \in [1..n -> S] /\ Database!IsInjective(s)
  BY <1>2, TableCounting DEF Database!SetToSeq
<1> HIDE DEF s, n
<1>4. s \in Seq(S) /\ Len(s) = n
  BY <1>1, <1>3
<1>5. \A i, j \in 1..n : s[i] = s[j] => i = j
  BY <1>3 DEF Database!IsInjective
<1>6. s \in Injection(1..n, S)
  BY <1>3, <1>5 DEF Injection, IsInjective
<1>7. s \in Surjection(1..n, S)
  <2>1. Cardinality(1..n) = n
    BY <1>1, FS_Interval
  <2> QED BY <1>6, <2>1, FS_Injection DEF n
<1>8. \A x \in S : \E i \in 1..n : s[i] = x
  BY <1>7 DEF Surjection
<1> QED
  BY <1>1, <1>4, <1>5, <1>8 DEF s, n

(* A sequence without repetition is as long as the set of its entries.      *)
LEMMA WithoutRepetition ==
    ASSUME NEW T, NEW s \in Seq(T)
    PROVE  /\ IsFiniteSet(Database!ToSet(s))
           /\ (\A i, j \in DOMAIN s : s[i] = s[j] => i = j) => Cardinality(Database!ToSet(s)) = Len(s)
<1> DEFINE S == Database!ToSet(s)
           n == Len(s)
<1>1. n \in Nat /\ DOMAIN s = 1..n /\ S = {s[i] : i \in 1..n} /\ s \in [1..n -> S]
  BY DEF Database!ToSet
<1>2. s \in Surjection(1..n, S)
  BY <1>1 DEF Surjection
<1>3. IsFiniteSet(1..n) /\ Cardinality(1..n) = n
  BY <1>1, FS_Interval
<1> HIDE DEF S, n
<1>4. IsFiniteSet(S) /\ (Cardinality(S) = Cardinality(1..n) <=> s \in Injection(1..n, S))
  BY <1>2, <1>3, FS_Surjection
<1>5. ASSUME \A i, j \in DOMAIN s : s[i] = s[j] => i = j
      PROVE  Cardinality(S) = n
  BY <1>1, <1>3, <1>4, <1>5 DEF Injection, IsInjective
<1> QED
  BY <1>4, <1>5 DEF S, n

----------------------------------------------------------------------------
(* What the tables have, and how it fits what was written last.             *)
RowType ==
    [comp : Mids \X Kinds, cluster : Clusters, version : Versions, lifecycle : {"active"}]
RowsAt(rows, id) ==
    {i \in DOMAIN rows : rows[i].comp[1] = id[1] /\ rows[i].cluster = id[2]}
OneKind(rows, mid) ==
    \A i, j \in DOMAIN rows :
        rows[i].comp[1] = mid /\ rows[j].comp[1] = mid => rows[i].comp[2] = rows[j].comp[2]

(* d is what row r says, with what hangs on it.                             *)
Stands(rows, es, vs, os, id, r, d) ==
    /\ rows[r].comp[2] = d.kind /\ rows[r].version = d.version
    /\ \A n \in Names : <<r, n>> \in DOMAIN es <=> n \in DOMAIN d.env
    /\ \A n \in DOMAIN d.env : es[<<r, n>>] = d.env[n]
    /\ \A v \in Volumes : <<r, v>> \in vs <=> v \in Database!ToSet(d.volumes)
    /\ \A o \in d.owners : <<<<id[1], d.kind>>, o>> \in os

(* Every row is of its type, and what hangs on a row hangs on one there is. *)
TablesFit(rows, es, vs, os) ==
    /\ rows \in Seq(RowType)
    /\ DOMAIN es \subseteq (1..Len(rows)) \X Names /\ \A key \in DOMAIN es : es[key] \in Values
    /\ vs \subseteq (1..Len(rows)) \X Volumes
    /\ os \subseteq (Mids \X Kinds) \X Owners
(* What was written has rows, and no row is of anything else.               *)
StateFits(rows, cs, state) ==
    /\ IsFiniteSet(DOMAIN state) /\ DOMAIN state \subseteq Mids \X Clusters
    /\ \A id \in DOMAIN state : /\ state[id] \in Database!Deployment
                                /\ id[2] \in cs /\ RowsAt(rows, id) # {}
    /\ \A i \in DOMAIN rows : <<rows[i].comp[1], rows[i].cluster>> \in DOMAIN state
(* The newest row of each deployment says what was written of it.           *)
StateStands(rows, es, vs, os, state) ==
    \A id \in DOMAIN state : OneKind(rows, id[1]) =>
        Stands(rows, es, vs, os, id, Database!Newest(RowsAt(rows, id)), state[id])
(* All this of the tables and the state that was written last.              *)
TableInv ==
    /\ TablesFit(deployments, envs, volumes, owned)
    /\ StateFits(deployments, clusters, wrote)
    /\ StateStands(deployments, envs, volumes, owned, wrote)

(* It holds of empty tables.                                                *)
LEMMA TableInit == Database!Init => TableInv
<1> SUFFICES ASSUME Database!Init PROVE TableInv
  OBVIOUS
<1>1. deployments = <<>> /\ DOMAIN deployments = {} /\ Len(deployments) = 0
      /\ DOMAIN envs = {} /\ volumes = {} /\ owned = {} /\ DOMAIN wrote = {}
  BY DEF Database!Init
<1>2. TablesFit(deployments, envs, volumes, owned)
  BY <1>1 DEF TablesFit
<1>3. StateFits(deployments, clusters, wrote)
  BY <1>1, FS_EmptySet DEF StateFits
<1> QED
  BY <1>1, <1>2, <1>3 DEF TableInv, StateStands

(* The rows of a deployment as they are.                                    *)
LEMMA RowsAre ==
    ASSUME NEW es, NEW vs, NEW os, NEW rows, TablesFit(rows, es, vs, os)
    PROVE  /\ Len(rows) \in Nat /\ DOMAIN rows = 1..Len(rows)
           /\ \A i \in DOMAIN rows :
                 /\ rows[i].comp = <<rows[i].comp[1], rows[i].comp[2]>>
                 /\ rows[i].comp[1] \in Mids /\ rows[i].comp[2] \in Kinds
                 /\ rows[i].cluster \in Clusters /\ rows[i].lifecycle = "active"
           /\ \A id : RowsAt(rows, id) \in SUBSET (1..Len(rows))
<1>1. rows \in Seq(RowType) /\ Len(rows) \in Nat /\ DOMAIN rows = 1..Len(rows)
  BY DEF TablesFit
<1>2. ASSUME NEW i \in DOMAIN rows
      PROVE  /\ rows[i].comp = <<rows[i].comp[1], rows[i].comp[2]>>
             /\ rows[i].comp[1] \in Mids /\ rows[i].comp[2] \in Kinds
             /\ rows[i].cluster \in Clusters /\ rows[i].lifecycle = "active"
  <2>1. rows[i] \in RowType
    BY <1>1
  <2> QED BY <2>1 DEF RowType
<1>3. \A id : RowsAt(rows, id) \in SUBSET (1..Len(rows))
  BY <1>1 DEF RowsAt
<1> QED
  BY <1>1, <1>2, <1>3

(* A deployment that has rows is found by the newest of one of its          *)
(* components; if its manifest has one kind, by the newest of all.          *)
LEMMA LiveAre ==
    ASSUME TablesFit(deployments, envs, volumes, owned), NEW id
    PROVE  /\ Database!LiveOf(id) # {} <=> RowsAt(deployments, id) # {}
           /\ RowsAt(deployments, id) # {} /\ OneKind(deployments, id[1]) =>
                LET r == Database!Newest(RowsAt(deployments, id))
                IN  /\ r \in RowsAt(deployments, id) /\ Database!LiveOf(id) = {r}
                    /\ Database!LiveKinds(id[1]) = {deployments[r].comp[2]}
<1> DEFINE rows == deployments
           same(i) == Database!RowsOf(rows, rows[i].comp, rows[i].cluster)
           At == RowsAt(rows, id)
           r == Database!Newest(At)
<1>1. /\ Len(rows) \in Nat /\ DOMAIN rows = 1..Len(rows)
      /\ \A i \in DOMAIN rows : /\ rows[i].comp = <<rows[i].comp[1], rows[i].comp[2]>>
                                /\ rows[i].lifecycle = "active"
      /\ At \in SUBSET (1..Len(rows))
  BY RowsAre
<1>2. \A i, j \in DOMAIN rows :
         j \in same(i) <=> rows[j].comp = rows[i].comp /\ rows[j].cluster = rows[i].cluster
  BY DEF Database!RowsOf
<1>3. \A i \in DOMAIN rows : same(i) \in SUBSET (1..Len(rows)) /\ i \in same(i)
  BY <1>1 DEF Database!RowsOf
<1>4. \A i : i \in Database!Live <=> i \in DOMAIN rows /\ i = Database!Newest(same(i))
  BY <1>1 DEF Database!Live
<1>5. \A i : i \in Database!LiveOf(id) <=> i \in Database!Live /\ i \in At
  BY <1>4 DEF Database!LiveOf, RowsAt
<1>6. \A i : i \in At <=> i \in DOMAIN rows /\ rows[i].comp[1] = id[1] /\ rows[i].cluster = id[2]
  BY DEF RowsAt
<1>7. ASSUME NEW i \in At
      PROVE  Database!LiveOf(id) # {}
  <2> DEFINE j == Database!Newest(same(i))
  <2> HIDE DEF same
  <2>1. j \in same(i)
    BY <1>1, <1>3, <1>6, NewestIs
  <2>2. j \in DOMAIN rows /\ rows[j].comp = rows[i].comp /\ rows[j].cluster = rows[i].cluster
    BY <1>1, <1>2, <1>3, <1>6, <2>1
  <2>3. same(j) = same(i)
    BY <2>2 DEF same
  <2> HIDE DEF j, rows
  <2>4. j \in Database!Live
    BY <1>4, <2>2, <2>3 DEF j
  <2>5. j \in At
    BY <1>6, <2>2
  <2> QED BY <1>5, <2>4, <2>5
<1>8. ASSUME At # {}, OneKind(rows, id[1])
      PROVE  /\ r \in At /\ Database!LiveOf(id) = {r}
             /\ Database!LiveKinds(id[1]) = {rows[r].comp[2]}
  <2>1. r \in At
    <3> HIDE DEF At, rows
    <3> QED BY <1>1, <1>8, NewestIs
  <2>2. ASSUME NEW i \in At
        PROVE  same(i) = At
    <3>1. \A j \in DOMAIN rows : j \in same(i) <=> j \in At
      <4>1. \A j \in DOMAIN rows : rows[j].comp[1] = id[1] => rows[j].comp[2] = rows[i].comp[2]
        BY <1>6, <1>8 DEF OneKind
      <4> HIDE DEF same, At, rows
      <4> QED BY <1>1, <1>2, <1>6, <4>1
    <3> HIDE DEF same, At, rows
    <3> QED BY <1>1, <1>3, <1>6, <3>1
  <2> HIDE DEF same
  <2>3. \A i \in At : i \in Database!Live <=> i = r
    BY <1>4, <1>6, <2>2
  <2>4. Database!LiveOf(id) = {r}
    BY <1>5, <2>1, <2>3
  <2>5. \A i \in DOMAIN rows : rows[i].comp[1] = id[1] => rows[i].comp[2] = rows[r].comp[2]
    BY <1>6, <1>8, <2>1 DEF OneKind
  <2>6. r \in Database!Live /\ rows[r].comp[1] = id[1]
    BY <1>6, <2>1, <2>3
  <2>7. \A i \in Database!Live : i \in DOMAIN rows
    BY <1>4
  <2> QED BY <2>1, <2>4, <2>5, <2>6, <2>7 DEF Database!LiveKinds
<1>9. Database!LiveOf(id) # {} => At # {}
  BY <1>5
<1> QED
  BY <1>7, <1>8, <1>9

(* What a deployment that is to be written has.                             *)
LEMMA DeploymentHas ==
    ASSUME NEW w \in Database!Deployment
    PROVE  /\ w = [kind |-> w.kind, owners |-> w.owners, version |-> w.version, env |-> w.env,
                   volumes |-> w.volumes]
           /\ w.kind \in Kinds /\ w.owners \subseteq Owners /\ w.version \in Versions
           /\ DOMAIN w.env \subseteq Names /\ w.env \in [DOMAIN w.env -> Values]
           /\ w.volumes \in Seq(Volumes)
<1>1. w \in [kind : Kinds, owners : SUBSET Owners, version : Versions,
             env : UNION {[ns -> Values] : ns \in SUBSET Names},
             volumes : {<<>>} \cup {<<v>> : v \in Volumes} \cup {<<v, v>> : v \in Volumes}]
  BY DEF Database!Deployment
<1>2. /\ w = [kind |-> w.kind, owners |-> w.owners, version |-> w.version, env |-> w.env,
              volumes |-> w.volumes]
      /\ w.kind \in Kinds /\ w.owners \subseteq Owners /\ w.version \in Versions
      /\ w.env \in UNION {[ns -> Values] : ns \in SUBSET Names}
      /\ w.volumes \in {<<>>} \cup {<<v>> : v \in Volumes} \cup {<<v, v>> : v \in Volumes}
  BY <1>1
<1>3. PICK ns \in SUBSET Names : w.env \in [ns -> Values]
  BY <1>2
<1>4. DOMAIN w.env \subseteq Names /\ w.env \in [DOMAIN w.env -> Values]
  BY <1>3
<1>5. w.volumes \in Seq(Volumes)
  <2>1. CASE w.volumes = <<>>
    BY <2>1
  <2>2. CASE \E v \in Volumes : w.volumes = <<v>>
    BY <2>2
  <2>3. CASE \E v \in Volumes : w.volumes = <<v, v>>
    BY <2>3
  <2> QED BY <1>2, <2>1, <2>2, <2>3
<1> QED
  BY <1>2, <1>4, <1>5

(* What is read of a deployment is what its row says.                       *)
LEMMA ReadingIs ==
    ASSUME TablesFit(deployments, envs, volumes, owned), NEW id,
           RowsAt(deployments, id) # {}, OneKind(deployments, id[1]),
           NEW w \in Database!Deployment,
           Stands(deployments, envs, volumes, owned, id, Database!Newest(RowsAt(deployments, id)), w),
           NEW d \in Database!Readings(id)
    PROVE  /\ d = [kind |-> w.kind, owners |-> d.owners, version |-> w.version, env |-> w.env,
                   volumes |-> d.volumes]
           /\ Database!ToSet(d.volumes) = Database!ToSet(w.volumes)
           /\ Len(d.volumes) = Cardinality(Database!ToSet(w.volumes))
           /\ d.owners = {o \in Owners : <<<<id[1], w.kind>>, o>> \in owned}
<1> DEFINE r == Database!Newest(RowsAt(deployments, id))
           kind == deployments[r].comp[2]
           version == deployments[r].version
           vols == Database!VolumesOf({r})
           owners == {o[2] : o \in {o \in owned : o[1][1] = id[1] /\ o[1][2] \in {kind}}}
<1>1. Database!LiveOf(id) = {r} /\ Database!LiveKinds(id[1]) = {kind}
  BY LiveAre
<1>2. /\ kind = w.kind /\ version = w.version
      /\ \A n \in Names : <<r, n>> \in DOMAIN envs <=> n \in DOMAIN w.env
      /\ \A n \in DOMAIN w.env : envs[<<r, n>>] = w.env[n]
      /\ \A v \in Volumes : <<r, v>> \in volumes <=> v \in Database!ToSet(w.volumes)
  BY DEF Stands
<1>3. /\ \A key \in DOMAIN envs : key = <<key[1], key[2]>> /\ key[2] \in Names
      /\ \A v \in volumes : v = <<v[1], v[2]>> /\ v[2] \in Volumes
      /\ \A o \in owned : /\ o = <<o[1], o[2]>> /\ o[1] = <<o[1][1], o[1][2]>> /\ o[2] \in Owners
  BY DEF TablesFit
<1>4. PICK env \in Database!EntriesOf({r}) :
         d = [kind |-> kind, version |-> version, env |-> env, volumes |-> Database!SetToSeq(vols),
              owners |-> owners]
  <2> HIDE DEF r, kind
  <2>1. PICK k \in Database!LiveKinds(id[1]), i \in Database!LiveOf(id),
             env \in Database!EntriesOf(Database!LiveOf(id)) :
           d = [kind |-> k, version |-> deployments[i].version, env |-> env,
                volumes |-> Database!SetToSeq(Database!VolumesOf(Database!LiveOf(id))),
                owners |-> {o[2] : o \in {o \in owned : o[1][1] = id[1]
                                              /\ o[1][2] \in Database!LiveKinds(id[1])}}]
    BY DEF Database!Readings
  <2>2. k = kind /\ i = r
    BY <1>1
  <2> HIDE DEF vols, owners, version
  <2>3. /\ Database!VolumesOf(Database!LiveOf(id)) = vols
        /\ {o[2] : o \in {o \in owned : o[1][1] = id[1] /\ o[1][2] \in Database!LiveKinds(id[1])}} = owners
        /\ deployments[i].version = version
    BY <1>1, <2>2, Zenon DEF vols, owners, version
  <2> QED BY <1>1, <2>1, <2>2, <2>3, Zenon
<1> HIDE DEF r, kind, version
<1>5. env = w.env
  <2> DEFINE named == {key[2] : key \in {key \in DOMAIN envs : key[1] \in {r}}}
  <2>1. env \in [named -> Values]
    BY DEF Database!EntriesOf
  <2>2. \A n \in DOMAIN env : \E key \in DOMAIN envs : key[1] = r /\ key[2] = n /\ envs[key] = env[n]
    BY DEF Database!EntriesOf
  <2>3. named = {n \in Names : <<r, n>> \in DOMAIN envs}
    <3>1. ASSUME NEW n \in Names, <<r, n>> \in DOMAIN envs
          PROVE  n \in named
      <4>1. <<r, n>>[1] = r /\ <<r, n>>[2] = n
        OBVIOUS
      <4> QED BY <3>1, <4>1
    <3>2. ASSUME NEW n \in named
          PROVE  n \in Names /\ <<r, n>> \in DOMAIN envs
      <4>1. PICK key \in DOMAIN envs : key[1] = r /\ key[2] = n
        OBVIOUS
      <4> QED BY <1>3, <4>1
    <3> QED BY <3>1, <3>2
  <2>4. DOMAIN w.env \subseteq Names /\ w.env = [n \in DOMAIN w.env |-> w.env[n]]
    BY DeploymentHas
  <2> HIDE DEF named
  <2>5. DOMAIN env = DOMAIN w.env
    BY <1>2, <2>1, <2>3, <2>4
  <2>6. \A n \in DOMAIN env : env[n] = w.env[n]
    <3> TAKE n \in DOMAIN env
    <3>1. PICK key \in DOMAIN envs : key[1] = r /\ key[2] = n /\ envs[key] = env[n]
      BY <2>2
    <3>2. key = <<r, n>>
      BY <1>3, <3>1
    <3> QED BY <1>2, <2>5, <3>1, <3>2
  <2> QED BY <2>1, <2>4, <2>5, <2>6
<1>6. vols = Database!ToSet(w.volumes)
  <2>1. \A v : v \in vols <=> v \in Volumes /\ <<r, v>> \in volumes
    <3>1. ASSUME NEW v, v \in Volumes, <<r, v>> \in volumes
          PROVE  v \in vols
      <4>1. <<r, v>>[1] = r /\ <<r, v>>[2] = v
        OBVIOUS
      <4> QED BY <3>1, <4>1 DEF Database!VolumesOf
    <3>2. ASSUME NEW v \in vols
          PROVE  v \in Volumes /\ <<r, v>> \in volumes
      <4>1. PICK x \in volumes : x[1] = r /\ x[2] = v
        BY DEF Database!VolumesOf
      <4> QED BY <1>3, <4>1
    <3> HIDE DEF vols
    <3> QED BY <3>1, <3>2
  <2>2. Database!ToSet(w.volumes) \subseteq Volumes
    BY DeploymentHas DEF Database!ToSet
  <2> HIDE DEF vols
  <2> QED BY <1>2, <2>1, <2>2
<1>7. owners = {o \in Owners : <<<<id[1], kind>>, o>> \in owned}
  <2>1. ASSUME NEW o \in Owners, <<<<id[1], kind>>, o>> \in owned
        PROVE  o \in owners
    <3> DEFINE x == <<<<id[1], kind>>, o>>
    <3>1. x[1][1] = id[1] /\ x[1][2] = kind /\ x[2] = o /\ x \in owned
      BY <2>1
    <3> HIDE DEF x
    <3> QED BY <3>1
  <2>2. ASSUME NEW o \in owners
        PROVE  o \in Owners /\ <<<<id[1], kind>>, o>> \in owned
    <3>1. PICK x \in owned : x[1][1] = id[1] /\ x[1][2] = kind /\ x[2] = o
      OBVIOUS
    <3> QED BY <1>3, <3>1
  <2> HIDE DEF owners
  <2> QED BY <2>1, <2>2
<1> HIDE DEF vols, owners
<1>8. LET s == Database!SetToSeq(vols)
      IN  Database!ToSet(s) = vols /\ Len(s) = Cardinality(vols)
  <2> DEFINE s == Database!SetToSeq(vols)
  <2>1. IsFiniteSet(vols)
    BY <1>6, DeploymentHas, WithoutRepetition
  <2>2. /\ s \in Seq(vols) /\ Len(s) = Cardinality(vols)
        /\ \A x \in vols : \E i \in 1..Cardinality(vols) : s[i] = x
    BY <2>1, InSomeOrder
  <2> HIDE DEF s
  <2>3. Database!ToSet(s) = vols
    BY <2>2 DEF Database!ToSet
  <2> QED BY <2>2, <2>3 DEF s
<1>9. d.volumes = Database!SetToSeq(vols) /\ d.owners = owners
  BY <1>4
<1> QED
  BY <1>2, <1>4, <1>5, <1>6, <1>7, <1>8, <1>9

(* A state is read back with all its deployments and no other.              *)
LEMMA LoadedIs ==
    ASSUME TableInv, NEW read \in Database!loadState
    PROVE  /\ DOMAIN read = DOMAIN wrote
           /\ \A id \in DOMAIN wrote : read[id] \in Database!Readings(id)
<1> DEFINE ids == {id \in Mids \X Clusters : id[2] \in clusters /\ Database!LiveOf(id) # {}}
<1>1. /\ read \in [ids -> UNION {Database!Readings(id) : id \in ids}]
      /\ \A id \in ids : read[id] \in Database!Readings(id)
  BY Zenon DEF Database!loadState
<1>2. ASSUME NEW id \in Mids \X Clusters
      PROVE  id \in ids <=> id \in DOMAIN wrote
  <2>1. Database!LiveOf(id) # {} <=> RowsAt(deployments, id) # {}
    BY LiveAre DEF TableInv
  <2>2. id \in DOMAIN wrote => id[2] \in clusters /\ RowsAt(deployments, id) # {}
    BY DEF TableInv, StateFits
  <2>3. ASSUME NEW i \in RowsAt(deployments, id)
        PROVE  id \in DOMAIN wrote
    <3>1. i \in DOMAIN deployments /\ <<deployments[i].comp[1], deployments[i].cluster>> = id
      BY DEF RowsAt
    <3> QED BY <3>1 DEF TableInv, StateFits
  <2> QED BY <2>1, <2>2, <2>3
<1>3. DOMAIN wrote \subseteq Mids \X Clusters
  BY DEF TableInv, StateFits
<1>4. ids = DOMAIN wrote
  BY <1>2, <1>3
<1> HIDE DEF ids
<1> QED
  BY <1>1, <1>4

(* One kind is one kind.                                                    *)
LEMMA KindIsOne ==
    ASSUME TableInv, NEW mid, Database!Cardinality(Database!LiveKinds(mid)) <= 1
    PROVE  OneKind(deployments, mid)
<1> DEFINE K == Database!LiveKinds(mid)
           L == {i \in Database!Live : deployments[i].comp[1] = mid}
           f == [i \in L |-> deployments[i].comp[2]]
<1>1. /\ Len(deployments) \in Nat /\ DOMAIN deployments = 1..Len(deployments)
      /\ \A id : RowsAt(deployments, id) \in SUBSET (1..Len(deployments))
  BY RowsAre DEF TableInv
<1>2. IsFiniteSet(K)
  <2>1. L \in SUBSET (1..Len(deployments)) /\ IsFiniteSet(1..Len(deployments))
    BY <1>1, FS_Interval DEF Database!Live
  <2>2. IsFiniteSet(L)
    BY <2>1, FS_Subset
  <2>3. f \in Surjection(L, K)
    BY DEF Database!LiveKinds, Surjection
  <2> QED BY <2>2, <2>3, FS_Surjection
<1>3. ASSUME NEW a \in K, NEW b \in K
      PROVE  a = b
  <2> SUFFICES ASSUME a # b PROVE FALSE
    OBVIOUS
  <2>1. Cardinality(K) <= 1
    BY TableCounting
  <2> HIDE DEF K
  <2>2. Cardinality({a} \cup {b}) = 2 /\ IsFiniteSet({a} \cup {b})
    <3>1. IsFiniteSet({a}) /\ Cardinality({a}) = 1
      BY FS_Singleton
    <3> QED BY <3>1, FS_AddElement
  <2>3. {a} \cup {b} \in SUBSET K
    OBVIOUS
  <2>4. Cardinality({a} \cup {b}) <= Cardinality(K)
    BY <1>2, <2>3, FS_Subset
  <2>5. Cardinality(K) \in Nat
    BY <1>2, FS_CardinalityType
  <2> QED BY <2>1, <2>2, <2>4, <2>5
<1>4. ASSUME NEW i \in DOMAIN deployments, deployments[i].comp[1] = mid
      PROVE  deployments[i].comp[2] \in K
  <2> DEFINE same == Database!RowsOf(deployments, deployments[i].comp, deployments[i].cluster)
             j == Database!Newest(same)
  <2>1. same \in SUBSET (1..Len(deployments)) /\ i \in same
    BY <1>1 DEF Database!RowsOf
  <2>2. j \in same
    <3> HIDE DEF same
    <3> QED BY <1>1, <2>1, NewestIs
  <2> HIDE DEF j
  <2>3. j \in DOMAIN deployments /\ deployments[j].comp = deployments[i].comp
        /\ deployments[j].cluster = deployments[i].cluster
    BY <2>2 DEF Database!RowsOf
  <2>4. deployments[j].lifecycle = "active"
    BY <2>3, RowsAre DEF TableInv
  <2>5. j \in Database!Live
    BY <2>3, <2>4 DEF Database!Live, j
  <2> QED BY <1>4, <2>3, <2>5 DEF Database!LiveKinds
<1> QED
  BY <1>3, <1>4 DEF OneKind

(* What is read is what was written.                                        *)
LEMMA ReadIsWritten == TableInv => WrittenIsRead
<1> SUFFICES ASSUME TableInv, Database!Regular, NEW read \in Database!loadState
             PROVE  /\ DOMAIN read = DOMAIN wrote
                    /\ \A id \in DOMAIN read : Database!Same(read[id], wrote[id])
  BY DEF WrittenIsRead, Database!WrittenIsRead
<1>1. /\ DOMAIN read = DOMAIN wrote
      /\ \A id \in DOMAIN wrote : read[id] \in Database!Readings(id)
  BY LoadedIs
<1>2. ASSUME NEW id \in DOMAIN wrote
      PROVE  Database!Same(read[id], wrote[id])
  <2> DEFINE d == read[id]
             w == wrote[id]
  <2>1. /\ id[1] \in Mids /\ w \in Database!Deployment /\ RowsAt(deployments, id) # {}
    BY DEF TableInv, StateFits
  <2>2. OneKind(deployments, id[1])
    BY <2>1, KindIsOne DEF Database!Regular
  <2>3. Stands(deployments, envs, volumes, owned, id, Database!Newest(RowsAt(deployments, id)), w)
    BY <2>2 DEF TableInv, StateStands
  <2>4. d \in Database!Readings(id)
    BY <1>1
  <2>5. /\ \A o \in owned : id[1] = o[1][1] => o[2] \in w.owners
        /\ \A i, j \in DOMAIN w.volumes : w.volumes[i] = w.volumes[j] => i = j
    BY DEF Database!Regular
  <2> HIDE DEF d, w
  <2>6. /\ d = [kind |-> w.kind, owners |-> d.owners, version |-> w.version, env |-> w.env,
                volumes |-> d.volumes]
        /\ Database!ToSet(d.volumes) = Database!ToSet(w.volumes)
        /\ Len(d.volumes) = Cardinality(Database!ToSet(w.volumes))
        /\ d.owners = {o \in Owners : <<<<id[1], w.kind>>, o>> \in owned}
    BY <2>1, <2>2, <2>3, <2>4, ReadingIs DEF TableInv
  <2>7. /\ w = [kind |-> w.kind, owners |-> w.owners, version |-> w.version, env |-> w.env,
                volumes |-> w.volumes]
        /\ w.owners \subseteq Owners /\ w.volumes \in Seq(Volumes)
    BY <2>1, DeploymentHas
  <2>8. d.owners = w.owners
    <3>1. \A o \in w.owners : <<<<id[1], w.kind>>, o>> \in owned
      BY <2>3 DEF Stands
    <3>2. ASSUME NEW o, <<<<id[1], w.kind>>, o>> \in owned
          PROVE  o \in w.owners
      <4> DEFINE x == <<<<id[1], w.kind>>, o>>
      <4>1. x[1][1] = id[1] /\ x[2] = o /\ x \in owned
        BY <3>2
      <4> HIDE DEF x
      <4> QED BY <2>5, <4>1
    <3> QED BY <2>6, <2>7, <3>1, <3>2
  <2>9. Len(d.volumes) = Len(w.volumes)
    BY <2>5, <2>6, <2>7, WithoutRepetition
  <2>10. [d EXCEPT !.volumes = <<>>] = [w EXCEPT !.volumes = <<>>]
    BY <2>6, <2>7, <2>8
  <2>11. Database!Same(d, w)
    BY <2>6, <2>9, <2>10 DEF Database!Same, Database!SameVolumes
  <2> QED BY <2>11 DEF d, w
<1> QED
  BY <1>1, <1>2

(* Rows that are added come after those that are there, each once.          *)
Added(rows, old, R) ==
    /\ rows \in Seq(RowType) /\ Len(old) <= Len(rows)
    /\ \A i \in 1..Len(old) : rows[i] = old[i]
    /\ \A i \in 1..Len(rows) : Len(old) < i => rows[i] \in R
    /\ \A x \in R : \E i \in 1..Len(rows) : Len(old) < i /\ rows[i] = x
    /\ \A i, j \in 1..Len(rows) :
          Len(old) < i /\ Len(old) < j /\ rows[i] = rows[j] => i = j
(* So are those that an insertion appends, when nothing is deleted.         *)
LEMMA RowsAreAdded ==
    ASSUME NEW old \in Seq(RowType), NEW R, R \subseteq RowType, IsFiniteSet(R)
    PROVE  Added(old \o Database!SetToSeq(R) \o Database!SetToSeq({}), old, R)
<1> DEFINE s == Database!SetToSeq(R)
           z == Database!SetToSeq({})
           n == Len(old)
           k == Cardinality(R)
           rows == old \o s \o z
<1>1. /\ k \in Nat /\ s \in Seq(R) /\ Len(s) = k
      /\ \A x \in R : \E i \in 1..k : s[i] = x
      /\ \A i, j \in 1..k : s[i] = s[j] => i = j
  BY InSomeOrder
<1>2. z \in Seq({}) /\ Len(z) = 0
  BY InSomeOrder, FS_EmptySet
<1>3. n \in Nat /\ s \in Seq(RowType) /\ z \in Seq(RowType)
  BY <1>1, <1>2
<1> HIDE DEF s, z, k
<1>4. /\ rows \in Seq(RowType) /\ Len(rows) = n + k
      /\ \A i \in 1..n : rows[i] = old[i]
      /\ \A i \in 1..k : rows[n + i] = s[i]
  <2>1. /\ old \o s \in Seq(RowType) /\ Len(old \o s) = n + k
        /\ \A i \in 1..n : (old \o s)[i] = old[i]
        /\ \A i \in 1..k : (old \o s)[n + i] = s[i]
    BY <1>1, <1>3
  <2> DEFINE both == old \o s
  <2> HIDE DEF both
  <2>2. /\ both \o z \in Seq(RowType) /\ Len(both \o z) = Len(both)
        /\ \A i \in 1..Len(both) : (both \o z)[i] = both[i]
    BY <1>2, <1>3, <2>1 DEF both
  <2>3. rows = both \o z
    BY DEF both
  <2> HIDE DEF rows, n
  <2>4. n \in Nat /\ k \in Nat /\ Len(both) = n + k
    BY <1>1, <1>3, <2>1 DEF both
  <2>5. \A i \in 1..n : i \in 1..Len(both)
    BY <2>4
  <2>6. \A i \in 1..k : n + i \in 1..Len(both)
    BY <2>4
  <2> QED BY <2>1, <2>2, <2>3, <2>4, <2>5, <2>6 DEF both
<1> HIDE DEF rows, n
<1>5. \A i \in 1..Len(rows) : n < i => i - n \in 1..k /\ rows[i] = s[i - n]
  <2> TAKE i \in 1..Len(rows)
  <2> HAVE n < i
  <2>1. i - n \in 1..k /\ n + (i - n) = i
    BY <1>1, <1>3, <1>4
  <2> QED BY <1>4, <2>1
<1>6. \A i \in 1..Len(rows) : n < i => rows[i] \in R
  BY <1>1, <1>5
<1>7. \A x \in R : \E i \in 1..Len(rows) : n < i /\ rows[i] = x
  <2> TAKE x \in R
  <2>1. PICK i \in 1..k : s[i] = x
    BY <1>1
  <2>2. n + i \in 1..Len(rows) /\ n < n + i /\ rows[n + i] = x
    BY <1>1, <1>3, <1>4, <2>1
  <2> QED BY <2>2
<1>8. \A i, j \in 1..Len(rows) : n < i /\ n < j /\ rows[i] = rows[j] => i = j
  <2> TAKE i, j \in 1..Len(rows)
  <2> HAVE n < i /\ n < j /\ rows[i] = rows[j]
  <2>1. i - n = j - n
    BY <1>1, <1>5
  <2> QED BY <1>3, <1>4, <2>1
<1>9. n <= Len(rows)
  BY <1>1, <1>3, <1>4
<1> QED
  BY <1>4, <1>6, <1>7, <1>8, <1>9 DEF Added, rows, s, z, n

(* What may be written is a state.                                          *)
LEMMA WritableIs ==
    ASSUME TableInv, NEW new \in Database!Writable
    PROVE  /\ IsFiniteSet(DOMAIN new) /\ DOMAIN new \subseteq Mids \X Clusters
           /\ \A id \in DOMAIN new : new[id] \in Database!Deployment
<1>1. /\ IsFiniteSet(DOMAIN wrote) /\ DOMAIN wrote \subseteq Mids \X Clusters
      /\ \A id \in DOMAIN wrote : wrote[id] \in Database!Deployment
  BY DEF TableInv, StateFits
<1>2. ASSUME NEW id \in Mids \X Clusters, NEW d \in Database!Deployment,
             new = Database!Changed(wrote, id, d)
      PROVE  /\ IsFiniteSet(DOMAIN new) /\ DOMAIN new \subseteq Mids \X Clusters
             /\ \A o \in DOMAIN new : new[o] \in Database!Deployment
  <2>1. DOMAIN new = DOMAIN wrote \cup {id}
    BY <1>2 DEF Database!Changed
  <2>2. IsFiniteSet(DOMAIN new)
    BY <1>1, <2>1, FS_AddElement
  <2>3. ASSUME NEW o \in DOMAIN new
        PROVE  new[o] \in Database!Deployment
    <3>1. CASE o = id
      BY <1>2, <3>1 DEF Database!Changed
    <3>2. CASE o # id
      <4>1. o \in DOMAIN wrote
        BY <2>1, <3>2
      <4>2. new[o] = IF o[1] = id[1] THEN [wrote[o] EXCEPT !.kind = d.kind, !.owners = d.owners] ELSE wrote[o]
        BY <1>2, <3>2, <4>1 DEF Database!Changed
      <4>3. wrote[o] \in Database!Deployment
        BY <1>1, <4>1
      <4>4. d.kind \in Kinds /\ d.owners \in SUBSET Owners
        BY DEF Database!Deployment
      <4> QED BY <4>2, <4>3, <4>4 DEF Database!Deployment
    <3> QED BY <3>1, <3>2
  <2> QED BY <1>1, <2>1, <2>2, <2>3
<1>3. ASSUME NEW id \in DOMAIN wrote, new = [o \in DOMAIN wrote \ {id} |-> wrote[o]]
      PROVE  /\ IsFiniteSet(DOMAIN new) /\ DOMAIN new \subseteq Mids \X Clusters
             /\ \A o \in DOMAIN new : new[o] \in Database!Deployment
  BY <1>1, <1>3, FS_RemoveElement
<1> DEFINE changed == {Database!Changed(wrote, id, d) : id \in Mids \X Clusters, d \in Database!Deployment}
           removed == {[o \in DOMAIN wrote \ {id} |-> wrote[o]] : id \in DOMAIN wrote}
<1>4. new \in changed \cup removed
  BY DEF Database!Writable
<1>5. CASE new \in changed
  <2>1. PICK id \in Mids \X Clusters, d \in Database!Deployment : new = Database!Changed(wrote, id, d)
    BY <1>5
  <2> QED BY <1>2, <2>1
<1>6. CASE new \in removed
  <2>1. PICK id \in DOMAIN wrote : new = [o \in DOMAIN wrote \ {id} |-> wrote[o]]
    BY <1>6
  <2> QED BY <1>3, <2>1
<1> HIDE DEF changed, removed
<1> QED
  BY <1>4, <1>5, <1>6

(* Two deployments that are the same have the same of everything.           *)
LEMMA SameIs ==
    ASSUME NEW d, NEW w, Database!Same(d, w),
           d = [kind |-> d.kind, owners |-> d.owners, version |-> d.version, env |-> d.env,
                volumes |-> d.volumes],
           w = [kind |-> w.kind, owners |-> w.owners, version |-> w.version, env |-> w.env,
                volumes |-> w.volumes]
    PROVE  /\ d.kind = w.kind /\ d.owners = w.owners /\ d.version = w.version /\ d.env = w.env
           /\ Database!ToSet(d.volumes) = Database!ToSet(w.volumes)
<1> DEFINE a == [d EXCEPT !.volumes = <<>>]
           b == [w EXCEPT !.volumes = <<>>]
<1>1. a = b /\ Database!ToSet(d.volumes) = Database!ToSet(w.volumes)
  BY DEF Database!Same, Database!SameVolumes
<1>2. a.kind = d.kind /\ a.owners = d.owners /\ a.version = d.version /\ a.env = d.env
  OBVIOUS
<1>3. b.kind = w.kind /\ b.owners = w.owners /\ b.version = w.version /\ b.env = w.env
  OBVIOUS
<1> HIDE DEF a, b
<1> QED
  BY <1>1, <1>2, <1>3

(* The rows of the deployments that are updated, and where they are.        *)
NewRows(new, U) == {Database!DeploymentRow(id, new[id], "active") : id \in U}
Places(rows, new, U) == [id \in U |-> Database!depID(rows, id, new[id])]
Placed(rows, old, new, U, P) ==
    /\ \A id \in U : /\ P[id] \in 1..Len(rows) /\ Len(old) < P[id]
                     /\ rows[P[id]] = Database!DeploymentRow(id, new[id], "active")
                     /\ Database!Newest(RowsAt(rows, id)) = P[id]
                     /\ P[id] \in RowsAt(rows, id)
    /\ \A a, b \in U : P[a] = P[b] => a = b
    /\ \A id \in (Mids \X Clusters) \ U : RowsAt(rows, id) = RowsAt(old, id)

(* The row that is added for a deployment is the newest it has, and the one *)
(* that what hangs on it is entered for; the others keep theirs.            *)
LEMMA UpdatedRows ==
    ASSUME NEW old \in Seq(RowType), NEW rows, NEW new, NEW U \in SUBSET (Mids \X Clusters),
           \A id \in U : new[id] \in Database!Deployment,
           Added(rows, old, NewRows(new, U))
    PROVE  Placed(rows, old, new, U, Places(rows, new, U))
<1> DEFINE R == {Database!DeploymentRow(id, new[id], "active") : id \in U}
           P == [id \in U |-> Database!depID(rows, id, new[id])]
<1>0. R = NewRows(new, U) /\ P = Places(rows, new, U) /\ Added(rows, old, R)
  BY DEF NewRows, Places
<1>1. /\ Len(old) \in Nat /\ DOMAIN old = 1..Len(old)
      /\ rows \in Seq(RowType) /\ Len(rows) \in Nat /\ DOMAIN rows = 1..Len(rows)
      /\ Len(old) <= Len(rows)
  BY <1>0 DEF Added
<1>2. \A id \in Mids \X Clusters : id = <<id[1], id[2]>> /\ id[1] \in Mids /\ id[2] \in Clusters
  OBVIOUS
<1>3. ASSUME NEW id \in U
      PROVE  LET x == Database!DeploymentRow(id, new[id], "active")
             IN  x.comp = <<id[1], new[id].kind>> /\ x.cluster = id[2] /\ x.lifecycle = "active"
                 /\ x.comp[1] = id[1]
  BY DEF Database!DeploymentRow, Database!Component
<1>4. ASSUME NEW i \in 1..Len(rows), Len(old) < i, NEW id \in Mids \X Clusters,
             rows[i].comp[1] = id[1], rows[i].cluster = id[2]
      PROVE  id \in U /\ rows[i] = Database!DeploymentRow(id, new[id], "active")
  <2>1. rows[i] \in R
    BY <1>0, <1>4 DEF Added
  <2>2. PICK o \in U : rows[i] = Database!DeploymentRow(o, new[o], "active")
    BY <2>1
  <2>3. o[1] = id[1] /\ o[2] = id[2]
    BY <1>3, <1>4, <2>2
  <2>4. o = id
    BY <1>2, <2>3
  <2> QED BY <2>2, <2>4
<1>5. ASSUME NEW id \in U
      PROVE  /\ P[id] \in 1..Len(rows) /\ Len(old) < P[id]
             /\ rows[P[id]] = Database!DeploymentRow(id, new[id], "active")
             /\ Database!Newest(RowsAt(rows, id)) = P[id] /\ P[id] \in RowsAt(rows, id)
  <2> DEFINE x == Database!DeploymentRow(id, new[id], "active")
             A == RowsAt(rows, id)
             B == {i \in Database!RowsOf(rows, Database!Component(id, new[id]), id[2]) :
                       rows[i].lifecycle = "active"}
  <2>1. x \in R
    OBVIOUS
  <2>2. PICK p \in 1..Len(rows) : Len(old) < p /\ rows[p] = x
    BY <1>0, <2>1 DEF Added
  <2>3. A \in SUBSET (1..Len(rows)) /\ B \in SUBSET (1..Len(rows))
    BY <1>1 DEF RowsAt, Database!RowsOf
  <2>4. p \in A
    BY <1>1, <1>3, <2>2 DEF RowsAt
  <2>5. p \in B
    BY <1>1, <1>3, <2>2 DEF Database!RowsOf, Database!Component
  <2>6. \A j \in B : j \in A
    BY DEF RowsAt, Database!RowsOf, Database!Component
  <2>7. ASSUME NEW j \in A
        PROVE  j <= p
    <3>1. j \in 1..Len(rows) /\ rows[j].comp[1] = id[1] /\ rows[j].cluster = id[2]
      BY <1>1 DEF RowsAt
    <3>2. CASE Len(old) < j
      <4>1. rows[j] = x
        BY <1>4, <3>1, <3>2
      <4>2. j = p
        BY <1>0, <2>2, <3>1, <3>2, <4>1 DEF Added
      <4> QED BY <3>1, <4>2
    <3>3. CASE ~(Len(old) < j)
      BY <1>1, <2>2, <3>1, <3>3
    <3> QED BY <3>2, <3>3
  <2> HIDE DEF A, B, x
  <2>8. Database!Newest(A) = p /\ Database!Newest(B) = p
    BY <1>1, <2>3, <2>4, <2>5, <2>6, <2>7, NewestIs
  <2>9. P[id] = p
    BY <2>8 DEF Database!depID, B
  <2> QED BY <2>2, <2>4, <2>8, <2>9 DEF A, x
<1>6. ASSUME NEW a \in U, NEW b \in U, P[a] = P[b]
      PROVE  a = b
  <2>1. a[1] = b[1] /\ a[2] = b[2]
    BY <1>3, <1>5, <1>6
  <2> QED BY <1>2, <2>1
<1>7. ASSUME NEW id \in (Mids \X Clusters) \ U
      PROVE  RowsAt(rows, id) = RowsAt(old, id)
  <2>1. ASSUME NEW i \in RowsAt(rows, id)
        PROVE  i \in RowsAt(old, id)
    <3>1. i \in 1..Len(rows) /\ rows[i].comp[1] = id[1] /\ rows[i].cluster = id[2]
      BY <1>1 DEF RowsAt
    <3>2. ~(Len(old) < i)
      BY <1>4, <3>1
    <3>3. i \in 1..Len(old)
      BY <1>1, <3>1, <3>2
    <3> QED BY <1>0, <1>1, <3>1, <3>3 DEF Added, RowsAt
  <2>2. ASSUME NEW i \in RowsAt(old, id)
        PROVE  i \in RowsAt(rows, id)
    <3>1. i \in 1..Len(old) /\ i \in 1..Len(rows) /\ old[i].comp[1] = id[1] /\ old[i].cluster = id[2]
      BY <1>1 DEF RowsAt
    <3> QED BY <1>0, <1>1, <3>1 DEF Added, RowsAt
  <2> QED BY <2>1, <2>2
<1> QED
  BY <1>0, <1>5, <1>6, <1>7 DEF Placed

(* A deletion is never written, so that every deployment there was stays.   *)
LEMMA NothingIsDeleted ==
    ASSUME NEW cur, NEW new, Database!Insertable(cur, new)
    PROVE  Database!Deletes(cur, new) = {} /\ DOMAIN cur \subseteq DOMAIN new
<1>1. Database!Deletes(cur, new) = {}
  BY DEF Database!Insertable, Database!Tombstone, Database!Lifecycles
<1> QED
  BY <1>1 DEF Database!Deletes

(* What the tables are after a write, in terms of the rows that are added.  *)
Entered(U, new, P) ==
    /\ clusters' = clusters \cup {id[2] : id \in U}
    /\ \A x : x \in owned' <=> \/ x \in owned
                               \/ \E id \in U : \E o \in new[id].owners :
                                     x = <<Database!Component(id, new[id]), o>>
    /\ \A x : x \in volumes' <=> \/ x \in volumes
                                 \/ \E id \in U : \E v \in Database!ToSet(new[id].volumes) :
                                       x = <<P[id], v>>
    /\ \A x : x \in DOMAIN envs' <=> \/ x \in DOMAIN envs
                                     \/ \E id \in U : \E n \in DOMAIN new[id].env : x = <<P[id], n>>
    /\ \A x \in DOMAIN envs : envs'[x] = envs[x]
    /\ \A id \in U : \A n \in DOMAIN new[id].env :
          <<P[id], n>> \in DOMAIN envs \/ envs'[<<P[id], n>>] = new[id].env[n]
(* That is what storeManifests does.                                        *)
LEMMA WriteEnters ==
    ASSUME NEW cur, NEW new, NEW U, U = Database!Updates(cur, new), Database!Deletes(cur, new) = {},
           \A id \in U : new[id] \in Database!Deployment,
           Database!storeManifests(cur, new),
           NEW P, P = Places(deployments', new, U),
           \A a, b \in U : P[a] = P[b] => a = b
    PROVE  /\ deployments' = deployments \o Database!SetToSeq(NewRows(new, U)) \o Database!SetToSeq({})
           /\ Entered(U, new, P)
<1> DEFINE none == {Database!DeploymentRow(id, cur[id], Database!Tombstone) :
                        id \in Database!Deletes(cur, new)}
           rows == deployments \o Database!SetToSeq(NewRows(new, U)) \o Database!SetToSeq(none)
           added == UNION {{<<Database!depID(rows, id, new[id]), n>> : n \in DOMAIN new[id].env} : id \in U}
           keyed(key) == CHOOSE v \in Values : \E id \in U :
               /\ key[1] = Database!depID(rows, id, new[id]) /\ key[2] \in DOMAIN new[id].env
               /\ v = new[id].env[key[2]]
<1>1. /\ clusters' = clusters \cup {id[2] : id \in U \cup Database!Deletes(cur, new)}
      /\ deployments' = rows
      /\ owned' = owned \cup UNION {{<<Database!Component(id, new[id]), o>> : o \in new[id].owners} : id \in U}
      /\ envs' = [key \in DOMAIN envs \cup added |->
                     IF key \in DOMAIN envs THEN envs[key] ELSE keyed(key)]
      /\ volumes' = volumes \cup UNION {{<<Database!depID(rows, id, new[id]), v>> :
                                             v \in Database!ToSet(new[id].volumes)} : id \in U}
  <2>1. clusters' = clusters \cup {id[2] : id \in U \cup Database!Deletes(cur, new)}
    BY Zenon DEF Database!storeManifests
  <2>2. deployments' = rows
    BY Zenon DEF Database!storeManifests, NewRows
  <2>3. owned' = owned \cup UNION {{<<Database!Component(id, new[id]), o>> : o \in new[id].owners} : id \in U}
    BY Zenon DEF Database!storeManifests
  <2>4. envs' = [key \in DOMAIN envs \cup added |->
                     IF key \in DOMAIN envs THEN envs[key] ELSE keyed(key)]
    BY DEF Database!storeManifests, NewRows
  <2>5. volumes' = volumes \cup UNION {{<<Database!depID(rows, id, new[id]), v>> :
                                             v \in Database!ToSet(new[id].volumes)} : id \in U}
    BY DEF Database!storeManifests, NewRows
  <2> QED BY <2>1, <2>2, <2>3, <2>4, <2>5
<1>2. none = {}
  OBVIOUS
<1>3. deployments' = deployments \o Database!SetToSeq(NewRows(new, U)) \o Database!SetToSeq({})
  BY <1>1, <1>2
<1>4. \A id \in U : P[id] = Database!depID(rows, id, new[id])
  BY <1>1 DEF Places
<1> HIDE DEF none, rows
<1>5. \A x : x \in added <=> \E id \in U : \E n \in DOMAIN new[id].env : x = <<P[id], n>>
  BY <1>4
<1>6. ASSUME NEW id \in U, NEW n \in DOMAIN new[id].env
      PROVE  keyed(<<P[id], n>>) = new[id].env[n]
  <2>1. new[id].env[n] \in Values
    BY DeploymentHas
  <2>2. ASSUME NEW o \in U, P[id] = Database!depID(rows, o, new[o])
        PROVE  o = id
    BY <1>4, <2>2
  <2> QED BY <1>4, <2>1, <2>2
<1> HIDE DEF added, keyed
<1>7. /\ DOMAIN envs' = DOMAIN envs \cup added
      /\ \A x \in DOMAIN envs : envs'[x] = envs[x]
      /\ \A x \in added : x \in DOMAIN envs \/ envs'[x] = keyed(x)
  BY <1>1
<1>8. \A id \in U : \A n \in DOMAIN new[id].env :
         <<P[id], n>> \in DOMAIN envs \/ envs'[<<P[id], n>>] = new[id].env[n]
  <2> TAKE id \in U
  <2> TAKE n \in DOMAIN new[id].env
  <2>1. <<P[id], n>> \in added
    BY <1>5
  <2> QED BY <1>6, <1>7, <2>1
<1>9. \A x : x \in DOMAIN envs' <=> \/ x \in DOMAIN envs
                                    \/ \E id \in U : \E n \in DOMAIN new[id].env : x = <<P[id], n>>
  BY <1>5, <1>7
<1>10. \A x : x \in owned' <=> \/ x \in owned
                               \/ \E id \in U : \E o \in new[id].owners :
                                     x = <<Database!Component(id, new[id]), o>>
  BY <1>1
<1>11. \A x : x \in volumes' <=> \/ x \in volumes
                                 \/ \E id \in U : \E v \in Database!ToSet(new[id].volumes) :
                                       x = <<P[id], v>>
  BY <1>1, <1>4
<1>12. clusters' = clusters \cup {id[2] : id \in U}
  BY <1>1
<1> QED
  BY <1>3, <1>7, <1>8, <1>9, <1>10, <1>11, <1>12 DEF Entered

(* What is said of the tables is said of them afterwards.                   *)
LEMMA TableInvPrimed ==
    ASSUME TablesFit(deployments', envs', volumes', owned'),
           StateFits(deployments', clusters', wrote'),
           StateStands(deployments', envs', volumes', owned', wrote')
    PROVE  TableInv'
  BY DEF TableInv

(* A write that can be inserted preserves it.                               *)
LEMMA WriteKeeps ==
    ASSUME TableInv, NEW cur \in Database!loadState, NEW new \in Database!Writable,
           Database!Insertable(cur, new), Database!storeManifests(cur, new), wrote' = new
    PROVE  TableInv'
<1> DEFINE U == Database!Updates(cur, new)
           R == NewRows(new, U)
           P == Places(deployments', new, U)
           old == deployments
           rows == deployments'
<1>1. /\ TablesFit(deployments, envs, volumes, owned)
      /\ StateFits(deployments, clusters, wrote)
      /\ StateStands(deployments, envs, volumes, owned, wrote)
  BY DEF TableInv
<1>2. /\ DOMAIN cur = DOMAIN wrote
      /\ \A id \in DOMAIN wrote : cur[id] \in Database!Readings(id)
  BY LoadedIs
<1>3. /\ IsFiniteSet(DOMAIN new) /\ DOMAIN new \subseteq Mids \X Clusters
      /\ \A id \in DOMAIN new : new[id] \in Database!Deployment
  BY WritableIs
<1>4. Database!Deletes(cur, new) = {} /\ DOMAIN wrote \subseteq DOMAIN new
  BY <1>2, NothingIsDeleted
<1>5. /\ U \in SUBSET (Mids \X Clusters) /\ U \subseteq DOMAIN new
      /\ \A id \in DOMAIN new \ U : id \in DOMAIN wrote /\ Database!Same(cur[id], new[id])
  BY <1>2, <1>3 DEF Database!Updates
<1> HIDE DEF U
<1>6. R \subseteq RowType
  <2> USE DEF NewRows
  <2>1. ASSUME NEW id \in U
        PROVE  Database!DeploymentRow(id, new[id], "active") \in RowType
    <3>1. id[1] \in Mids /\ id[2] \in Clusters /\ new[id] \in Database!Deployment
      BY <1>3, <1>5
    <3>2. new[id].kind \in Kinds /\ new[id].version \in Versions
      BY <3>1, DeploymentHas
    <3> QED BY <3>1, <3>2 DEF RowType, Database!DeploymentRow, Database!Component
  <2> QED BY <2>1
<1>7. IsFiniteSet(R)
  <2> USE DEF NewRows
  <2> DEFINE f == [id \in U |-> Database!DeploymentRow(id, new[id], "active")]
  <2>1. IsFiniteSet(U)
    BY <1>3, <1>5, FS_Subset
  <2>2. f \in Surjection(U, R)
    BY DEF Surjection
  <2> QED BY <2>1, <2>2, FS_Surjection
<1>8. old \in Seq(RowType) /\ Len(old) \in Nat /\ DOMAIN old = 1..Len(old)
  BY <1>1, RowsAre DEF TablesFit
<1>9. rows = old \o Database!SetToSeq(R) \o Database!SetToSeq({})
  <2> DEFINE none == {Database!DeploymentRow(id, cur[id], Database!Tombstone) :
                          id \in Database!Deletes(cur, new)}
  <2>1. rows = old \o Database!SetToSeq(R) \o Database!SetToSeq(none)
    BY Zenon DEF Database!storeManifests, U, NewRows
  <2>2. none = {}
    BY <1>4
  <2> QED BY <2>1, <2>2
<1>10. Added(rows, old, R)
  <2> HIDE DEF R
  <2> QED BY <1>6, <1>7, <1>8, <1>9, RowsAreAdded
<1>11. \A id \in U : new[id] \in Database!Deployment
  BY <1>3, <1>5
<1>12. Placed(rows, old, new, U, P)
  <2>1. U \in SUBSET (Mids \X Clusters)
    BY <1>5
  <2>2. P = Places(rows, new, U) /\ R = NewRows(new, U)
    OBVIOUS
  <2> HIDE DEF old, rows, P, R
  <2>3. Added(rows, old, NewRows(new, U))
    BY <1>10, <2>2
  <2>4. Placed(rows, old, new, U, Places(rows, new, U))
    BY <1>8, <1>11, <2>1, <2>3, UpdatedRows
  <2> QED BY <2>2, <2>4
<1>13. Entered(U, new, P)
  BY <1>4, <1>11, <1>12, WriteEnters DEF U, Placed
<1>14. /\ rows \in Seq(RowType) /\ Len(rows) \in Nat /\ DOMAIN rows = 1..Len(rows)
       /\ Len(old) <= Len(rows)
       /\ \A i \in 1..Len(old) : i \in 1..Len(rows) /\ rows[i] = old[i]
  BY <1>8, <1>10 DEF Added
<1> HIDE DEF P, R, old, rows
<1>15. TablesFit(rows, envs', volumes', owned')
  <2>1. \A id \in U : /\ DOMAIN new[id].env \subseteq Names
                      /\ \A n \in DOMAIN new[id].env : new[id].env[n] \in Values
                      /\ Database!ToSet(new[id].volumes) \subseteq Volumes
                      /\ new[id].kind \in Kinds /\ new[id].owners \subseteq Owners /\ id[1] \in Mids
    <3> TAKE id \in U
    <3>1. new[id] \in Database!Deployment /\ id \in Mids \X Clusters
      BY <1>5, <1>11
    <3> DEFINE w == new[id]
    <3> HIDE DEF w
    <3>2. /\ w.kind \in Kinds /\ w.owners \subseteq Owners
          /\ DOMAIN w.env \subseteq Names /\ w.env \in [DOMAIN w.env -> Values]
          /\ w.volumes \in Seq(Volumes)
      BY <3>1, DeploymentHas DEF w
    <3>3. \A v \in Database!ToSet(w.volumes) : v \in Volumes
      BY <3>2 DEF Database!ToSet
    <3> QED BY <3>1, <3>2, <3>3 DEF w
  <2>2. \A x : /\ x \in (1..Len(old)) \X Names => x \in (1..Len(rows)) \X Names
               /\ x \in (1..Len(old)) \X Volumes => x \in (1..Len(rows)) \X Volumes
    BY <1>14
  <2>3. /\ DOMAIN envs \subseteq (1..Len(old)) \X Names /\ \A x \in DOMAIN envs : envs[x] \in Values
        /\ volumes \subseteq (1..Len(old)) \X Volumes
        /\ owned \subseteq (Mids \X Kinds) \X Owners
    BY <1>1 DEF TablesFit, old
  <2>4. \A id \in U : P[id] \in 1..Len(rows) /\ ~(P[id] \in 1..Len(old))
    BY <1>8, <1>12, <1>14 DEF Placed
  <2>5. ASSUME NEW x \in DOMAIN envs'
        PROVE  x \in (1..Len(rows)) \X Names /\ envs'[x] \in Values
    <3>1. CASE x \in DOMAIN envs
      BY <1>13, <2>2, <2>3, <3>1 DEF Entered
    <3>2. ASSUME NEW id \in U, NEW n \in DOMAIN new[id].env, x = <<P[id], n>>
          PROVE  x \in (1..Len(rows)) \X Names /\ envs'[x] \in Values
      <4>1. ~(x \in DOMAIN envs)
        BY <2>3, <2>4, <3>2
      <4>2. envs'[x] = new[id].env[n]
        BY <1>13, <3>2, <4>1 DEF Entered
      <4> QED BY <2>1, <2>4, <3>2, <4>2
    <3> QED BY <1>13, <3>1, <3>2 DEF Entered
  <2>6. ASSUME NEW x \in volumes'
        PROVE  x \in (1..Len(rows)) \X Volumes
    <3>1. CASE x \in volumes
      BY <2>2, <2>3, <3>1
    <3>2. ASSUME NEW id \in U, NEW v \in Database!ToSet(new[id].volumes), x = <<P[id], v>>
          PROVE  x \in (1..Len(rows)) \X Volumes
      <4>1. P[id] \in 1..Len(rows) /\ v \in Volumes
        BY <2>1, <2>4
      <4> QED BY <3>2, <4>1
    <3> QED BY <1>13, <3>1, <3>2 DEF Entered
  <2>7. ASSUME NEW x \in owned'
        PROVE  x \in (Mids \X Kinds) \X Owners
    <3>1. CASE x \in owned
      BY <2>3, <3>1
    <3>2. ASSUME NEW id \in U, NEW o \in new[id].owners, x = <<Database!Component(id, new[id]), o>>
          PROVE  x \in (Mids \X Kinds) \X Owners
      <4>1. id[1] \in Mids /\ new[id].kind \in Kinds /\ o \in Owners
        BY <2>1
      <4>2. x = <<<<id[1], new[id].kind>>, o>>
        BY <3>2 DEF Database!Component
      <4> HIDE DEF U
      <4> QED BY <4>1, <4>2
    <3> QED BY <1>13, <3>1, <3>2 DEF Entered
  <2> QED BY <1>14, <2>5, <2>6, <2>7 DEF TablesFit
<1>16. StateFits(rows, clusters', new)
  <2>1. \A id \in DOMAIN wrote : id[2] \in clusters /\ RowsAt(old, id) # {}
    BY <1>1 DEF StateFits, old
  <2>2. \A i \in DOMAIN old : <<old[i].comp[1], old[i].cluster>> \in DOMAIN wrote
    BY <1>1 DEF StateFits, old
  <2>3. ASSUME NEW id \in DOMAIN new
        PROVE  id[2] \in clusters' /\ RowsAt(rows, id) # {}
    <3>1. CASE id \in U
      BY <1>12, <1>13, <3>1 DEF Entered, Placed
    <3>2. CASE id \notin U
      BY <1>3, <1>5, <1>12, <1>13, <2>1, <3>2 DEF Entered, Placed
    <3> QED BY <3>1, <3>2
  <2>4. ASSUME NEW i \in DOMAIN rows
        PROVE  <<rows[i].comp[1], rows[i].cluster>> \in DOMAIN new
    <3>1. CASE i \in 1..Len(old)
      BY <1>4, <1>8, <1>14, <2>2, <3>1
    <3>2. CASE ~(i \in 1..Len(old))
      <4>1. i \in 1..Len(rows) /\ Len(old) < i
        BY <1>8, <1>14, <3>2
      <4>2. rows[i] \in R
        BY <1>10, <4>1 DEF Added
      <4>3. PICK id \in U : rows[i] = Database!DeploymentRow(id, new[id], "active")
        BY <4>2 DEF R, NewRows
      <4>4. <<rows[i].comp[1], rows[i].cluster>> = id
        BY <1>5, <4>3 DEF Database!DeploymentRow, Database!Component
      <4> QED BY <1>5, <4>4
    <3> QED BY <3>1, <3>2
  <2> QED BY <1>3, <2>3, <2>4 DEF StateFits
<1>17. StateStands(rows, envs', volumes', owned', new)
  <2> SUFFICES ASSUME NEW id \in DOMAIN new, OneKind(rows, id[1])
               PROVE  Stands(rows, envs', volumes', owned', id, Database!Newest(RowsAt(rows, id)), new[id])
    BY DEF StateStands
  <2>1. /\ DOMAIN envs \subseteq (1..Len(old)) \X Names
        /\ volumes \subseteq (1..Len(old)) \X Volumes
    BY <1>1 DEF TablesFit, old
  <2>2. \A o \in U : P[o] \in 1..Len(rows) /\ ~(P[o] \in 1..Len(old))
    BY <1>8, <1>12, <1>14 DEF Placed
  <2>3. CASE id \in U
    <3> DEFINE p == P[id]
    <3>1. /\ Database!Newest(RowsAt(rows, id)) = p
          /\ rows[p] = Database!DeploymentRow(id, new[id], "active")
      BY <1>12, <2>3 DEF Placed
    <3>2. rows[p].comp[2] = new[id].kind /\ rows[p].version = new[id].version
      BY <3>1 DEF Database!DeploymentRow, Database!Component
    <3>3. ASSUME NEW n \in Names
          PROVE  <<p, n>> \in DOMAIN envs' <=> n \in DOMAIN new[id].env
      <4>1. ~(<<p, n>> \in DOMAIN envs)
        BY <2>1, <2>2, <2>3
      <4>2. ASSUME NEW o \in U, NEW k \in DOMAIN new[o].env, <<p, n>> = <<P[o], k>>
            PROVE  o = id /\ k = n
        BY <1>12, <2>3, <4>2 DEF Placed
      <4> QED BY <1>13, <2>3, <4>1, <4>2 DEF Entered
    <3>4. ASSUME NEW n \in DOMAIN new[id].env
          PROVE  envs'[<<p, n>>] = new[id].env[n]
      <4>1. ~(<<p, n>> \in DOMAIN envs)
        BY <2>1, <2>2, <2>3
      <4> QED BY <1>13, <2>3, <4>1 DEF Entered
    <3>5. ASSUME NEW v \in Volumes
          PROVE  <<p, v>> \in volumes' <=> v \in Database!ToSet(new[id].volumes)
      <4>1. ~(<<p, v>> \in volumes)
        BY <2>1, <2>2, <2>3
      <4>2. ASSUME NEW o \in U, NEW k \in Database!ToSet(new[o].volumes), <<p, v>> = <<P[o], k>>
            PROVE  o = id /\ k = v
        BY <1>12, <2>3, <4>2 DEF Placed
      <4> QED BY <1>13, <2>3, <4>1, <4>2 DEF Entered
    <3>6. \A o \in new[id].owners : <<<<id[1], new[id].kind>>, o>> \in owned'
      BY <1>13, <2>3 DEF Entered, Database!Component
    <3> HIDE DEF p
    <3> QED BY <3>1, <3>2, <3>3, <3>4, <3>5, <3>6 DEF Stands
  <2>4. CASE id \notin U
    <3> DEFINE r == Database!Newest(RowsAt(old, id))
               d == new[id]
               w == wrote[id]
               read == cur[id]
    <3>1. /\ id \in DOMAIN wrote /\ id \in Mids \X Clusters
          /\ RowsAt(rows, id) = RowsAt(old, id) /\ Database!Same(read, d)
      BY <1>3, <1>5, <1>12, <2>4 DEF Placed
    <3>2. OneKind(old, id[1])
      BY <1>8, <1>14 DEF OneKind
    <3>3. w \in Database!Deployment /\ RowsAt(old, id) # {}
      BY <1>1, <3>1 DEF StateFits, old
    <3>4. Stands(old, envs, volumes, owned, id, r, w)
      BY <1>1, <3>1, <3>2 DEF StateStands, old
    <3>5. read \in Database!Readings(id)
      BY <1>2, <3>1
    <3>6. r \in 1..Len(old)
      <4>1. RowsAt(old, id) \in SUBSET (1..Len(old))
        BY <1>8 DEF RowsAt
      <4>2. r \in RowsAt(old, id)
        BY <1>8, <3>3, <4>1, NewestIs
      <4> QED BY <4>1, <4>2
    <3>7. d \in Database!Deployment
      BY <1>3
    <3> HIDE DEF r, d, w, read
    <3>8. /\ read = [kind |-> w.kind, owners |-> read.owners, version |-> w.version, env |-> w.env,
                     volumes |-> read.volumes]
          /\ Database!ToSet(read.volumes) = Database!ToSet(w.volumes)
          /\ read.owners = {o \in Owners : <<<<id[1], w.kind>>, o>> \in owned}
      BY <1>1, <3>2, <3>3, <3>4, <3>5, ReadingIs DEF old, r
    <3>9. d = [kind |-> d.kind, owners |-> d.owners, version |-> d.version, env |-> d.env,
               volumes |-> d.volumes]
      BY <3>7, DeploymentHas
    <3>10. /\ read.kind = w.kind /\ read.version = w.version /\ read.env = w.env
           /\ read = [kind |-> read.kind, owners |-> read.owners, version |-> read.version,
                      env |-> read.env, volumes |-> read.volumes]
      <4> DEFINE O == read.owners
                 V == read.volumes
      <4>1. read = [kind |-> w.kind, owners |-> O, version |-> w.version, env |-> w.env, volumes |-> V]
        BY <3>8
      <4> HIDE DEF O, V
      <4>2. read.kind = w.kind /\ read.version = w.version /\ read.env = w.env
        BY <4>1
      <4> QED BY <4>1, <4>2 DEF O, V
    <3>11. /\ d.kind = w.kind /\ d.owners = read.owners /\ d.version = w.version /\ d.env = w.env
           /\ Database!ToSet(d.volumes) = Database!ToSet(w.volumes)
      <4>1. /\ read.kind = d.kind /\ read.owners = d.owners /\ read.version = d.version
            /\ read.env = d.env /\ Database!ToSet(read.volumes) = Database!ToSet(d.volumes)
        BY <3>1, <3>9, <3>10, SameIs
      <4> QED BY <3>8, <3>10, <4>1
    <3>12. rows[r] = old[r]
      BY <1>14, <3>6
    <3>13. /\ \A n : <<r, n>> \in DOMAIN envs' <=> <<r, n>> \in DOMAIN envs
           /\ \A v : <<r, v>> \in volumes' <=> <<r, v>> \in volumes
      <4>1. \A o \in U : P[o] # r
        BY <2>2, <3>6
      <4> QED BY <1>13, <4>1 DEF Entered
    <3>14. \A n \in DOMAIN w.env : n \in Names /\ <<r, n>> \in DOMAIN envs
      BY <3>3, <3>4, DeploymentHas DEF Stands
    <3>15. /\ \A x \in DOMAIN envs : envs'[x] = envs[x]
           /\ \A x \in owned : x \in owned'
      BY <1>13 DEF Entered
    <3>16. Stands(rows, envs', volumes', owned', id, r, d)
      <4>1. rows[r].comp[2] = d.kind /\ rows[r].version = d.version
        BY <3>4, <3>11, <3>12 DEF Stands
      <4>2. \A n \in Names : <<r, n>> \in DOMAIN envs' <=> n \in DOMAIN d.env
        BY <3>4, <3>11, <3>13 DEF Stands
      <4>3. \A n \in DOMAIN d.env : envs'[<<r, n>>] = d.env[n]
        BY <3>4, <3>11, <3>14, <3>15 DEF Stands
      <4>4. \A v \in Volumes : <<r, v>> \in volumes' <=> v \in Database!ToSet(d.volumes)
        BY <3>4, <3>11, <3>13 DEF Stands
      <4>5. \A o \in d.owners : <<<<id[1], d.kind>>, o>> \in owned'
        BY <3>8, <3>11, <3>15
      <4> QED BY <4>1, <4>2, <4>3, <4>4, <4>5 DEF Stands
    <3> QED BY <3>1, <3>16 DEF r, d
  <2> QED BY <2>3, <2>4
<1> QED
  BY <1>15, <1>16, <1>17, TableInvPrimed DEF rows

(* Every write preserves it, also one that is refused.                      *)
LEMMA TableNext == TableInv /\ [Database!Next]_tableVars => TableInv'
<1> SUFFICES ASSUME TableInv, [Database!Next]_tableVars PROVE TableInv'
  OBVIOUS
<1>1. ASSUME UNCHANGED <<components, clusters, deployments, owned, envs, volumes, wrote>>
      PROVE  TableInv'
  <2>1. /\ TablesFit(deployments', envs', volumes', owned')
        /\ StateFits(deployments', clusters', wrote')
        /\ StateStands(deployments', envs', volumes', owned', wrote')
    BY <1>1 DEF TableInv
  <2> QED BY <2>1, TableInvPrimed
<1>2. CASE UNCHANGED tableVars
  BY <1>1, <1>2 DEF tableVars
<1>3. CASE Database!Next
  <2>1. PICK new \in Database!Writable, cur \in Database!loadState : Database!WriteState(cur, new)
    BY <1>3 DEF Database!Next
  <2>2. CASE Database!Insertable(cur, new)
    <3>1. Database!storeManifests(cur, new) /\ wrote' = new
      BY <2>1, <2>2 DEF Database!WriteState
    <3> QED BY <2>2, <3>1, WriteKeeps
  <2>3. CASE ~Database!Insertable(cur, new)
    <3>1. UNCHANGED <<components, clusters, deployments, owned, envs, volumes, wrote>>
      BY <2>1, <2>3 DEF Database!WriteState, Database!tables
    <3> QED BY <1>1, <3>1
  <2> QED BY <2>2, <2>3
<1> QED
  BY <1>2, <1>3

(* What is read from the tables is what was written last, however many      *)
(* writes and refusals there were, in whatever order rows come back         *)
(* (postgresstatemanager_write.go, postgresstatemanager_read.go), if no     *)
(* kind changed, no owner left and no volume is there twice; for any        *)
(* manifests, clusters, kinds, owners, versions, entries and volumes.       *)
THEOREM WrittenIsReadAlways == Spec => []WrittenIsRead
<1>1. Init => TableInv
  BY TableInit DEF Init
<1>2. TableInv /\ [Next]_vars => TableInv'
  BY TableNext, PartSteps
<1> QED
  BY <1>1, <1>2, ReadIsWritten, PTL DEF Spec
=============================================================================
