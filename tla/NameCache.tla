----------------------------- MODULE NameCache -----------------------------
(****************************************************************************)
(* The cache of image names (ext/docker/image_mapping.go): which image to   *)
(* run for a source ID, with its advisories, and which source ID an image   *)
(* is of.  It is a database, filled from the registry when a name is not    *)
(* there and by builds.  Every caller is a process; only ensureInDB holds a *)
(* lock, so each SQL statement and each request to the registry is a step.  *)
(*                                                                          *)
(* A name of an image is a tag, which moves when another image is pushed,   *)
(* or a digest, which is the image and stands for its revision tag as well. *)
(* A source ID is a location and a version without the revision, which      *)
(* lookups ignore; a row has the revision too.  Names are made of source    *)
(* IDs by cutting prefixes off the location, and so two source IDs may have *)
(* one tag.  There is one repository and one registry (no mirror).          *)
(*                                                                          *)
(* Rows of docker_search_name and docker_image_qualities go with the row of *)
(* docker_search_metadata that they are of: they are joined to it whenever  *)
(* they are read, ids are never used twice, so it does not matter if the    *)
(* foreign key deletes them.                                                *)
(****************************************************************************)
EXTENDS Naturals, Sequences, FiniteSets, SequencesExt, TLC

CONSTANTS Sids, Tags, Images, None,
          TagOf,                      \* versionTag
          SidOf, RevOf, Advisories,   \* the labels of an image
          Procs,
          MaxOps, MaxFaults           \* bounds

LabelsAssumption ==
    /\ TagOf \in [Sids -> Tags] /\ SidOf \in [Images -> Sids]
    /\ DOMAIN RevOf = Images /\ DOMAIN Advisories = Images
    /\ Tags \cap Images = {} /\ None \notin Tags \cup Images

VARIABLES tags,         \* the registry: the image of a tag, or None
          pushed,       \* and the images it holds
          meta,         \* docker_search_metadata: a set of [id, cn, sid, rev, etag]
          names,        \* docker_search_name: the id for some names
          quals,        \* docker_image_qualities: a set of <<id, advisory>>
          lost,         \* those of which the insert failed, which nobody is told
          nextId,
          proc,         \* what each process is doing
          ops, faults,
          mixed         \* a process named a row that it had not made or found itself

db == <<meta, names, quals, lost, nextId>>
registry == <<tags, pushed>>
vars == <<tags, pushed, meta, names, quals, lost, nextId, proc, ops, faults, mixed>>

(* at: the next statement; why: what GetSourceID is called for; named: the  *)
(* canonical name is in; calm: no other process wrote, and nothing failed,  *)
(* since the call began.  What GetArtifact answers is in sid, found, cn and *)
(* advs.                                                                    *)
idle == [at |-> "idle", why |-> "label", sid |-> None, rev |-> None, name |-> None, etag |-> None,
         cn |-> None, id |-> 0, advs |-> {}, more |-> <<>>, named |-> FALSE, todo |-> {},
         again |-> FALSE, found |-> FALSE, calm |-> TRUE]

RowOfName(n) == {r \in meta : n \in DOMAIN names /\ names[n] = r.id}
Visible(sid) == {r \in meta : r.sid = sid /\ \E n \in DOMAIN names : names[n] = r.id}
RowOf(cn) == {r \in meta : r.cn = cn}

----------------------------------------------------------------------------
(* A step of p; when it writes, the others are disturbed.                   *)
Quietly(p, l) == proc' = [proc EXCEPT ![p] = l]
Loudly(p, l) == proc' = [q \in Procs |-> IF q = p THEN l ELSE [proc[q] EXCEPT !.calm = FALSE]]
Fault == faults < MaxFaults /\ faults' = faults + 1

Missing(l) == [idle EXCEPT !.at = "done", !.sid = l.sid, !.calm = l.calm]
Again(l) == [idle EXCEPT !.at = "cname", !.sid = l.sid, !.again = TRUE, !.calm = l.calm]
Missed(l) == IF l.again THEN Missing(l)
             ELSE [l EXCEPT !.at = "name", !.why = "warm", !.name = TagOf[l.sid]]

(* The next tag of a harvest, or the end of it.                             *)
(* (The harvest of GroomDatabase is for no source ID.)                      *)
NextTag(l) == IF l.todo = {} THEN {IF l.sid = None THEN idle ELSE Again(l)}
              ELSE {[l EXCEPT !.at = "name", !.name = t, !.named = FALSE, !.todo = @ \ {t}] : t \in l.todo}

(* GetSourceID returns: to warmupSingle, to Warmup, or to the caller.       *)
Returns(l, sid, err) ==
    CASE l.why \in {"label", "insert"} -> {idle}
      [] l.why = "warm" -> IF err \/ sid = l.sid THEN {Again(l)} ELSE {[l EXCEPT !.at = "tags"]}
      [] l.why = "harvest" -> NextTag(l)

----------------------------------------------------------------------------
(* Calls: GetArtifact, ImageLabels, and a build.                            *)

grooming == \E p \in Procs : proc[p].at # "idle" /\ proc[p].why \in {"groom", "harvest"} /\ proc[p].sid = None
Call(p) == ~grooming /\ proc[p].at \in {"idle", "done"} /\ ops < MaxOps /\ ops' = ops + 1

GetArtifact(p) ==
    /\ Call(p) /\ \E sid \in Sids : Quietly(p, [idle EXCEPT !.at = "cname", !.sid = sid])
    /\ UNCHANGED <<registry, db, faults, mixed>>
ImageLabels(p) ==
    /\ Call(p) /\ \E n \in Tags \cup pushed : Quietly(p, [idle EXCEPT !.at = "name", !.name = n])
    /\ UNCHANGED <<registry, db, faults, mixed>>

Insert(sid, rev, name, advs) ==
    [idle EXCEPT !.at = "meta", !.why = "insert", !.sid = sid, !.rev = rev, !.cn = name, !.advs = advs]

(* PUT /artifact, or recordName: Insert under the tag, without an Etag.     *)
Recorded(i) == Insert(SidOf[i], RevOf[i], TagOf[SidOf[i]], Advisories[i])

(* An image is pushed, and then recorded under its tag; when one of the two *)
(* pushes fails it is not.                                                  *)
Register(p) ==
    /\ Call(p)
    /\ \E i \in Images \ pushed :
        /\ tags' = [tags EXCEPT ![TagOf[SidOf[i]]] = i] /\ pushed' = pushed \cup {i}
        /\ \/ /\ Loudly(p, Recorded(i))
              /\ UNCHANGED faults
           \/ Fault /\ Loudly(p, idle)
    /\ UNCHANGED <<db, mixed>>

----------------------------------------------------------------------------
(* getImageName: the cache, the registry's tag, the cache again.            *)

dbQueryCNameForSourceID(p) ==
    LET l == proc[p]  v == Visible(l.sid) IN
    /\ l.at = "cname"
    /\ \/ \E r \in v : Quietly(p, [l EXCEPT !.at = "quals", !.cn = r.cn])
       \/ v = {} /\ Quietly(p, Missed(l))
    /\ UNCHANGED <<registry, db, ops, faults, mixed>>

dbQueryQualsForCName(p) ==
    LET l == proc[p]  r == RowOf(l.cn) IN
    /\ l.at = "quals"
    /\ Quietly(p, [Missing(l) EXCEPT !.found = TRUE, !.cn = l.cn,
                                  !.advs = {q[2] : q \in {q \in quals : \E x \in r : q[1] = x.id}}])
    /\ UNCHANGED <<registry, db, ops, faults, mixed>>

(* harvest: all tags of the repository, the revision tags too.              *)
getRepoTags == pushed \cup {t \in Tags : tags[t] # None}
AllTags(p) ==
    LET l == proc[p] IN
    /\ l.at = "tags"
    /\ \/ /\ \E k \in NextTag([l EXCEPT !.why = "harvest", !.todo = getRepoTags]) :
                Quietly(p, k)
          /\ UNCHANGED faults
       \/ Fault /\ Quietly(p, IF l.sid = None THEN idle ELSE [Missing(l) EXCEPT !.calm = FALSE])
    /\ UNCHANGED <<registry, db, ops, mixed>>

----------------------------------------------------------------------------
(* GetSourceID.                                                             *)

dbQueryOnName(p) ==
    LET l == proc[p]  r == RowOfName(l.name) IN
    /\ l.at = "name"
    /\ \/ /\ r # {} /\ l.name \in Images         \* a digest never changes
          /\ \E x \in r : \E k \in Returns(l, x.sid, FALSE) : Quietly(p, k)
       \/ /\ r # {} /\ l.name \in Tags
          /\ \E x \in r : Quietly(p, [l EXCEPT !.at = "fetch", !.etag = x.etag])
       \/ r = {} /\ Quietly(p, [l EXCEPT !.at = "fetch", !.etag = None])
    /\ UNCHANGED <<registry, db, ops, faults, mixed>>

Content(n) == IF n \in Tags THEN tags[n] ELSE n
NotModified(l, i) == i = l.etag
qualitiesFromLabels(i) == Advisories[i]
(* What is recorded: the labels, under the digest as the canonical name.    *)
Labelled(l, i) == [l EXCEPT !.at = "meta", !.cn = i, !.advs = qualitiesFromLabels(i)]

(* With an Etag the registry may answer that nothing changed: then the      *)
(* source ID is the one that was found, which had that Etag.                *)
GetImageMetadata(p) ==
    LET l == proc[p]  i == Content(l.name) IN
    /\ l.at = "fetch"
    /\ \/ i = None /\ UNCHANGED faults
          /\ \E k \in Returns(l, None, TRUE) : Quietly(p, k)
       \/ i # None /\ NotModified(l, i) /\ UNCHANGED faults
          /\ \E k \in Returns(l, SidOf[i], FALSE) : Quietly(p, k)
       \/ i # None /\ ~NotModified(l, i) /\ UNCHANGED faults
          /\ Quietly(p, Labelled(l, i))
       \/ Fault /\ \E k \in Returns(l, None, TRUE) : Quietly(p, [k EXCEPT !.calm = FALSE])
    /\ UNCHANGED <<registry, db, ops, mixed>>

----------------------------------------------------------------------------
(* dbInsert.  A row is found by its canonical name and left as it is, or    *)
(* made, replacing the one for the same source ID and revision.             *)

InsertedSid(l) == IF l.cn \in Images THEN SidOf[l.cn] ELSE l.sid
InsertedRev(l) == IF l.cn \in Images THEN RevOf[l.cn] ELSE l.rev
ensureInDBMutant(p) ==           \* mutant: the qualities of a row that is there are taken to be in
    LET l == proc[p]
        old == RowOf(l.cn)
        replaced == {r \in meta : r.sid = InsertedSid(l) /\ r.rev = InsertedRev(l)}
        new == [id |-> nextId, cn |-> l.cn, sid |-> InsertedSid(l), rev |-> InsertedRev(l),
                etag |-> IF l.cn \in Images THEN l.cn ELSE None]
    IN
    /\ l.at = "meta"
    /\ \/ /\ old # {}
          /\ \E r \in old : Quietly(p, [l EXCEPT !.at = "addname", !.id = r.id, !.more = <<l.cn>>])
          /\ UNCHANGED db
       \/ /\ old = {}
          /\ meta' = (meta \ replaced) \cup {new}
          /\ names' = [n \in {n \in DOMAIN names : \A r \in replaced : names[n] # r.id} |-> names[n]]
          /\ quals' = {q \in quals : \A r \in replaced : q[1] # r.id}
          /\ nextId' = nextId + 1
          /\ Loudly(p, [l EXCEPT !.at = "addquals", !.id = nextId])
          /\ UNCHANGED lost
    /\ UNCHANGED <<registry, ops, faults, mixed>>

ensureInDBMutant2(p) ==          \* mutant: so are its names
    LET l == proc[p]
        old == RowOf(l.cn)
        replaced == {r \in meta : r.sid = InsertedSid(l) /\ r.rev = InsertedRev(l)}
        new == [id |-> nextId, cn |-> l.cn, sid |-> InsertedSid(l), rev |-> InsertedRev(l),
                etag |-> IF l.cn \in Images THEN l.cn ELSE None]
    IN
    /\ l.at = "meta"
    /\ \/ /\ old # {}
          /\ \E k \in Returns(l, InsertedSid(l), FALSE) : Quietly(p, k)
          /\ UNCHANGED db
       \/ /\ old = {}
          /\ meta' = (meta \ replaced) \cup {new}
          /\ names' = [n \in {n \in DOMAIN names : \A r \in replaced : names[n] # r.id} |-> names[n]]
          /\ quals' = {q \in quals : \A r \in replaced : q[1] # r.id}
          /\ nextId' = nextId + 1
          /\ Loudly(p, [l EXCEPT !.at = "addquals", !.id = nextId])
          /\ UNCHANGED lost
    /\ UNCHANGED <<registry, ops, faults, mixed>>

ensureInDB(p) ==
    LET l == proc[p]
        old == RowOf(l.cn)
        replaced == {r \in meta : r.sid = InsertedSid(l) /\ r.rev = InsertedRev(l)}
        new == [id |-> nextId, cn |-> l.cn, sid |-> InsertedSid(l), rev |-> InsertedRev(l),
                etag |-> IF l.cn \in Images THEN l.cn ELSE None]
    IN
    /\ l.at = "meta"
    /\ \/ /\ old # {}
          /\ \E r \in old : Quietly(p, [l EXCEPT !.at = "addquals", !.id = r.id])
          /\ UNCHANGED db
       \/ /\ old = {}
          /\ meta' = (meta \ replaced) \cup {new}
          /\ names' = [n \in {n \in DOMAIN names : \A r \in replaced : names[n] # r.id} |-> names[n]]
          /\ quals' = {q \in quals : \A r \in replaced : q[1] # r.id}
          /\ nextId' = nextId + 1
          /\ Loudly(p, [l EXCEPT !.at = "addquals", !.id = nextId])
          /\ UNCHANGED lost
    /\ UNCHANGED <<registry, ops, faults, mixed>>

Live(id) == \E r \in meta : r.id = id

(* The row gets its name also when an advisory could not be put in.         *)
InsertQuality(p) ==
    LET l == proc[p] IN
    /\ l.at = "addquals"
    /\ \/ l.advs = {} /\ Quietly(p, [l EXCEPT !.at = "addname", !.more = <<l.cn>>])
          /\ UNCHANGED <<quals, lost, faults>>
       \/ \E a \in l.advs :
          \/ /\ quals' = IF Live(l.id) THEN quals \cup {<<l.id, a>>} ELSE quals
             /\ Loudly(p, [l EXCEPT !.advs = @ \ {a}])
             /\ UNCHANGED <<lost, faults>>
          \/ /\ Fault /\ lost' = lost \cup {<<l.id, a>>}
             /\ Quietly(p, [l EXCEPT !.advs = @ \ {a}, !.calm = FALSE])
             /\ UNCHANGED quals
    /\ UNCHANGED <<registry, meta, names, nextId, ops, mixed>>

(* The names, one by one.  For a row that is gone, the foreign key stops it *)
(* on connections that check it; on the others the name is lost.            *)
AfterNames(l) == IF l.why = "insert" \/ l.named THEN Returns(l, InsertedSid(l), FALSE)
                 ELSE {[l EXCEPT !.at = "namesof", !.named = TRUE]}
dbAddNamesForID(p) ==
    LET l == proc[p] IN
    /\ l.at = "addname"
    /\ \/ /\ l.more # <<>>
          /\ \/ /\ Live(l.id)
                /\ names' = [n \in DOMAIN names \cup {Head(l.more)} |->
                                 IF n = Head(l.more) THEN l.id ELSE names[n]]
                /\ Loudly(p, [l EXCEPT !.more = Tail(@)])
             \/ /\ ~Live(l.id)
                /\ names' = [n \in DOMAIN names \ {Head(l.more)} |-> names[n]]
                /\ Loudly(p, [l EXCEPT !.more = Tail(@)])
             \/ /\ ~Live(l.id) /\ UNCHANGED names
                /\ \E k \in Returns(l, None, TRUE) : Quietly(p, k)
       \/ /\ l.more = <<>> /\ UNCHANGED names
          /\ \E k \in AfterNames(l) : Quietly(p, k)
    /\ UNCHANGED <<registry, meta, quals, lost, nextId, ops, faults, mixed>>

(* dbAddNames: the row is looked up once more, for the tag and the digest.  *)
dbAddNames(p) ==
    LET l == proc[p]  r == RowOf(l.cn) IN
    /\ l.at = "namesof"
    /\ \/ \E x \in r : Quietly(p, [l EXCEPT !.at = "addname", !.id = x.id, !.more = <<l.name, l.cn>>])
       \/ r = {} /\ \E k \in Returns(l, None, TRUE) : Quietly(p, k)
    /\ mixed' = (mixed \/ \E x \in r : x.id # l.id)
    /\ UNCHANGED <<registry, db, ops, faults>>

(* Any other statement may fail as well (the database is locked, the disk   *)
(* full): the call comes to nothing, or goes on without what it was after.  *)
StatementFails(p) ==
    LET l == proc[p] IN
    /\ Fault
    /\ \/ l.at \in {"cname", "quals"} /\ Quietly(p, [Missing(l) EXCEPT !.calm = FALSE])
       \/ l.at = "cname" /\ Quietly(p, [Missed(l) EXCEPT !.calm = FALSE])
       \/ /\ l.at \in {"name", "meta", "namesof"} \/ (l.at = "addname" /\ l.more # <<>>)
          /\ \E k \in Returns(l, None, TRUE) : Quietly(p, [k EXCEPT !.calm = FALSE])
    /\ UNCHANGED <<registry, db, ops, mixed>>

(* The server stops and starts again: the database is as it was.            *)
Restart ==
    /\ Fault
    /\ proc' = [p \in Procs |-> idle]
    /\ UNCHANGED <<registry, db, ops, mixed>>

(* With another schema, the tables are made anew and filled from the        *)
(* repositories that were known, before anything else.                      *)
GroomDatabase ==
    /\ Fault
    /\ meta' = {} /\ names' = [n \in {} |-> 0] /\ quals' = {}
    /\ \E p \in Procs : proc' = [q \in Procs |->
            IF q = p /\ nextId > 1 THEN [idle EXCEPT !.at = "tags", !.why = "groom"] ELSE idle]
    /\ UNCHANGED <<registry, lost, nextId, ops, mixed>>

Init == /\ tags = [t \in Tags |-> None] /\ pushed = {}
        /\ meta = {} /\ names = [n \in {} |-> 0] /\ quals = {} /\ lost = {} /\ nextId = 1
        /\ proc = [p \in Procs |-> idle]
        /\ ops = 0 /\ faults = 0 /\ mixed = FALSE

Next == \/ \E p \in Procs :
              \/ GetArtifact(p) \/ ImageLabels(p) \/ Register(p)
              \/ dbQueryCNameForSourceID(p) \/ dbQueryQualsForCName(p) \/ AllTags(p)
              \/ dbQueryOnName(p) \/ GetImageMetadata(p) \/ ensureInDB(p) \/ InsertQuality(p)
              \/ dbAddNamesForID(p) \/ dbAddNames(p) \/ StatementFails(p)
        \/ Restart \/ GroomDatabase
Spec == Init /\ [][Next]_vars

----------------------------------------------------------------------------
(* Properties.                                                              *)

(* guardImage refuses an image by the advisories it is given with: the row  *)
(* of an image is not found, having no name, before all its advisories are  *)
(* in, whichever of several calls made the row, whichever names it, and     *)
(* wherever restarts and failures cut the calls off - but for those whose   *)
(* own insert failed, and as long as nobody names a row that came in place  *)
(* of the one it had seen to.                                               *)
AdvisoriesKept ==
    ~mixed => \A r \in meta :
        r.cn \in Images /\ r \in Visible(r.sid) =>
            \A a \in Advisories[r.cn] : <<r.id, a>> \in quals \cup lost

InRegistry(sid) == LET i == tags[TagOf[sid]] IN i # None /\ SidOf[i] = sid

(* Whatever builds, lookups and restarts have left in the tables - rows     *)
(* without a name, names of rows that were replaced - an image that is in   *)
(* the registry under its tag is found by a call that nobody disturbs.      *)
FoundIfThere ==
    \A p \in Procs : LET l == proc[p] IN
        l.at = "done" /\ ~l.found /\ l.calm => ~InRegistry(l.sid)

----------------------------------------------------------------------------
(* Said of the code by its comments or its use, and not so: see the README. *)

(* Not when the insert of an advisory failed, nor if the row was replaced,  *)
(* made again, and named before it was ready.                               *)
RowsAlwaysComplete ==
    \A r \in meta : r.cn \in Images /\ r \in Visible(r.sid) =>
        \A a \in Advisories[r.cn] : <<r.id, a>> \in quals

(* The row may be replaced between the two queries: the image is found,     *)
(* without its advisories.                                                  *)
AdvisoriesNeverLost ==
    \A p \in Procs : LET l == proc[p] IN
        l.found /\ l.cn \in Images => Advisories[l.cn] \subseteq l.advs

(* A build records the tag after it pushed the image, in a row that may be  *)
(* there from the build before.                                             *)
TagAdvisoriesKept ==
    \A p \in Procs : LET l == proc[p] IN
        l.found /\ l.calm /\ l.cn \in Tags => Advisories[tags[l.cn]] \subseteq l.advs

(* To look up an old image of a source ID, because it runs somewhere,       *)
(* replaces the row of the new one.                                         *)
LatestIsFound ==
    \A p \in Procs : LET l == proc[p] IN
        l.found /\ l.calm /\ InRegistry(l.sid) => Content(l.cn) = tags[TagOf[l.sid]]

(* A call that is disturbed may find nothing where there is an image.       *)
AlwaysFound ==
    \A p \in Procs : LET l == proc[p] IN
        l.at = "done" /\ ~l.found => ~InRegistry(l.sid) \/ faults > 0

(* The tag of a build is found for its source ID when by now it is the tag  *)
(* of an image of another.                                                  *)
FoundIsOfSource ==
    \A p \in Procs : LET l == proc[p] IN
        l.found => SidOf[Content(l.cn)] = l.sid
=============================================================================
