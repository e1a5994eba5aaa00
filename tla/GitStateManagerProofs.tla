----------------------- MODULE GitStateManagerProofs -----------------------
(****************************************************************************)
(* Theorems about GitStateManager, for any number of servers, callers,      *)
(* files and attempts.                                                      *)
(*                                                                          *)
(* That an acknowledged write took effect unless it met a conflict holds    *)
(* whatever fails: while a caller is about to push, its commit is in the    *)
(* history of its clone or its cherry-pick has already been given up, and   *)
(* the mutex keeps the other callers of the clone away.                     *)
(*                                                                          *)
(* That no update is lost holds as long as the files can be written: the    *)
(* files on disk are then those of HEAD, so the etag of a state that was    *)
(* read names its content, a commit changes one file and changes it from    *)
(* what the caller had read, and a cherry-pick that is clean finds it so.   *)
(****************************************************************************)
EXTENDS GitStateManager, SequenceTheorems, WellFoundedInduction, TLAPS

----------------------------------------------------------------------------
(* The state.                                                               *)

Commit == [id : Nat, put : Patches, old : Patches, seen : Patches]
Revision == Seq(Commit)
HeldState == [etag : Revision, content : Contents]

(* Where the variables range.                                               *)
GitTypes ==
    /\ remote \in Revision
    /\ head \in [Managers -> Revision]
    /\ tree \in [Managers -> Contents]
    /\ lock \in [Managers -> Callers \cup {NoCaller}]
    /\ at \in [Callers -> {"idle", "push", "pull", "pick"}]
    /\ held \in [Callers -> HeldState \cup {NoState}]
    /\ commit \in [Callers -> Commit \cup {NoCommit}]
    /\ fallback \in [Callers -> Revision]
    /\ made \in Nat

(* A caller inside WriteState has the mutex of its manager, and a commit.   *)
Locked ==
    \A c \in Callers : at[c] # "idle" => lock[Home[c]] = c /\ commit[c] \in Commit

LockInv == GitTypes /\ Locked

(* What is about to be pushed is in the clone's history, or given up.       *)
Pushed ==
    \A c \in Callers :
        at[c] = "push" => commit[c].id \in Ids(head[Home[c]]) \cup conflicted \cup absorbed

AckInv == LockInv /\ Pushed /\ AckedUnlessConflict

(* The files on disk are those of HEAD.                                     *)
TreeIsHead == \A m \in Managers : tree[m] = Content(head[m])

(* The commit of a write changes one file, from what the caller had read.   *)
OneFile(commit_c) ==
    \A f \in DOMAIN commit_c.put :
        DOMAIN commit_c.put = {f} /\ commit_c.seen[f] = commit_c.old[f]
CommitsOneFile == \A c \in Callers : at[c] # "idle" => OneFile(commit[c])

(* NoLostUpdate of a history.                                               *)
NoLost(rev) ==
    \A k \in DOMAIN rev : \A f \in DOMAIN rev[k].put :
        Content(SubSeq(rev, 1, k - 1))[f] = rev[k].seen[f]

Histories ==
    /\ NoLost(remote)
    /\ \A m \in Managers : NoLost(head[m])
    /\ \A c \in Callers : NoLost(fallback[c])

LostInv == LockInv /\ TreeIsHead /\ EtagNamesContent /\ CommitsOneFile /\ Histories

----------------------------------------------------------------------------
(* Histories and contents.                                                  *)

(* A non-empty set of positions has a last one, which is its Max.           *)
LEMMA MaxOfPositions ==
    ASSUME NEW n \in Nat, NEW K \in SUBSET (1..n), K # {}
    PROVE  /\ Max(K) \in K
           /\ \A k \in K : Max(K) >= k
<1> DEFINE T == {i \in Nat : n - i \in K}
<1>1. T \subseteq Nat /\ T # {}
  <2>1. PICK k \in K : TRUE
    OBVIOUS
  <2>2. n - k \in Nat /\ n - (n - k) = k
    BY <2>1
  <2> QED BY <2>2
<1>2. PICK x \in T : \A y \in T : ~ (<<y, x>> \in OpToRel(<, Nat))
  <2> HIDE DEF T
  <2> QED BY <1>1, NatLessThanWellFounded, WFMin
<1>3. ASSUME NEW y \in T
      PROVE  ~ (y < x)
  <2>1. <<y, x>> \in Nat \X Nat
    BY <1>1
  <2>2. y < x => <<y, x>> \in OpToRel(<, Nat)
    BY <2>1 DEF OpToRel
  <2> QED BY <1>2, <2>2
<1>4. ASSUME NEW k \in K
      PROVE  n - x >= k
  <2>1. n - k \in Nat /\ n - (n - k) = k /\ k \in Int
    OBVIOUS
  <2>2. n - k \in T
    BY <2>1
  <2>3. ~ (n - k < x)
    BY <1>3, <2>2
  <2>4. x \in Nat
    BY <1>1
  <2> QED BY <2>1, <2>3, <2>4
<1>5. n - x \in K
  OBVIOUS
<1> QED BY <1>4, <1>5 DEF Max

(* The positions of a history that change a file.                           *)
LEMMA PositionsOf ==
    ASSUME NEW rev \in Revision
    PROVE  Len(rev) \in Nat /\ DOMAIN rev = 1..Len(rev) /\ \A k \in DOMAIN rev : rev[k] \in Commit
BY DEF Revision

(* A patch writes values to files.                                          *)
LEMMA PatchValues ==
    ASSUME NEW p \in Patches, NEW f \in DOMAIN p
    PROVE  f \in Files /\ p[f] \in Values
BY DEF Patches

(* Every history has a content.                                             *)
LEMMA ContentType ==
    ASSUME NEW rev \in Revision
    PROVE  Content(rev) \in Contents
<1> DEFINE K(f) == {k \in DOMAIN rev : f \in DOMAIN rev[k].put}
<1>1. Initial \in Values
  BY ValuesAssumption DEF Initial
<1>2. ASSUME NEW f \in Files, K(f) # {}
      PROVE  rev[Max(K(f))].put[f] \in Values
  <2>1. Max(K(f)) \in K(f)
    BY <1>2, PositionsOf, MaxOfPositions
  <2>2. rev[Max(K(f))] \in Commit /\ f \in DOMAIN rev[Max(K(f))].put
    BY <2>1, PositionsOf
  <2>3. rev[Max(K(f))].put \in Patches
    BY <2>2 DEF Commit
  <2> QED BY <2>2, <2>3, PatchValues
<1> QED BY <1>1, <1>2 DEF Content, Contents

(* A commit replaces the content of the files it puts.                      *)
LEMMA ContentOfAppend ==
    ASSUME NEW rev \in Revision, NEW new \in Commit
    PROVE  Content(Append(rev, new)) = Patched(Content(rev), new.put)
<1> DEFINE n == Len(rev)
           more == Append(rev, new)
           K(r, f) == {k \in DOMAIN r : f \in DOMAIN r[k].put}
<1>1. n \in Nat /\ DOMAIN rev = 1..n
  BY PositionsOf
<1>2. /\ DOMAIN more = 1..(n + 1) /\ more[n + 1] = new
      /\ \A k \in 1..n : more[k] = rev[k]
  BY <1>1 DEF Revision
<1> HIDE DEF more, n
<1>3. ASSUME NEW f \in Files, f \in DOMAIN new.put
      PROVE  K(more, f) # {} /\ Max(K(more, f)) = n + 1
  <2>1. n + 1 \in K(more, f) /\ K(more, f) \in SUBSET (1..(n + 1)) /\ n + 1 \in Nat
    BY <1>1, <1>2, <1>3
  <2> HIDE DEF K
  <2>2. Max(K(more, f)) \in K(more, f) /\ Max(K(more, f)) >= n + 1
    BY <2>1, MaxOfPositions
  <2> QED BY <1>1, <2>1, <2>2
<1>4. ASSUME NEW f \in Files, f \notin DOMAIN new.put
      PROVE  /\ K(more, f) = K(rev, f)
             /\ K(rev, f) # {} => more[Max(K(rev, f))] = rev[Max(K(rev, f))]
  <2>1. K(more, f) = K(rev, f) /\ K(rev, f) \in SUBSET (1..n)
    BY <1>1, <1>2, <1>4
  <2> HIDE DEF K
  <2>2. K(rev, f) # {} => Max(K(rev, f)) \in 1..n
    BY <1>1, <2>1, MaxOfPositions
  <2> QED BY <1>2, <2>1, <2>2
<1>5. ASSUME NEW f \in Files
      PROVE  Content(more)[f] = IF f \in DOMAIN new.put THEN new.put[f] ELSE Content(rev)[f]
  <2>1. CASE f \in DOMAIN new.put
    BY <1>2, <1>3, <2>1 DEF Content
  <2>2. CASE f \notin DOMAIN new.put
    BY <1>4, <2>2 DEF Content
  <2> QED BY <2>1, <2>2
<1>6. Content(more) = [f \in Files |-> Content(more)[f]]
  BY DEF Content
<1> QED BY <1>5, <1>6 DEF more, Patched

(* A history grows by a commit that changes what its caller had read.       *)
LEMMA NoLostAppend ==
    ASSUME NEW rev \in Revision, NEW new \in Commit, NoLost(rev),
           \A f \in DOMAIN new.put : Content(rev)[f] = new.seen[f]
    PROVE  NoLost(Append(rev, new))
<1> DEFINE n == Len(rev)
           more == Append(rev, new)
<1>1. n \in Nat /\ DOMAIN rev = 1..n
  BY PositionsOf
<1>2. /\ DOMAIN more = 1..(n + 1) /\ more[n + 1] = new
      /\ \A k \in 1..n : more[k] = rev[k]
  BY <1>1 DEF Revision
<1>3. \A k \in 1..(n + 1) : SubSeq(more, 1, k - 1) = SubSeq(rev, 1, k - 1)
  BY <1>1, <1>2 DEF Revision
<1>4. SubSeq(rev, 1, n) = rev
  BY SubSeqFull DEF Revision
<1> HIDE DEF more, n
<1>5. ASSUME NEW k \in 1..(n + 1), NEW f \in DOMAIN more[k].put
      PROVE  Content(SubSeq(more, 1, k - 1))[f] = more[k].seen[f]
  <2>1. CASE k \in 1..n
    <3>1. more[k] = rev[k] /\ k \in DOMAIN rev
      BY <1>1, <1>2, <2>1
    <3>2. SubSeq(more, 1, k - 1) = SubSeq(rev, 1, k - 1)
      BY <1>3
    <3> QED BY <3>1, <3>2 DEF NoLost
  <2>2. CASE k = n + 1
    <3>1. SubSeq(more, 1, k - 1) = rev
      BY <1>1, <1>3, <1>4, <2>2
    <3> QED BY <1>2, <2>2, <3>1
  <2> QED BY <1>1, <2>1, <2>2
<1> QED BY <1>2, <1>5 DEF NoLost, more

(* The commits of a history that grew, and of one that is a prefix.         *)
LEMMA IdsOfAppend ==
    ASSUME NEW rev \in Revision, NEW new \in Commit
    PROVE  Ids(Append(rev, new)) = Ids(rev) \cup {new.id}
<1> DEFINE n == Len(rev)
           more == Append(rev, new)
<1>1. n \in Nat /\ DOMAIN rev = 1..n
  BY PositionsOf
<1>2. /\ DOMAIN more = 1..(n + 1) /\ more[n + 1] = new
      /\ \A k \in 1..n : more[k] = rev[k]
  BY <1>1 DEF Revision
<1> HIDE DEF more, n
<1> QED BY <1>1, <1>2 DEF Ids, more

(* A longer history has every change of a shorter one.                      *)
LEMMA IdsOfPrefix ==
    ASSUME NEW rev \in Revision, NEW more \in Revision, IsPrefix(rev, more)
    PROVE  Ids(rev) \subseteq Ids(more)
<1>1. /\ Len(rev) \in Nat /\ Len(more) \in Nat /\ Len(rev) <= Len(more)
      /\ DOMAIN rev = 1..Len(rev) /\ DOMAIN more = 1..Len(more)
  BY PositionsOf DEF IsPrefix
<1>2. ASSUME NEW k \in DOMAIN rev
      PROVE  k \in DOMAIN more /\ more[k] = rev[k]
  <2>1. SubSeq(rev, 1, Len(rev))[k] = rev[k]
    BY <1>1 DEF Revision
  <2>2. SubSeq(more, 1, Len(rev))[k] = more[k]
    BY <1>1 DEF Revision
  <2> QED BY <1>1, <2>1, <2>2 DEF IsPrefix
<1> QED BY <1>2 DEF Ids

----------------------------------------------------------------------------
(* The mutex.                                                               *)

(* A part of a content is a patch.                                          *)
LEMMA RestrictedType ==
    ASSUME NEW files \in Contents, NEW F \in SUBSET Files
    PROVE  Restricted(files, F) \in Patches
<1>1. Restricted(files, F) \in [F -> Values]
  BY DEF Restricted, Contents
<1> QED BY <1>1 DEF Patches

(* What a caller writes, and the commit of it.                              *)
LEMMA NewCommitType ==
    ASSUME GitTypes, NEW c \in Callers, held[c] # NoState, NEW f \in Files, NEW v \in Values
    PROVE  /\ Edited(c, f, v) \in Contents
           /\ NewCommit(c, Edited(c, f, v)) \in Commit
<1>1. held[c].content \in Contents
  BY DEF GitTypes, HeldState
<1>2. Edited(c, f, v) \in Contents
  BY <1>1 DEF Edited, Contents
<1>3. Content(head[Home[c]]) \in Contents
  BY HomeAssumption, ContentType DEF GitTypes, HomeAssumption
<1> DEFINE changed == Diff(Edited(c, f, v), Content(head[Home[c]]))
<1>4. changed \in SUBSET Files
  BY DEF Diff
<1>5. /\ Restricted(Edited(c, f, v), changed) \in Patches
      /\ Restricted(Content(head[Home[c]]), changed) \in Patches
      /\ Restricted(held[c].content, changed) \in Patches
  <2> HIDE DEF changed
  <2> QED BY <1>1, <1>2, <1>3, <1>4, RestrictedType
<1>6. made + 1 \in Nat
  BY DEF GitTypes
<1> QED BY <1>2, <1>5, <1>6 DEF NewCommit, Commit

(* What a pull leaves in the clone.                                         *)
LEMMA PullTypes ==
    ASSUME GitTypes, NEW m \in Managers, PullWorks(m) \/ PullFails(m)
    PROVE  head' \in [Managers -> Revision] /\ tree' \in [Managers -> Contents]
<1>1. CASE PullWorks(m)
  <2>1. head' \in [Managers -> Revision]
    BY <1>1 DEF PullWorks, GitTypes
  <2>2. Content(remote) \in Contents /\ tree[m] \in Contents
    BY ContentType DEF GitTypes
  <2>3. tree' \in [Managers -> Contents]
    BY <1>1, <2>2 DEF PullWorks, GitTypes, Contents
  <2> QED BY <2>1, <2>3
<1>2. CASE PullFails(m)
  BY <1>2 DEF PullFails, GitTypes
<1> QED BY <1>1, <1>2

(* And a reset.                                                             *)
LEMMA ResetTypes ==
    ASSUME GitTypes, NEW m \in Managers, NEW rev \in Revision, Reset(m, rev)
    PROVE  head' \in [Managers -> Revision] /\ tree' \in [Managers -> Contents]
BY ContentType DEF Reset, GitTypes

(* The calls after WriteState has returned, and the mutexes.                *)
LEMMA ReturnLocked ==
    ASSUME LockInv, NEW c \in Callers, Return(c), at[c] # "idle"
    PROVE  /\ at' \in [Callers -> {"idle", "push", "pull", "pick"}]
           /\ held' \in [Callers -> HeldState \cup {NoState}]
           /\ lock' \in [Managers -> Callers \cup {NoCaller}]
           /\ commit' \in [Callers -> Commit \cup {NoCommit}]
           /\ fallback' \in [Callers -> Revision]
           /\ Locked'
<1> USE HomeAssumption DEF HomeAssumption, LockInv, GitTypes, Return
<1>1. /\ at' \in [Callers -> {"idle", "push", "pull", "pick"}]
      /\ held' \in [Callers -> HeldState \cup {NoState}]
      /\ lock' \in [Managers -> Callers \cup {NoCaller}]
      /\ commit' \in [Callers -> Commit \cup {NoCommit}]
  OBVIOUS
<1>2. fallback' \in [Callers -> Revision]
  BY DEF Revision
<1>3. ASSUME NEW o \in Callers, at'[o] # "idle"
      PROVE  lock'[Home[o]] = o /\ commit'[o] \in Commit
  <2>1. o # c /\ at[o] # "idle" /\ commit'[o] = commit[o]
    BY <1>3
  <2>2. Home[o] # Home[c]
    BY <2>1 DEF Locked
  <2> QED BY <2>1, <2>2 DEF Locked
<1> QED BY <1>1, <1>2, <1>3 DEF Locked

(* A step of the loop goes on with the calls as they are but for the place. *)
LEMMA GoesOnLocked ==
    ASSUME LockInv, NEW c \in Callers, at[c] # "idle", NEW p \in {"push", "pull", "pick"},
           at' = [at EXCEPT ![c] = p], UNCHANGED <<lock, commit>>
    PROVE  at' \in [Callers -> {"idle", "push", "pull", "pick"}] /\ Locked'
BY DEF LockInv, GitTypes, Locked

(* After a failed attempt a caller goes round with the lock, or returns and *)
(* leaves it.                                                               *)
LEMMA AgainLocked ==
    ASSUME LockInv, NEW c \in Callers, at[c] # "idle", Again(c)
    PROVE  /\ at' \in [Callers -> {"idle", "push", "pull", "pick"}]
           /\ held' \in [Callers -> HeldState \cup {NoState}]
           /\ lock' \in [Managers -> Callers \cup {NoCaller}]
           /\ commit' \in [Callers -> Commit \cup {NoCommit}]
           /\ fallback' \in [Callers -> Revision]
           /\ Locked'
<1>1. CASE Return(c)
  BY <1>1, ReturnLocked
<1>2. CASE at' = [at EXCEPT ![c] = "push"] /\ UNCHANGED <<lock, held, commit, fallback>>
  BY <1>2, GoesOnLocked DEF LockInv, GitTypes
<1> QED BY <1>1, <1>2 DEF Again

(* To begin with nobody holds a lock and nobody is in a critical section.   *)
LEMMA LockInit == Init => LockInv
<1> SUFFICES ASSUME Init PROVE LockInv
  OBVIOUS
<1>1. <<>> \in Revision
  BY DEF Revision
<1>2. Content(<<>>) \in Contents
  BY <1>1, ContentType
<1> QED BY <1>1, <1>2 DEF Init, LockInv, GitTypes, Locked

(* Every step leaves the lock with the one caller that is inside, whatever  *)
(* fails.                                                                   *)
LEMMA LockNext == LockInv /\ [Next]_vars => LockInv'
<1> SUFFICES ASSUME LockInv, [Next]_vars PROVE LockInv'
  OBVIOUS
<1> USE HomeAssumption DEF HomeAssumption
<1>1. CASE UNCHANGED vars
  BY <1>1 DEF vars, clones, calls, history, LockInv, GitTypes, Locked
<1>2. ASSUME NEW c \in Callers, CallerStep(c) PROVE LockInv'
  <2> DEFINE m == Home[c]
  <2>0. m \in Managers /\ GitTypes
    BY DEF LockInv
  <2> HIDE DEF m
  <2>1. CASE ReadState(c)
    <3>1. head' \in [Managers -> Revision] /\ tree' \in [Managers -> Contents]
      BY <2>0, <2>1, PullTypes DEF ReadState, m
    <3>2. held' \in [Callers -> HeldState \cup {NoState}]
      BY <2>0, <2>1, <3>1 DEF ReadState, m, GitTypes, HeldState
    <3> QED BY <2>1, <3>1, <3>2 DEF ReadState, LockInv, GitTypes, Locked
  <2>2. CASE WriteStale(c)
    BY <2>2 DEF WriteStale, clones, LockInv, GitTypes, Locked
  <2>3. CASE WriteUnchanged(c)
    <3>1. Content(head[m]) \in Contents
      BY <2>0, ContentType DEF GitTypes
    <3> QED BY <2>3, <3>1 DEF WriteUnchanged, LockInv, GitTypes, Locked, m
  <2>4. CASE WriteCommit(c)
    <3>1. held[c] # NoState /\ lock[m] = NoCaller /\ at[c] = "idle"
      BY <2>4 DEF WriteCommit, MayWrite, m
    <3>2. PICK f \in Files, v \in Values :
             /\ tree' = [tree EXCEPT ![m] = Edited(c, f, v)]
             /\ commit' = [commit EXCEPT ![c] = NewCommit(c, Edited(c, f, v))]
      BY <2>4 DEF WriteCommit, m
    <3>3. /\ Edited(c, f, v) \in Contents
          /\ NewCommit(c, Edited(c, f, v)) \in Commit
      BY <2>0, <3>1, NewCommitType
    <3>4. /\ tree' \in [Managers -> Contents]
          /\ commit' \in [Callers -> Commit \cup {NoCommit}]
          /\ commit'[c] \in Commit
      BY <2>0, <3>2, <3>3 DEF GitTypes
    <3>5. head' \in [Managers -> Revision]
      BY <2>0, <2>4, <3>4 DEF WriteCommit, GitTypes, m, Revision
    <3>6. GitTypes'
      BY <2>0, <2>4, <3>4, <3>5 DEF WriteCommit, GitTypes, m
    <3>7. ASSUME NEW o \in Callers, at'[o] # "idle"
          PROVE  lock'[Home[o]] = o /\ commit'[o] \in Commit
      <4>1. CASE o = c
        BY <2>0, <2>4, <3>4, <4>1 DEF WriteCommit, GitTypes, m
      <4>2. CASE o # c
        <5>1. at[o] # "idle" /\ commit'[o] = commit[o]
          BY <2>0, <2>4, <3>2, <3>7, <4>2 DEF WriteCommit, GitTypes
        <5>2. lock[Home[o]] = o /\ commit[o] \in Commit
          BY <5>1 DEF LockInv, Locked
        <5>3. Home[o] # m
          BY <3>1, <5>2, CallersAssumption DEF CallersAssumption
        <5> QED BY <2>0, <2>4, <5>1, <5>2, <5>3 DEF WriteCommit, GitTypes, m
      <4> QED BY <4>1, <4>2
    <3> QED BY <3>6, <3>7 DEF LockInv, Locked
  <2>5. CASE WriteDiskFails(c)
    <3>1. held[c] # NoState
      BY <2>5 DEF WriteDiskFails, MayWrite
    <3>2. tree' \in [Managers -> Contents]
      BY <2>0, <2>5, <3>1, NewCommitType DEF WriteDiskFails, GitTypes
    <3> QED BY <2>5, <3>2 DEF WriteDiskFails, LockInv, GitTypes, Locked
  <2>6. CASE WriteGitFails(c)
    <3>1. head[m] \in Revision /\ Reset(m, head[m])
      BY <2>0, <2>6 DEF WriteGitFails, GitTypes, m
    <3>2. head' \in [Managers -> Revision] /\ tree' \in [Managers -> Contents]
      BY <2>0, <3>1, ResetTypes
    <3> QED BY <2>6, <3>2 DEF WriteGitFails, LockInv, GitTypes, Locked
  <2>7. CASE WriteTagFails(c)
    <3>1. held[c] # NoState
      BY <2>7 DEF WriteTagFails, MayWrite
    <3>2. PICK f \in Files, v \in Values :
             /\ tree' = [tree EXCEPT ![m] = Edited(c, f, v)]
             /\ head' = [head EXCEPT ![m] = Append(@, NewCommit(c, Edited(c, f, v)))]
      BY <2>7 DEF WriteTagFails, m
    <3>3. /\ Edited(c, f, v) \in Contents
          /\ NewCommit(c, Edited(c, f, v)) \in Commit
      BY <2>0, <3>1, NewCommitType
    <3>4. /\ tree' \in [Managers -> Contents]
          /\ head' \in [Managers -> Revision]
      BY <2>0, <3>2, <3>3 DEF GitTypes, Revision
    <3> QED BY <2>7, <3>4 DEF WriteTagFails, LockInv, GitTypes, Locked
  <2>8. CASE TooManyChanges(c)
    <3>1. fallback[c] \in Revision /\ Reset(m, fallback[c]) /\ Return(c) /\ at[c] # "idle"
      BY <2>0, <2>8 DEF TooManyChanges, GitTypes, m
    <3>2. head' \in [Managers -> Revision] /\ tree' \in [Managers -> Contents]
      BY <2>0, <3>1, ResetTypes
    <3> QED BY <2>8, <3>1, <3>2, ReturnLocked DEF TooManyChanges, LockInv, GitTypes
  <2>9. CASE PushWorks(c)
    BY <2>0, <2>9, ReturnLocked DEF PushWorks, LockInv, GitTypes, m
  <2>10. CASE PushFails(c)
    <3>1. fallback[c] \in Revision /\ Reset(m, fallback[c]) /\ at[c] # "idle"
      BY <2>0, <2>10 DEF PushFails, GitTypes, m
    <3>2. head' \in [Managers -> Revision] /\ tree' \in [Managers -> Contents]
      BY <2>0, <3>1, ResetTypes
    <3>3. at' \in [Callers -> {"idle", "push", "pull", "pick"}] /\ Locked'
      BY <2>10, <3>1, GoesOnLocked DEF PushFails
    <3>4. remote' \in Revision
      BY <2>0, <2>10 DEF PushFails, GitTypes, m
    <3> QED BY <2>10, <3>2, <3>3, <3>4 DEF PushFails, LockInv, GitTypes
  <2>11. CASE PullAfterReset(c)
    <3>1. head' \in [Managers -> Revision] /\ tree' \in [Managers -> Contents]
      BY <2>0, <2>11, PullTypes DEF PullAfterReset, m
    <3>2. CASE at' = [at EXCEPT ![c] = "pick"] /\ UNCHANGED <<lock, held, commit, fallback>>
      <4>1. at' \in [Callers -> {"idle", "push", "pull", "pick"}] /\ Locked'
        BY <2>11, <3>2, GoesOnLocked DEF PullAfterReset
      <4> QED BY <2>11, <3>1, <3>2, <4>1 DEF PullAfterReset, LockInv, GitTypes
    <3>3. CASE Return(c)
      BY <2>11, <3>1, <3>3, ReturnLocked DEF PullAfterReset, LockInv, GitTypes
    <3> QED BY <2>11, <3>2, <3>3 DEF PullAfterReset
  <2>12. CASE CherryPick(c)
    <3>1. at[c] = "pick" /\ commit[c] \in Commit
      BY <2>12 DEF CherryPick, LockInv, Locked
    <3>2. head' \in [Managers -> Revision]
      BY <2>0, <2>12, <3>1 DEF CherryPick, GitTypes, Revision, m
    <3>3. Patched(tree[m], commit[c].put) \in Contents
      <4>1. commit[c].put \in Patches /\ tree[m] \in [Files -> Values]
        BY <2>0, <3>1 DEF Commit, GitTypes, Contents
      <4>2. \A f \in DOMAIN commit[c].put : f \in Files /\ commit[c].put[f] \in Values
        BY <4>1, PatchValues
      <4> QED BY <4>1, <4>2 DEF Patched, Contents
    <3>4. tree' \in [Managers -> Contents]
      BY <2>0, <2>12, <3>3 DEF CherryPick, GitTypes, m
    <3> QED BY <2>12, <3>1, <3>2, <3>4, AgainLocked DEF CherryPick, LockInv, GitTypes
  <2>13. CASE CherryPickAbort(c)
    BY <2>13, AgainLocked DEF CherryPickAbort, LockInv, GitTypes
  <2> QED BY <1>2, <2>1, <2>2, <2>3, <2>4, <2>5, <2>6, <2>7, <2>8, <2>9, <2>10, <2>11,
             <2>12, <2>13 DEF CallerStep, LoopStep
<1> QED BY <1>1, <1>2 DEF Next

----------------------------------------------------------------------------
(* Acknowledged writes.                                                     *)

(* The history at the remote only grows.                                    *)
LEMMA RemoteGrows ==
    ASSUME LockInv, NEW c \in Callers, CallerStep(c)
    PROVE  Ids(remote) \subseteq Ids(remote')
<1> USE HomeAssumption DEF HomeAssumption
<1>1. CASE UNCHANGED remote
  BY <1>1 DEF Ids
<1>2. CASE Accepts(Home[c]) /\ remote' = head[Home[c]]
  BY <1>2, IdsOfPrefix DEF Accepts, LockInv, GitTypes
<1> QED BY <1>1, <1>2 DEF CallerStep, LoopStep, ReadState, WriteStale, WriteUnchanged,
           WriteCommit, WriteDiskFails, WriteGitFails, WriteTagFails, TooManyChanges,
           PushWorks, PushFails, PullAfterReset, CherryPick, CherryPickAbort

(* What happens in one clone does not touch what the callers of another are *)
(* about to push.                                                           *)
LEMMA OthersPush ==
    ASSUME LockInv, Pushed, NEW c \in Callers, CallerStep(c),
           NEW o \in Callers, o # c, at'[o] = "push"
    PROVE  commit'[o].id \in Ids(head'[Home[o]]) \cup conflicted' \cup absorbed'
<1> USE HomeAssumption DEF HomeAssumption
<1>1. at[o] = "push" /\ commit'[o] = commit[o]
  BY DEF LockInv, GitTypes, CallerStep, LoopStep, ReadState, WriteStale, WriteUnchanged,
         WriteCommit, WriteDiskFails, WriteGitFails, WriteTagFails, TooManyChanges,
         PushWorks, PushFails, PullAfterReset, CherryPick, CherryPickAbort, Return, Again
<1>2. lock[Home[o]] = o
  BY <1>1 DEF LockInv, Locked
<1>3. lock[Home[c]] \in {NoCaller, c}
  BY DEF LockInv, Locked, CallerStep, LoopStep, ReadState, WriteStale, WriteUnchanged,
         WriteCommit, WriteDiskFails, WriteGitFails, WriteTagFails, TooManyChanges,
         PushWorks, PushFails, PullAfterReset, CherryPick, CherryPickAbort, MayWrite
<1>4. Home[o] # Home[c]
  BY <1>2, <1>3, CallersAssumption DEF CallersAssumption
<1>5. head'[Home[o]] = head[Home[o]]
  BY <1>4 DEF LockInv, GitTypes, CallerStep, LoopStep, ReadState, WriteStale,
         WriteUnchanged, WriteCommit, WriteDiskFails, WriteGitFails, WriteTagFails,
         TooManyChanges, PushWorks, PushFails, PullAfterReset, CherryPick, CherryPickAbort,
         PullWorks, PullFails, Reset, clones
<1>6. conflicted \subseteq conflicted' /\ absorbed \subseteq absorbed'
  BY DEF CallerStep, LoopStep, ReadState, WriteStale, WriteUnchanged,
         WriteCommit, WriteDiskFails, WriteGitFails, WriteTagFails,
         TooManyChanges, PushWorks, PushFails, PullAfterReset, CherryPick, CherryPickAbort,
         history
<1>7. commit[o].id \in Ids(head[Home[o]]) \cup conflicted \cup absorbed
  BY <1>1 DEF Pushed
<1> QED BY <1>1, <1>5, <1>6, <1>7

(* Every step keeps the acknowledgements true, whatever fails.              *)
LEMMA AckNext == AckInv /\ [Next]_vars => AckInv'
<1> SUFFICES ASSUME AckInv, [Next]_vars PROVE AckInv'
  OBVIOUS
<1> USE HomeAssumption DEF HomeAssumption
<1>1. LockInv /\ LockInv' /\ Pushed /\ AckedUnlessConflict
  BY LockNext DEF AckInv
<1>2. CASE UNCHANGED vars
  <2>1. Pushed'
    BY <1>1, <1>2 DEF vars, clones, calls, history, Pushed, Ids
  <2>2. AckedUnlessConflict'
    BY <1>1, <1>2 DEF vars, history, AckedUnlessConflict, InEffect, Ids
  <2> QED BY <1>1, <2>1, <2>2 DEF AckInv
<1>3. ASSUME NEW c \in Callers, CallerStep(c) PROVE AckInv'
  <2> DEFINE m == Home[c]
  <2>1. m \in Managers /\ head[m] \in Revision
    BY <1>1 DEF LockInv, GitTypes
  <2>2. ASSUME at'[c] = "push"
        PROVE  commit'[c].id \in Ids(head'[m]) \cup conflicted' \cup absorbed'
    <3>1. CASE WriteCommit(c)
      <4>1. commit'[c] \in Commit
        BY <1>1, <2>2 DEF LockInv, Locked
      <4>2. head'[m] = Append(head[m], commit'[c])
        BY <1>1, <2>1, <3>1 DEF WriteCommit, LockInv, GitTypes
      <4> QED BY <2>1, <4>1, <4>2, IdsOfAppend
    <3>2. CASE CherryPick(c)
      <4>1. commit[c] \in Commit
        BY <1>1, <3>2 DEF CherryPick, LockInv, Locked
      <4>2. head'[m] = Append(head[m], commit[c])
        BY <1>1, <2>1, <3>2 DEF CherryPick, LockInv, GitTypes
      <4>3. commit'[c] = commit[c]
        BY <1>1, <2>2, <3>2 DEF CherryPick, Again, Return, LockInv, GitTypes
      <4> QED BY <2>1, <4>1, <4>2, <4>3, IdsOfAppend
    <3>3. CASE CherryPickAbort(c)
      <4>1. commit'[c] = commit[c]
        BY <1>1, <2>2, <3>3 DEF CherryPickAbort, Again, Return, LockInv, GitTypes
      <4> QED BY <3>3, <4>1 DEF CherryPickAbort
    <3> QED BY <1>1, <1>3, <2>2, <3>1, <3>2, <3>3 DEF LockInv, GitTypes,
               CallerStep, LoopStep, ReadState, WriteStale, WriteUnchanged, WriteDiskFails,
               WriteGitFails, WriteTagFails, MayWrite, TooManyChanges, PushWorks, PushFails,
               PullAfterReset, Return
  <2>3. Pushed'
    BY <1>1, <1>3, <2>2, OthersPush DEF Pushed
  <2>4. ASSUME NEW id \in acked'
        PROVE  id \in Ids(remote') \cup absorbed' \cup conflicted'
    <3>1. /\ Ids(remote) \subseteq Ids(remote')
          /\ conflicted \subseteq conflicted' /\ absorbed \subseteq absorbed'
      <4>1. conflicted \subseteq conflicted' /\ absorbed \subseteq absorbed'
        BY <1>3 DEF CallerStep, LoopStep, ReadState, WriteStale, WriteUnchanged,
           WriteCommit, WriteDiskFails, WriteGitFails, WriteTagFails, TooManyChanges,
           PushWorks, PushFails, PullAfterReset, CherryPick, CherryPickAbort, history
      <4> QED BY <1>1, <1>3, <4>1, RemoteGrows
    <3>2. CASE id \in acked
      BY <1>1, <3>1, <3>2 DEF AckedUnlessConflict, InEffect
    <3>3. CASE PushWorks(c) /\ id = commit[c].id
      <4>1. id \in Ids(head[m]) \cup conflicted \cup absorbed
        BY <1>1, <3>3 DEF PushWorks, Pushed
      <4> QED BY <3>1, <3>3, <4>1 DEF PushWorks
    <3>4. acked' = acked \/ (PushWorks(c) /\ acked' = acked \cup {commit[c].id})
      BY <1>3 DEF CallerStep, LoopStep, ReadState, WriteStale, WriteUnchanged,
           WriteCommit, WriteDiskFails, WriteGitFails, WriteTagFails, TooManyChanges,
           PushWorks, PushFails, PullAfterReset, CherryPick, CherryPickAbort, history
    <3> QED BY <2>4, <3>2, <3>3, <3>4
  <2>5. AckedUnlessConflict'
    BY <2>4 DEF AckedUnlessConflict, InEffect
  <2> QED BY <1>1, <2>3, <2>5 DEF AckInv
<1> QED BY <1>2, <1>3 DEF Next

(* In every reachable state a caller about to push has its commit in the    *)
(* history of its clone, unless the cherry-pick was given up.               *)
THEOREM AckInvariance == Spec => []AckInv
<1>1. Init => AckInv
  <2> SUFFICES ASSUME Init PROVE AckInv
    OBVIOUS
  <2>1. LockInv
    BY LockInit
  <2>2. Pushed /\ AckedUnlessConflict
    BY DEF Init, Pushed, AckedUnlessConflict
  <2> QED BY <2>1, <2>2 DEF AckInv
<1> QED BY <1>1, AckNext, PTL DEF Spec

(* WriteState returns nil only for a write whose commit is at the remote,   *)
(* or had nothing left to change, or was given up at a conflict, whatever   *)
(* fails on the way.                                                        *)
THEOREM AckedUnlessConflictAlways == Spec => []AckedUnlessConflict
BY AckInvariance, PTL DEF AckInv

----------------------------------------------------------------------------
(* Lost updates.                                                            *)

(* A pull that works leaves the files of the new HEAD, if the files were    *)
(* those of the old one.                                                    *)
LEMMA PullTree ==
    ASSUME GitTypes, TreeIsHead, NEW m \in Managers, PullWorks(m) \/ PullFails(m)
    PROVE  TreeIsHead'
<1>1. CASE PullWorks(m)
  <2>1. Content(remote) \in Contents /\ Content(head[m]) \in Contents
    BY ContentType DEF GitTypes
  <2>2. tree'[m] = Content(remote)
    <3>1. tree'[m] = [f \in Files |-> IF f \in Diff(Content(head[m]), Content(remote))
                                      THEN Content(remote)[f] ELSE Content(head[m])[f]]
      BY <1>1 DEF PullWorks, TreeIsHead, GitTypes
    <3>2. \A f \in Files : tree'[m][f] = Content(remote)[f]
      BY <3>1 DEF Diff
    <3> QED BY <2>1, <3>1, <3>2 DEF Contents
  <2>3. head'[m] = remote
    BY <1>1 DEF PullWorks, GitTypes
  <2>4. \A o \in Managers : o # m => head'[o] = head[o] /\ tree'[o] = tree[o]
    BY <1>1 DEF PullWorks, GitTypes
  <2>5. ASSUME NEW o \in Managers PROVE tree'[o] = Content(head'[o])
    BY <2>2, <2>3, <2>4 DEF TreeIsHead
  <2> QED BY <2>5 DEF TreeIsHead
<1>2. CASE PullFails(m)
  BY <1>2 DEF PullFails, TreeIsHead
<1> QED BY <1>1, <1>2

(* A clone whose tree and HEAD are set together, to match.                  *)
LEMMA SetTree ==
    ASSUME GitTypes, TreeIsHead, NEW m \in Managers, NEW rev \in Revision,
           head' = [head EXCEPT ![m] = rev], tree' = [tree EXCEPT ![m] = Content(rev)]
    PROVE  TreeIsHead'
<1>1. head'[m] = rev /\ tree'[m] = Content(rev)
  BY DEF GitTypes
<1>2. \A o \in Managers : o # m => head'[o] = head[o] /\ tree'[o] = tree[o]
  BY DEF GitTypes
<1>3. ASSUME NEW o \in Managers PROVE tree'[o] = Content(head'[o])
  BY <1>1, <1>2 DEF TreeIsHead
<1> QED BY <1>3 DEF TreeIsHead

(* The commit of a write has the content that is written, changes one file  *)
(* at most, and from what the caller had read.                              *)
LEMMA CommitOfWrite ==
    ASSUME GitTypes, EtagNamesContent, NEW c \in Callers, MayWrite(c),
           NEW f \in Files, NEW v \in Values
    PROVE  LET rev == head[Home[c]]
               new == NewCommit(c, Edited(c, f, v))
           IN  /\ rev \in Revision /\ new \in Commit /\ OneFile(new)
               /\ \A g \in DOMAIN new.put : Content(rev)[g] = new.seen[g]
               /\ Content(Append(rev, new)) = Edited(c, f, v)
<1> DEFINE rev == head[Home[c]]
           now == Content(rev)
           files == Edited(c, f, v)
           changed == Diff(files, now)
           new == NewCommit(c, files)
<1>1. held[c] # NoState /\ held[c].etag = rev
  BY DEF MayWrite, EtagMatches
<1>2. rev \in Revision
  BY HomeAssumption DEF HomeAssumption, GitTypes
<1>3. new \in Commit /\ files \in Contents
  BY <1>1, NewCommitType
<1>4. held[c].content = now
  BY <1>1 DEF EtagNamesContent
<1>5. now \in Contents
  BY <1>2, ContentType
<1>6. /\ new.put = Restricted(files, changed)
      /\ new.old = Restricted(now, changed)
      /\ new.seen = Restricted(now, changed)
  BY <1>4 DEF NewCommit
<1>7. files = [now EXCEPT ![f] = v]
  BY <1>4 DEF Edited
<1> HIDE DEF rev, now, new, files
<1>8. changed \subseteq {f}
  BY <1>5, <1>7 DEF Contents, Diff
<1>9. DOMAIN new.put = changed
  BY <1>6 DEF Restricted
<1>10. OneFile(new)
  BY <1>6, <1>8, <1>9 DEF OneFile
<1>11. \A g \in DOMAIN new.put : now[g] = new.seen[g]
  BY <1>6, <1>9 DEF Restricted
<1>12. Patched(now, new.put) = files
  <2>1. \A g \in Files : Patched(now, new.put)[g] = files[g]
    <3>1. ASSUME NEW g \in Files PROVE Patched(now, new.put)[g] = files[g]
      <4>1. CASE g \in changed
        BY <1>6, <1>9, <4>1 DEF Patched, Restricted
      <4>2. CASE g \notin changed
        BY <1>9, <4>2 DEF Patched, Diff
      <4> QED BY <4>1, <4>2
    <3> QED BY <3>1
  <2> QED BY <1>3, <2>1 DEF Patched, Contents
<1>13. Content(Append(rev, new)) = files
  BY <1>2, <1>3, <1>12, ContentOfAppend DEF now
<1> QED BY <1>2, <1>3, <1>10, <1>11, <1>13 DEF rev, now, new, files

(* A cherry-pick that is clean replaces what the caller had read.           *)
LEMMA PickOfSeen ==
    ASSUME NEW c \in Callers, OneFile(commit[c]), PicksCleanly(c)
    PROVE  \A f \in DOMAIN commit[c].put : Content(head[Home[c]])[f] = commit[c].seen[f]
<1> SUFFICES ASSUME NEW f \in DOMAIN commit[c].put
             PROVE  Content(head[Home[c]])[f] = commit[c].seen[f]
  OBVIOUS
<1>1. DOMAIN commit[c].put = {f} /\ commit[c].seen[f] = commit[c].old[f]
  BY DEF OneFile
<1>2. f \in ToPick(c)
  BY <1>1 DEF PicksCleanly, ToPick
<1> QED BY <1>1, <1>2 DEF PicksCleanly

(* Histories stay as they are but for the clone, the remote and the         *)
(* fallback of one caller.                                                  *)
LEMMA HistoriesKept ==
    ASSUME GitTypes, Histories, NEW c \in Callers, NEW m \in Managers, NEW rev, NEW back,
           NoLost(rev), NoLost(back), NoLost(remote'),
           head' = [head EXCEPT ![m] = rev], fallback' = [fallback EXCEPT ![c] = back]
    PROVE  Histories'
<1>1. \A o \in Managers : head'[o] = IF o = m THEN rev ELSE head[o]
  BY DEF GitTypes
<1>2. \A o \in Callers : fallback'[o] = IF o = c THEN back ELSE fallback[o]
  BY DEF GitTypes
<1>3. \A o \in Managers : NoLost(head'[o])
  BY <1>1 DEF Histories
<1>4. \A o \in Callers : NoLost(fallback'[o])
  BY <1>2 DEF Histories
<1>5. Histories' <=> /\ NoLost(remote')
                     /\ \A o \in Managers : NoLost(head'[o])
                     /\ \A o \in Callers : NoLost(fallback'[o])
  BY DEF Histories, NoLost
<1> QED BY <1>3, <1>4, <1>5

(* What was read stays what its etag names until it is used up, and a write *)
(* under way keeps its commit.                                              *)
LEMMA CallsKept ==
    ASSUME GitTypes, EtagNamesContent, CommitsOneFile, NEW c \in Callers,
           held' = held \/ held' = [held EXCEPT ![c] = NoState],
           \A o \in Callers : at'[o] # "idle" => at[o] # "idle" /\ commit'[o] = commit[o]
    PROVE  EtagNamesContent' /\ CommitsOneFile'
<1>1. ASSUME NEW o \in Callers, held'[o] # NoState
      PROVE  held'[o].content = Content(held'[o].etag)
  <2>1. held'[o] = held[o] /\ held[o] # NoState
    BY <1>1 DEF GitTypes
  <2> QED BY <2>1 DEF EtagNamesContent
<1>2. ASSUME NEW o \in Callers, at'[o] # "idle" PROVE OneFile(commit'[o])
  BY <1>2 DEF CommitsOneFile
<1>3. CommitsOneFile' <=> \A o \in Callers : at'[o] # "idle" => OneFile(commit'[o])
  BY DEF CommitsOneFile, OneFile
<1> QED BY <1>1, <1>2, <1>3 DEF EtagNamesContent

(* The same of WriteState's return and of the next round of its loop.       *)
LEMMA ReturnKeeps ==
    ASSUME GitTypes, EtagNamesContent, CommitsOneFile, NEW c \in Callers, at[c] # "idle",
           Return(c) \/ Again(c)
    PROVE  EtagNamesContent' /\ CommitsOneFile'
<1>1. held' = held \/ held' = [held EXCEPT ![c] = NoState]
  BY DEF Return, Again
<1>2. \A o \in Callers : at'[o] # "idle" => at[o] # "idle" /\ commit'[o] = commit[o]
  BY DEF Return, Again, GitTypes
<1> QED BY <1>1, <1>2, CallsKept

(* A step that leaves the histories but for the fallback, which is dropped. *)
LEMMA HistoriesSame ==
    ASSUME GitTypes, Histories, NEW c \in Callers, NEW m \in Managers, NEW rev, NoLost(rev),
           NoLost(remote'), head' = [head EXCEPT ![m] = rev],
           fallback' = fallback \/ fallback' = [fallback EXCEPT ![c] = <<>>]
    PROVE  Histories'
<1>1. CASE fallback' = fallback
  <2>1. fallback' = [fallback EXCEPT ![c] = fallback[c]] /\ NoLost(fallback[c])
    BY <1>1 DEF GitTypes, Histories
  <2> QED BY <2>1, HistoriesKept
<1>2. CASE fallback' = [fallback EXCEPT ![c] = <<>>]
  <2>1. NoLost(<<>>)
    BY DEF NoLost
  <2> QED BY <1>2, <2>1, HistoriesKept
<1> QED BY <1>1, <1>2

(* To begin with there is no history to lose a change from.                 *)
LEMMA LostInit == Init => LostInv
<1> SUFFICES ASSUME Init PROVE LostInv
  OBVIOUS
<1>1. LockInv
  BY LockInit
<1>2. TreeIsHead /\ EtagNamesContent /\ CommitsOneFile
  BY DEF Init, TreeIsHead, EtagNamesContent, CommitsOneFile
<1>3. NoLost(<<>>)
  BY DEF NoLost
<1>4. Histories
  BY <1>3 DEF Init, Histories
<1> QED BY <1>1, <1>2, <1>4 DEF LostInv

(* Every step keeps the histories whole, when the disk does not fail.       *)
LEMMA LostNext ==
    ASSUME DiskFaults = FALSE
    PROVE  LostInv /\ [Next]_vars => LostInv'
<1> SUFFICES ASSUME LostInv, [Next]_vars PROVE LostInv'
  OBVIOUS
<1>1. /\ LockInv /\ LockInv' /\ GitTypes /\ TreeIsHead /\ EtagNamesContent
      /\ CommitsOneFile /\ Histories
  BY LockNext DEF LostInv, LockInv
<1>2. CASE UNCHANGED vars
  BY <1>1, <1>2 DEF vars, clones, calls, history, LostInv, TreeIsHead, EtagNamesContent,
     CommitsOneFile, OneFile, Histories, NoLost
<1>3. ASSUME NEW c \in Callers, CallerStep(c)
      PROVE  TreeIsHead' /\ EtagNamesContent' /\ CommitsOneFile' /\ Histories'
  <2> DEFINE m == Home[c]
  <2>0. m \in Managers /\ head[m] \in Revision /\ remote \in Revision
    BY <1>1, HomeAssumption DEF HomeAssumption, GitTypes
  <2> HIDE DEF m
  <2>h. /\ NoLost(remote) /\ NoLost(head[m]) /\ NoLost(fallback[c])
        /\ head = [head EXCEPT ![m] = head[m]]
    BY <1>1, <2>0 DEF Histories, GitTypes
  <2>1. CASE ReadState(c)
    <3>1. TreeIsHead'
      BY <1>1, <2>0, <2>1, PullTree DEF ReadState, m
    <3>2. ASSUME NEW o \in Callers, held'[o] # NoState
          PROVE  held'[o].content = Content(held'[o].etag)
      <4>1. CASE o = c
        <5>1. held'[c] = [etag |-> head'[m], content |-> tree'[m]]
          BY <1>1, <2>1 DEF ReadState, m, GitTypes
        <5>2. tree'[m] = Content(head'[m])
          BY <2>0, <3>1 DEF TreeIsHead
        <5> QED BY <4>1, <5>1, <5>2
      <4>2. CASE o # c
        <5>1. held'[o] = held[o]
          BY <1>1, <2>1, <4>2 DEF ReadState, GitTypes
        <5> QED BY <1>1, <3>2, <5>1 DEF EtagNamesContent
      <4> QED BY <4>1, <4>2
    <3>3. EtagNamesContent'
      BY <3>2 DEF EtagNamesContent
    <3>4. CommitsOneFile'
      BY <1>1, <2>1 DEF ReadState, CommitsOneFile, OneFile
    <3>5. /\ remote' = remote /\ fallback' = fallback
          /\ head' = [head EXCEPT ![m] = remote] \/ head' = [head EXCEPT ![m] = head[m]]
      BY <2>1, <2>h DEF ReadState, PullWorks, PullFails, m
    <3>6. Histories'
      BY <1>1, <2>0, <2>h, <3>5, HistoriesSame
    <3> QED BY <3>1, <3>3, <3>4, <3>6
  <2>2. CASE WriteStale(c)
    <3>1. UNCHANGED <<remote, head, tree, at, commit, fallback>>
      BY <2>2 DEF WriteStale, clones
    <3>2. EtagNamesContent' /\ CommitsOneFile'
      BY <1>1, <2>2, <3>1, CallsKept DEF WriteStale
    <3>3. TreeIsHead' /\ Histories'
      BY <1>1, <3>1 DEF TreeIsHead, Histories, NoLost
    <3> QED BY <3>2, <3>3
  <2>3. CASE WriteUnchanged(c)
    <3>1. EtagNamesContent' /\ CommitsOneFile'
      BY <1>1, <2>3, CallsKept DEF WriteUnchanged
    <3>2. TreeIsHead'
      BY <1>1, <2>0, <2>3, <2>h, SetTree DEF WriteUnchanged, m
    <3>3. Histories'
      BY <1>1, <2>3 DEF WriteUnchanged, Histories, NoLost
    <3> QED BY <3>1, <3>2, <3>3
  <2>4. CASE WriteCommit(c)
    <3>1. PICK f \in Files, v \in Values :
             /\ tree' = [tree EXCEPT ![m] = Edited(c, f, v)]
             /\ commit' = [commit EXCEPT ![c] = NewCommit(c, Edited(c, f, v))]
      BY <2>4 DEF WriteCommit, m
    <3> DEFINE new == NewCommit(c, Edited(c, f, v))
               rev == Append(head[m], new)
    <3>2. MayWrite(c)
      BY <2>4 DEF WriteCommit
    <3>3. /\ new \in Commit /\ OneFile(new)
          /\ \A g \in DOMAIN new.put : Content(head[m])[g] = new.seen[g]
          /\ Content(rev) = Edited(c, f, v)
      BY <1>1, <3>2, CommitOfWrite DEF m
    <3>4. commit'[c] = new
      BY <1>1, <3>1 DEF GitTypes
    <3> HIDE DEF new
    <3>5. rev \in Revision
      BY <2>0, <3>3 DEF Revision
    <3>6. NoLost(rev)
      BY <2>0, <2>h, <3>3, NoLostAppend
    <3>7. head' = [head EXCEPT ![m] = rev]
      BY <2>4, <3>4 DEF WriteCommit, m
    <3>8. tree' = [tree EXCEPT ![m] = Content(rev)]
      BY <3>1, <3>3
    <3> HIDE DEF rev
    <3>9. TreeIsHead'
      BY <1>1, <2>0, <3>5, <3>7, <3>8, SetTree
    <3>10. EtagNamesContent'
      BY <1>1, <2>4 DEF WriteCommit, EtagNamesContent
    <3>11. ASSUME NEW o \in Callers, at'[o] # "idle" PROVE OneFile(commit'[o])
      <4>1. CASE o = c
        BY <3>3, <3>4, <4>1
      <4>2. CASE o # c
        <5>1. at[o] # "idle" /\ commit'[o] = commit[o]
          BY <1>1, <2>4, <3>1, <3>11, <4>2 DEF WriteCommit, GitTypes
        <5> QED BY <1>1, <5>1 DEF CommitsOneFile
      <4> QED BY <4>1, <4>2
    <3>12. CommitsOneFile'
      BY <3>11 DEF CommitsOneFile, OneFile
    <3>13. Histories'
      <4>1. NoLost(remote') /\ fallback' = [fallback EXCEPT ![c] = head[m]]
        BY <2>4, <2>h DEF WriteCommit, m
      <4> QED BY <1>1, <2>0, <2>h, <3>6, <3>7, <4>1, HistoriesKept
    <3> QED BY <3>9, <3>10, <3>12, <3>13
  <2>5. CASE WriteDiskFails(c) \/ WriteGitFails(c) \/ WriteTagFails(c)
    BY <2>5 DEF WriteDiskFails, WriteGitFails, WriteTagFails
  <2>6. CASE TooManyChanges(c) \/ PushFails(c)
    <3>1. /\ head' = [head EXCEPT ![m] = fallback[c]]
          /\ tree' = [tree EXCEPT ![m] = Content(fallback[c])]
          /\ fallback[c] \in Revision /\ at[c] # "idle"
      BY <1>1, <2>6 DEF TooManyChanges, PushFails, Reset, GitTypes, m
    <3>2. TreeIsHead'
      BY <1>1, <2>0, <3>1, SetTree
    <3>3. EtagNamesContent' /\ CommitsOneFile'
      <4>1. CASE TooManyChanges(c)
        BY <1>1, <3>1, <4>1, ReturnKeeps DEF TooManyChanges
      <4>2. CASE PushFails(c)
        <5>1. held' = held /\ commit' = commit /\ at' = [at EXCEPT ![c] = "pull"]
          BY <4>2 DEF PushFails
        <5>2. \A o \in Callers : at'[o] # "idle" => at[o] # "idle"
          BY <1>1, <3>1, <5>1 DEF GitTypes
        <5> QED BY <1>1, <5>1, <5>2, CallsKept
      <4> QED BY <2>6, <4>1, <4>2
    <3>4. NoLost(remote')
      BY <2>6, <2>h DEF TooManyChanges, PushFails, m
    <3>5. fallback' = fallback \/ fallback' = [fallback EXCEPT ![c] = <<>>]
      BY <2>6 DEF TooManyChanges, PushFails, Return
    <3>6. Histories'
      BY <1>1, <2>0, <2>h, <3>1, <3>4, <3>5, HistoriesSame
    <3> QED BY <3>2, <3>3, <3>6
  <2>7. CASE PushWorks(c)
    <3>1. Return(c) /\ at[c] # "idle" /\ remote' = head[m] /\ UNCHANGED <<head, tree>>
      BY <2>7 DEF PushWorks, m
    <3>2. EtagNamesContent' /\ CommitsOneFile'
      BY <1>1, <3>1, ReturnKeeps
    <3>3. TreeIsHead'
      BY <1>1, <3>1 DEF TreeIsHead
    <3>4. Histories'
      <4>1. fallback' = [fallback EXCEPT ![c] = <<>>] /\ NoLost(remote')
        BY <2>h, <3>1 DEF Return
      <4>2. head' = [head EXCEPT ![m] = head[m]]
        BY <2>h, <3>1
      <4> QED BY <1>1, <2>0, <2>h, <4>1, <4>2, HistoriesSame
    <3> QED BY <3>2, <3>3, <3>4
  <2>8. CASE PullAfterReset(c)
    <3>1. TreeIsHead'
      BY <1>1, <2>0, <2>8, PullTree DEF PullAfterReset, m
    <3>2. EtagNamesContent' /\ CommitsOneFile'
      <4>1. CASE Return(c)
        BY <1>1, <2>8, <4>1, ReturnKeeps DEF PullAfterReset
      <4>2. CASE at' = [at EXCEPT ![c] = "pick"] /\ UNCHANGED <<held, commit>>
        <5>1. \A o \in Callers : at'[o] # "idle" => at[o] # "idle"
          BY <1>1, <2>8, <4>2 DEF PullAfterReset, GitTypes
        <5> QED BY <1>1, <4>2, <5>1, CallsKept
      <4> QED BY <2>8, <4>1, <4>2 DEF PullAfterReset
    <3>3. /\ remote' = remote
          /\ head' = [head EXCEPT ![m] = remote] \/ head' = [head EXCEPT ![m] = head[m]]
      BY <2>8, <2>h DEF PullAfterReset, PullWorks, PullFails, m
    <3>4. fallback' = fallback \/ fallback' = [fallback EXCEPT ![c] = <<>>]
      BY <2>8 DEF PullAfterReset, Return
    <3>5. NoLost(remote')
      BY <2>h, <3>3
    <3>6. Histories'
      BY <1>1, <2>0, <2>h, <3>3, <3>4, <3>5, HistoriesSame
    <3> QED BY <3>1, <3>2, <3>6
  <2>9. CASE CherryPick(c)
    <3> DEFINE rev == Append(head[m], commit[c])
    <3>1. at[c] # "idle" /\ Again(c) /\ PicksCleanly(c) /\ remote' = remote
      BY <2>9 DEF CherryPick
    <3>2. commit[c] \in Commit /\ OneFile(commit[c])
      BY <1>1, <3>1 DEF LockInv, Locked, CommitsOneFile
    <3>3. head' = [head EXCEPT ![m] = rev]
      BY <2>9 DEF CherryPick, m
    <3>4. rev \in Revision
      BY <2>0, <3>2 DEF Revision
    <3>5. NoLost(rev)
      <4>1. \A f \in DOMAIN commit[c].put : Content(head[m])[f] = commit[c].seen[f]
        BY <3>1, <3>2, PickOfSeen DEF m
      <4> QED BY <2>0, <2>h, <3>2, <4>1, NoLostAppend
    <3>6. tree' = [tree EXCEPT ![m] = Content(rev)]
      <4>1. tree' = [tree EXCEPT ![m] = Patched(tree[m], commit[c].put)]
        BY <2>9 DEF CherryPick, m
      <4>2. Content(rev) = Patched(Content(head[m]), commit[c].put)
        BY <2>0, <3>2, ContentOfAppend
      <4> QED BY <1>1, <2>0, <4>1, <4>2 DEF TreeIsHead
    <3> HIDE DEF rev
    <3>7. TreeIsHead'
      BY <1>1, <2>0, <3>3, <3>4, <3>6, SetTree
    <3>8. EtagNamesContent' /\ CommitsOneFile'
      BY <1>1, <3>1, ReturnKeeps
    <3>9. fallback' = fallback \/ fallback' = [fallback EXCEPT ![c] = <<>>]
      BY <3>1 DEF Again, Return
    <3>10. NoLost(remote')
      BY <2>h, <3>1
    <3>11. Histories'
      BY <1>1, <2>0, <3>3, <3>5, <3>9, <3>10, HistoriesSame
    <3> QED BY <3>7, <3>8, <3>11
  <2>10. CASE CherryPickAbort(c)
    <3>1. at[c] # "idle" /\ Again(c) /\ UNCHANGED <<remote, head, tree>>
      BY <2>10 DEF CherryPickAbort
    <3>2. EtagNamesContent' /\ CommitsOneFile'
      BY <1>1, <3>1, ReturnKeeps
    <3>3. TreeIsHead'
      BY <1>1, <3>1 DEF TreeIsHead
    <3>4. fallback' = fallback \/ fallback' = [fallback EXCEPT ![c] = <<>>]
      BY <3>1 DEF Again, Return
    <3>5. NoLost(remote') /\ head' = [head EXCEPT ![m] = head[m]]
      BY <2>h, <3>1
    <3>6. Histories'
      BY <1>1, <2>0, <2>h, <3>4, <3>5, HistoriesSame
    <3> QED BY <3>2, <3>3, <3>6
  <2> QED BY <1>3, <2>1, <2>2, <2>3, <2>4, <2>5, <2>6, <2>7, <2>8, <2>9, <2>10
          DEF CallerStep, LoopStep
<1> QED BY <1>1, <1>2, <1>3 DEF Next, LostInv

(* As long as the files can be written, the files on disk are those of      *)
(* HEAD, a state that was read is what its etag names, and every history    *)
(* anywhere is one without a lost update.                                   *)
THEOREM LostInvariance ==
    ASSUME DiskFaults = FALSE
    PROVE  Spec => []LostInv
BY LostInit, LostNext, PTL DEF Spec

(* No update is lost, between the callers of one server (CheckEtag under    *)
(* the mutex) or between servers (the cherry-pick), whatever the exchanges  *)
(* with the remote do, as long as the files can be written.                 *)
THEOREM NoLostUpdateAlways ==
    ASSUME DiskFaults = FALSE
    PROVE  Spec => []NoLostUpdate
<1>1. LostInv => NoLostUpdate
  BY DEF LostInv, Histories, NoLost, NoLostUpdate
<1> QED BY <1>1, LostInvariance, PTL

(* As long as the files can be written, a state that was read is the        *)
(* content of the revision its etag names: CheckEtag compares what it means *)
(* to compare.                                                              *)
THEOREM EtagNamesContentAlways ==
    ASSUME DiskFaults = FALSE
    PROVE  Spec => []EtagNamesContent
BY LostInvariance, PTL DEF LostInv
=============================================================================
