-------------------------- MODULE GitStateManager --------------------------
(****************************************************************************)
(* The GDM kept in git: ext/storage/git_state_manager.go over               *)
(* ext/storage/disk_state_manager.go.  Every server has a clone of its own; *)
(* all clones share one remote.                                             *)
(*                                                                          *)
(* A manager's mutex serialises the calls on its clone, so what git does    *)
(* locally is one step; each exchange with the remote is a step of its own, *)
(* between which other servers push.                                        *)
(*                                                                          *)
(* A revision is the sequence of commits that leads to it, which is what a  *)
(* commit hash stands for.  A state is the content of its files.  Two edits *)
(* of one file conflict; edits of separate files merge.                     *)
(****************************************************************************)
EXTENDS Integers, Sequences, SequencesExt, FiniteSetsExt, TLC

CONSTANTS
    Managers,      \* GitStateManagers, each with its clone
    Callers,       \* goroutines that read and write states
    Home,          \* the manager each caller uses
    Files,         \* manifest files
    Values,        \* contents of a file
    Attempts,      \* gitRectifyAttempts
    MaxWrites,     \* bound: number of commits made
    Flaky,         \* whether exchanges with the remote may fail or lose the reply
    DiskFaults     \* whether writing the files may fail

ASSUME HomeAssumption == Home \in [Callers -> Managers]
ASSUME AttemptsAssumption == Attempts \in Nat \ {0}
ASSUME MaxWritesAssumption == MaxWrites \in Nat
ASSUME FaultsAssumption == Flaky \in BOOLEAN /\ DiskFaults \in BOOLEAN

VARIABLES
    remote,        \* master at the remote
    head,          \* HEAD of each clone
    upstream,      \* master@{upstream} of each clone: the remote as last seen
    tree,          \* the files on disk in each clone
    lock,          \* the caller that holds each manager's mutex, or NoCaller
    at,            \* where each caller is
    held,          \* the state a caller has read: its etag and its content
    commit,        \* the commit of the caller's write (tag sous-new)
    fallback,      \* HEAD before the caller's write (tag sous-fallback)
    attempts,      \* remaining attempts of the caller's write
    made,          \* number of commits made, which names them
    acked,         \* commits whose WriteState returned nil
    conflicted,    \* commits whose cherry-pick met a conflict
    absorbed       \* commits whose cherry-pick found nothing left to change

clones == <<head, upstream, tree, lock>>
calls == <<at, held, commit, fallback, attempts>>
history == <<acked, conflicted, absorbed>>
vars == <<remote, clones, calls, made, history>>

NoCaller == "none"
NoState == [etag |-> <<"none">>]
NoCommit == [id |-> 0]
Initial == CHOOSE v \in Values : TRUE

ASSUME CallersAssumption == NoCaller \notin Callers
ASSUME ValuesAssumption == Values # {}

(* The content of the files at a revision.                                  *)
Content(rev) ==
    [f \in Files |->
        LET K == {k \in DOMAIN rev : f \in DOMAIN rev[k].put} IN
        IF K = {} THEN Initial ELSE rev[Max(K)].put[f]]

(* git diff: the files in which two contents differ.                        *)
Diff(a, b) == {f \in Files : a[f] # b[f]}

Restricted(c, F) == [f \in F |-> c[f]]

(* A content with some of its files replaced.                               *)
Patched(c, put) == [f \in Files |-> IF f \in DOMAIN put THEN put[f] ELSE c[f]]

Contents == [Files -> Values]
Patches == UNION {[F -> Values] : F \in SUBSET Files}

(* What a commit changes (put), from what (old, which decides conflicts),   *)
(* and what the caller had read of those files (seen, for the properties).  *)
IsCommit(c) ==
    /\ DOMAIN c = {"id", "put", "old", "seen"}
    /\ c.id \in 1..made
    /\ {c.put, c.old, c.seen} \subseteq Patches
IsRevision(r) == \A k \in DOMAIN r : IsCommit(r[k])

TypeOK ==
    /\ IsRevision(remote)
    /\ \A m \in Managers : /\ IsRevision(head[m])
                           /\ IsRevision(upstream[m])
                           /\ tree[m] \in Contents
                           /\ lock[m] \in Callers \cup {NoCaller}
    /\ \A c \in Callers :
          /\ at[c] \in {"idle", "push", "pull", "pick"}
          /\ held[c] = NoState \/ held[c].content \in Contents
          /\ commit[c] = NoCommit \/ IsCommit(commit[c])
          /\ IsRevision(fallback[c])
          /\ attempts[c] \in 0..Attempts
          /\ at[c] # "idle" <=> lock[Home[c]] = c
    /\ made \in 0..MaxWrites

Init ==
    /\ remote = <<>>
    /\ head = [m \in Managers |-> <<>>]
    /\ upstream = [m \in Managers |-> <<>>]
    /\ tree = [m \in Managers |-> Content(<<>>)]
    /\ lock = [m \in Managers |-> NoCaller]
    /\ at = [c \in Callers |-> "idle"]
    /\ held = [c \in Callers |-> NoState]
    /\ commit = [c \in Callers |-> NoCommit]
    /\ fallback = [c \in Callers |-> <<>>]
    /\ attempts = [c \in Callers |-> 0]
    /\ made = 0
    /\ acked = {}
    /\ conflicted = {}
    /\ absorbed = {}

----------------------------------------------------------------------------
(* git pull on clone m.  A fetch that works moves upstream.  The merge is a *)
(* fast-forward; git refuses it when it would overwrite a file that differs *)
(* on disk from HEAD, or when HEAD has commits the remote lacks (divergent  *)
(* branches with no pull strategy configured).                              *)

CanFastForward(m) ==
    /\ IsPrefix(head[m], remote)
    /\ Diff(Content(head[m]), Content(remote))
         \cap Diff(tree[m], Content(head[m])) = {}

PullWorks(m) ==
    /\ CanFastForward(m)
    /\ head' = [head EXCEPT ![m] = remote]
    /\ upstream' = [upstream EXCEPT ![m] = remote]
    /\ tree' = [tree EXCEPT ![m] =
          LET changed == Diff(Content(head[m]), Content(remote)) IN
          [f \in Files |-> IF f \in changed THEN Content(remote)[f] ELSE tree[m][f]]]

PullFails(m) ==
    /\ \/ ~CanFastForward(m) /\ upstream' = [upstream EXCEPT ![m] = remote]
       \/ Flaky /\ UNCHANGED upstream
    /\ UNCHANGED <<head, tree>>

(* git reset --hard to a revision, git clean -f.                            *)
Reset(m, rev) ==
    /\ head' = [head EXCEPT ![m] = rev]
    /\ tree' = [tree EXCEPT ![m] = Content(rev)]

----------------------------------------------------------------------------
(* ReadState: pull, read the files on disk, take HEAD as the etag.  That    *)
(* the pull failed is not looked at.                                        *)
ReadState(c) ==
    LET m == Home[c] IN
    /\ at[c] = "idle"
    /\ lock[m] = NoCaller
    /\ PullWorks(m) \/ PullFails(m)
    /\ held' = [held EXCEPT ![c] = [etag |-> head'[m], content |-> tree'[m]]]
    /\ UNCHANGED <<remote, lock, at, commit, fallback, attempts, made, history>>

(* WriteState returns: the mutex is released, the tags are deleted, and the *)
(* caller's state is used up.                                               *)
Return(c) ==
    /\ at' = [at EXCEPT ![c] = "idle"]
    /\ held' = [held EXCEPT ![c] = NoState]
    /\ lock' = [lock EXCEPT ![Home[c]] = NoCaller]
    /\ commit' = [commit EXCEPT ![c] = NoCommit]
    /\ fallback' = [fallback EXCEPT ![c] = <<>>]
    /\ attempts' = [attempts EXCEPT ![c] = 0]

(* CheckEtag against HEAD.                                                  *)
EtagMatchesMutant(c) == TRUE         \* mutant: no CheckEtag
EtagMatches(c) == held[c].etag = head[Home[c]]

(* WriteState with a stale state returns an error before it does anything.  *)
WriteStale(c) ==
    /\ at[c] = "idle"
    /\ held[c] # NoState
    /\ lock[Home[c]] = NoCaller
    /\ ~EtagMatches(c)
    /\ held' = [held EXCEPT ![c] = NoState]
    /\ UNCHANGED <<remote, clones, at, commit, fallback, attempts, made, history>>

(* WriteState up to the commit, of the state the caller read with one file  *)
(* changed: the files are written, and nothing more happens when they equal *)
(* HEAD.  Otherwise they are committed and the loop begins.                 *)
Edited(c, f, v) == [held[c].content EXCEPT ![f] = v]

(* The caller has a state to write, the mutex is free, the etag matches.    *)
MayWrite(c) ==
    /\ at[c] = "idle"
    /\ held[c] # NoState
    /\ lock[Home[c]] = NoCaller
    /\ EtagMatches(c)

NewCommit(c, files) ==
    LET now == Content(head[Home[c]])
        changed == Diff(files, now)
    IN  [id |-> made + 1,
         put |-> Restricted(files, changed),
         old |-> Restricted(now, changed),
         seen |-> Restricted(held[c].content, changed)]

WriteUnchanged(c) ==
    /\ MayWrite(c)
    /\ \E f \in Files, v \in Values : Edited(c, f, v) = Content(head[Home[c]])
    /\ tree' = [tree EXCEPT ![Home[c]] = Content(head[Home[c]])]
    /\ held' = [held EXCEPT ![c] = NoState]
    /\ UNCHANGED <<remote, head, upstream, lock, at, commit, fallback, attempts,
                   made, history>>

WriteCommit(c) ==
    LET m == Home[c] IN
    /\ MayWrite(c)
    /\ made < MaxWrites
    /\ \E f \in Files, v \in Values :
          LET files == Edited(c, f, v) IN
          /\ files # Content(head[m])
          /\ tree' = [tree EXCEPT ![m] = files]
          /\ commit' = [commit EXCEPT ![c] = NewCommit(c, files)]
    /\ made' = made + 1
    /\ head' = [head EXCEPT ![m] = Append(@, commit'[c])]
    /\ lock' = [lock EXCEPT ![m] = c]
    /\ at' = [at EXCEPT ![c] = "push"]
    /\ fallback' = [fallback EXCEPT ![c] = head[m]]
    /\ attempts' = [attempts EXCEPT ![c] = Attempts]
    /\ UNCHANGED <<remote, upstream, held, history>>

(* Writing the files fails, before or after the changed one: WriteState     *)
(* returns the error as it is.                                              *)
WriteDiskFails(c) ==
    LET m == Home[c] IN
    /\ DiskFaults
    /\ MayWrite(c)
    /\ \E f \in Files, v \in Values :
          tree' = [tree EXCEPT ![m] = Edited(c, f, v)]
    /\ held' = [held EXCEPT ![c] = NoState]
    /\ UNCHANGED <<remote, head, upstream, lock, at, commit, fallback, attempts,
                   made, history>>

(* git add or git commit fails: the clone is reset and the error returned.  *)
WriteGitFails(c) ==
    /\ DiskFaults
    /\ MayWrite(c)
    /\ Reset(Home[c], head[Home[c]])
    /\ held' = [held EXCEPT ![c] = NoState]
    /\ UNCHANGED <<remote, upstream, lock, at, commit, fallback, attempts, made,
                   history>>

(* Tagging the new commit fails: the error is returned, the commit stays.   *)
WriteTagFails(c) ==
    LET m == Home[c] IN
    /\ DiskFaults
    /\ MayWrite(c)
    /\ made < MaxWrites
    /\ \E f \in Files, v \in Values :
          LET files == Edited(c, f, v) IN
          /\ files # Content(head[m])
          /\ tree' = [tree EXCEPT ![m] = files]
          /\ head' = [head EXCEPT ![m] = Append(@, NewCommit(c, files))]
    /\ made' = made + 1
    /\ held' = [held EXCEPT ![c] = NoState]
    /\ UNCHANGED <<remote, upstream, lock, at, commit, fallback, attempts, history>>

----------------------------------------------------------------------------
(* The loop of WriteState.                                                  *)

(* assertOneChange: at most one file differs from upstream.                 *)
OneChange(m) == Cardinality(Diff(Content(head[m]), Content(upstream[m]))) <= 1

TooManyChanges(c) ==
    /\ at[c] = "push"
    /\ ~OneChange(Home[c])
    /\ Reset(Home[c], fallback[c])
    /\ Return(c)
    /\ UNCHANGED <<remote, upstream, made, history>>

(* The remote takes a push only as a fast-forward; one that brings nothing  *)
(* new succeeds as well.                                                    *)
Accepts(m) == IsPrefix(remote, head[m])

PushWorksMutant(c) ==                \* mutant: a rejection passes for success
    LET m == Home[c] IN
    /\ at[c] = "push"
    /\ OneChange(m)
    /\ remote' = IF Accepts(m) THEN head[m] ELSE remote
    /\ upstream' = [upstream EXCEPT ![m] = remote']
    /\ Return(c)
    /\ acked' = acked \cup {commit[c].id}
    /\ UNCHANGED <<head, tree, made, conflicted, absorbed>>
PushWorks(c) ==
    LET m == Home[c] IN
    /\ at[c] = "push"
    /\ OneChange(m)
    /\ Accepts(m)
    /\ remote' = head[m]
    /\ upstream' = [upstream EXCEPT ![m] = head[m]]
    /\ Return(c)
    /\ acked' = acked \cup {commit[c].id}
    /\ UNCHANGED <<head, tree, made, conflicted, absorbed>>

(* The push is rejected, does not reach the remote, or loses its answer.    *)
PushFailsMutant(c) ==                \* mutant: tries again without a pull
    /\ at[c] = "push"
    /\ OneChange(Home[c])
    /\ ~Accepts(Home[c])
    /\ Reset(Home[c], fallback[c])
    /\ UNCHANGED <<remote, upstream, lock, calls, made, history>>
PushFails(c) ==
    LET m == Home[c] IN
    /\ at[c] = "push"
    /\ OneChange(m)
    /\ \/ ~Accepts(m) /\ UNCHANGED remote
       \/ Flaky /\ UNCHANGED remote
       \/ Flaky /\ Accepts(m) /\ remote' = head[m]
    /\ Reset(m, fallback[c])
    /\ at' = [at EXCEPT ![c] = "pull"]
    /\ UNCHANGED <<upstream, lock, held, commit, fallback, attempts, made, history>>

(* The pull after the reset; if it fails WriteState gives up.               *)
PullAfterReset(c) ==
    LET m == Home[c] IN
    /\ at[c] = "pull"
    /\ \/ /\ PullWorks(m)
          /\ at' = [at EXCEPT ![c] = "pick"]
          /\ UNCHANGED <<lock, held, commit, fallback, attempts>>
       \/ PullFails(m) /\ Return(c)
    /\ UNCHANGED <<remote, made, history>>

(* git cherry-pick of the commit on HEAD: the files that are not already as *)
(* the commit makes them must be as it found them.  A cherry-pick that has  *)
(* nothing to do fails like one that conflicts.                             *)
ToPick(c) ==
    {f \in DOMAIN commit[c].put : Content(head[Home[c]])[f] # commit[c].put[f]}
PicksCleanly(c) ==
    /\ ToPick(c) # {}
    /\ \A f \in ToPick(c) : Content(head[Home[c]])[f] = commit[c].old[f]

(* The next round of the loop, or its end.                                  *)
Again(c) ==
    \/ /\ attempts[c] > 1
       /\ attempts' = [attempts EXCEPT ![c] = @ - 1]
       /\ at' = [at EXCEPT ![c] = "push"]
       /\ UNCHANGED <<lock, held, commit, fallback>>
    \/ /\ attempts[c] = 1
       /\ Return(c)

CherryPick(c) ==
    LET m == Home[c] IN
    /\ at[c] = "pick"
    /\ PicksCleanly(c)
    /\ head' = [head EXCEPT ![m] = Append(@, commit[c])]
    /\ tree' = [tree EXCEPT ![m] = Patched(@, commit[c].put)]
    /\ Again(c)
    /\ UNCHANGED <<remote, upstream, made, history>>

(* The cherry-pick fails, is aborted, and the loop goes on.                 *)
CherryPickAbort(c) ==
    /\ at[c] = "pick"
    /\ ~PicksCleanly(c)
    /\ IF ToPick(c) = {}
       THEN absorbed' = absorbed \cup {commit[c].id} /\ UNCHANGED conflicted
       ELSE conflicted' = conflicted \cup {commit[c].id} /\ UNCHANGED absorbed
    /\ Again(c)
    /\ UNCHANGED <<remote, head, upstream, tree, made, acked>>

----------------------------------------------------------------------------
LoopStep(c) ==
    \/ TooManyChanges(c)
    \/ PushWorks(c)
    \/ PushFails(c)
    \/ PullAfterReset(c)
    \/ CherryPick(c)
    \/ CherryPickAbort(c)

CallerStep(c) ==
    \/ ReadState(c)
    \/ WriteStale(c)
    \/ WriteUnchanged(c)
    \/ WriteCommit(c)
    \/ WriteDiskFails(c)
    \/ WriteGitFails(c)
    \/ WriteTagFails(c)
    \/ LoopStep(c)

Next == \E c \in Callers : CallerStep(c)

Spec == Init /\ [][Next]_vars

(* git commands end, so a WriteState under way goes on.                     *)
Fairness == \A c \in Callers : WF_vars(LoopStep(c))

FairSpec == Spec /\ Fairness

----------------------------------------------------------------------------
(* Properties.                                                              *)

Ids(rev) == {rev[k].id : k \in DOMAIN rev}

(* No lost update: what a commit at the remote replaces is what its caller  *)
(* had read.  The etag guards this inside a server, the cherry-pick between *)
(* servers.                                                                 *)
NoLostUpdate ==
    \A k \in DOMAIN remote :
        \A f \in DOMAIN remote[k].put :
            Content(SubSeq(remote, 1, k - 1))[f] = remote[k].seen[f]

(* The write took effect: its commit is in the remote's history, or another *)
(* writer had made the same change.                                         *)
InEffect(id) == id \in Ids(remote) \cup absorbed

(* A write that WriteState acknowledged took effect, unless its cherry-pick *)
(* met a conflict on the way.                                               *)
AckedUnlessConflict == \A id \in acked : InEffect(id) \/ id \in conflicted

(* A caller inside WriteState gets out of it.                               *)
WriteReturns == \A c \in Callers : at[c] # "idle" ~> at[c] = "idle"

----------------------------------------------------------------------------
(* Said of the code by its comments or its use, and not so: see the README. *)

(* A state that was read is the content of the revision its etag names, so  *)
(* matching etags do mean an up-to-date state.  A failed disk write breaks  *)
(* it.                                                                      *)
EtagNamesContent ==
    \A c \in Callers :
        held[c] # NoState => held[c].content = Content(held[c].etag)

(* A write that WriteState acknowledged took effect.                        *)
AckedIsDurable == \A id \in acked : InEffect(id)
=============================================================================
