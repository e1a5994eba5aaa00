------------------------------ MODULE R11nQueue ------------------------------
(****************************************************************************)
(* The queue of rectifications of one deployment: lib/r11n_queue.go.        *)
(*                                                                          *)
(* A buffered channel carries the waiting items to one worker goroutine.    *)
(* A mutex protects the indexes (refs, allRefs, fifoRefs) and the positions *)
(* of the items.  The worker receives from the channel WITHOUT the mutex    *)
(* and only then takes it to update the positions, so a push can fall       *)
(* between the two.  A push holds the mutex while it reads the channel's    *)
(* length, files the item and sends it: those are separate steps here,      *)
(* because the worker's receive can fall between them.  A section of the    *)
(* worker, of Wait or of ByID under the mutex touches no channel and is one *)
(* step, enabled when the mutex is free.                                    *)
(*                                                                          *)
(* Items are named by the order in which they are filed: the n-th item is   *)
(* n, standing for its random and therefore fresh R11nID.                   *)
(****************************************************************************)
EXTENDS Integers, Sequences, FiniteSets

CONSTANTS
    Clients,     \* goroutines that call the queue's methods
    Cap,         \* capacity of the channel (R11nQueueCap)
    MaxRefs,     \* MaxRefsPerR11nQueue, the length of the ring of IDs
    MaxPushes    \* bound: number of items ever filed

ASSUME CapAssumption == Cap \in Nat \ {0}
ASSUME MaxRefsAssumption == MaxRefs \in Nat /\ MaxRefs > Cap
ASSUME MaxPushesAssumption == MaxPushes \in Nat
ASSUME ClientsAssumption == "none" \notin Clients

VARIABLES
    lock,        \* the client inside Push or PushIfEmpty, or NoClient
    queue,       \* the channel's buffer
    refs,        \* items filed and not yet finished
    allRefs,     \* items that ByID and Wait can find
    ring,        \* fifoRefs: the slots, each an item or NoItem
    slot,        \* the slot fifoRefs points to
    pos,         \* QueuedR11n.Pos of every item
    filed,       \* number of items ever filed; the newest item
    resolved,    \* items whose Rectification.Resolution the handler has set
    done,        \* items whose done channel is closed
    call,        \* what each client is doing
    item,        \* the item of the client's call, or NoItem
    worker,      \* where the worker goroutine is
    cur          \* the item it holds, or NoItem

pushVars == <<lock, call, item>>
indexVars == <<refs, allRefs, ring, slot, pos, filed>>
workVars == <<worker, cur, resolved, done>>
vars == <<lock, queue, refs, allRefs, ring, slot, pos, filed, resolved, done,
          call, item, worker, cur>>

NoItem == 0
NoClient == "none"
Items == 1..MaxPushes
Slots == 0..(MaxRefs - 1)

(* Where a client can be.  "push" and "pushIfEmpty" hold the mutex with the *)
(* decision to file taken; "send" holds it with the item filed.             *)
CallStates == {"idle", "push", "pushIfEmpty", "send", "wait"}
WorkerStates == {"receive", "popped", "handle", "handled"}

TypeOK ==
    /\ lock \in Clients \cup {NoClient}
    /\ queue \in Seq(Items)
    /\ refs \in SUBSET Items
    /\ allRefs \in SUBSET Items
    /\ ring \in [Slots -> Items \cup {NoItem}]
    /\ slot \in Slots
    /\ pos \in [Items -> Int]
    /\ filed \in 0..MaxPushes
    /\ resolved \in SUBSET Items
    /\ done \in SUBSET Items
    /\ call \in [Clients -> CallStates]
    /\ item \in [Clients -> Items \cup {NoItem}]
    /\ worker \in WorkerStates
    /\ cur \in Items \cup {NoItem}

(* NewR11nQueue with R11nQueueStartWithHandler: init, then Start.           *)
Init ==
    /\ lock = NoClient
    /\ queue = <<>>
    /\ refs = {}
    /\ allRefs = {}
    /\ ring = [s \in Slots |-> NoItem]
    /\ slot = 0
    /\ pos = [i \in Items |-> 0]
    /\ filed = 0
    /\ resolved = {}
    /\ done = {}
    /\ call = [c \in Clients |-> "idle"]
    /\ item = [c \in Clients |-> NoItem]
    /\ worker = "receive"
    /\ cur = NoItem

----------------------------------------------------------------------------
(* Pushing.                                                                 *)

FullMutant == Len(queue) = Cap + 1   \* mutant: off by one
Full == Len(queue) = Cap

(* Push takes the mutex.  Full: it returns nil, false and nothing changes,  *)
(* which is a stuttering step; otherwise it goes on to internalPush.        *)
Push(c) ==
    /\ call[c] = "idle"
    /\ lock = NoClient
    /\ filed < MaxPushes
    /\ ~Full
    /\ lock' = c
    /\ call' = [call EXCEPT ![c] = "push"]
    /\ UNCHANGED <<queue, indexVars, workVars, item>>

(* Whether PushIfEmpty finds the queue empty: it looks at refs, which keep  *)
(* an item until it has been handled.                                       *)
NothingInRefsMutant == queue = <<>>  \* mutant: only what waits counts
NothingInRefs == refs = {}

PushIfEmpty(c) ==
    /\ call[c] = "idle"
    /\ lock = NoClient
    /\ filed < MaxPushes
    /\ NothingInRefs
    /\ lock' = c
    /\ call' = [call EXCEPT ![c] = "pushIfEmpty"]
    /\ UNCHANGED <<queue, indexVars, workVars, item>>

(* fifoRefs.Next(): the ring has MaxRefs slots.                             *)
NextSlot(s) == IF s = MaxRefs - 1 THEN 0 ELSE s + 1

(* allRefs after filing id: the item the new slot held is dropped.          *)
RememberMutant(id) ==                \* mutant: evicts before moving on
    (allRefs \cup {id}) \ {ring[slot]}
Remember(id) == (allRefs \cup {id}) \ {ring[NextSlot(slot)]}

(* internalPush up to the send: the item gets its position from the length  *)
(* of the channel at this moment and is entered in all the indexes.         *)
InternalPush(c) ==
    LET id == filed + 1 IN
    /\ call[c] \in {"push", "pushIfEmpty"}
    /\ filed' = id
    /\ pos' = [pos EXCEPT ![id] = Len(queue)]
    /\ refs' = refs \cup {id}
    /\ allRefs' = Remember(id)
    /\ slot' = NextSlot(slot)
    /\ ring' = [ring EXCEPT ![NextSlot(slot)] = id]
    /\ call' = [call EXCEPT ![c] = "send"]
    /\ item' = [item EXCEPT ![c] = id]
    /\ UNCHANGED <<lock, queue, workVars>>

(* The send of internalPush, which would block on a full channel with the   *)
(* mutex held, and the return that releases the mutex.                      *)
SendMutant(c) ==                     \* mutant: returns without unlocking
    /\ call[c] = "send"
    /\ Len(queue) < Cap
    /\ queue' = Append(queue, item[c])
    /\ call' = [call EXCEPT ![c] = "idle"]
    /\ item' = [item EXCEPT ![c] = NoItem]
    /\ UNCHANGED <<lock, indexVars, workVars>>
Send(c) ==
    /\ call[c] = "send"
    /\ Len(queue) < Cap
    /\ queue' = Append(queue, item[c])
    /\ lock' = NoClient
    /\ call' = [call EXCEPT ![c] = "idle"]
    /\ item' = [item EXCEPT ![c] = NoItem]
    /\ UNCHANGED <<indexVars, workVars>>

----------------------------------------------------------------------------
(* Waiting.                                                                 *)

(* Wait looks the item up under the mutex.  An item it does not find makes  *)
(* it return false at once: a stuttering step.                              *)
Wait(c) ==
    /\ call[c] = "idle"
    /\ lock = NoClient
    /\ \E id \in allRefs : item' = [item EXCEPT ![c] = id]
    /\ call' = [call EXCEPT ![c] = "wait"]
    /\ UNCHANGED <<lock, queue, indexVars, workVars>>

(* Wait is released by the closing of done and returns the resolution.      *)
WaitReturn(c) ==
    /\ call[c] = "wait"
    /\ item[c] \in done
    /\ call' = [call EXCEPT ![c] = "idle"]
    /\ item' = [item EXCEPT ![c] = NoItem]
    /\ UNCHANGED <<lock, queue, indexVars, workVars>>

----------------------------------------------------------------------------
(* The worker: the goroutine of Start.                                      *)

(* next(): the receive, without the mutex.                                  *)
ReceiveMutant ==                     \* mutant: the newest item first
    /\ worker = "receive"
    /\ queue # <<>>
    /\ cur' = queue[Len(queue)]
    /\ queue' = SubSeq(queue, 1, Len(queue) - 1)
    /\ worker' = "popped"
    /\ UNCHANGED <<pushVars, indexVars, resolved, done>>
Receive ==
    /\ worker = "receive"
    /\ queue # <<>>
    /\ cur' = Head(queue)
    /\ queue' = Tail(queue)
    /\ worker' = "popped"
    /\ UNCHANGED <<pushVars, indexVars, resolved, done>>

(* The positions after handlePopped: every item in allRefs moves down one,  *)
(* the popped one and the finished ones included.                           *)
MovedDownMutant ==                   \* mutant: once for each index it is in
    [i \in Items |-> pos[i] - (IF i \in allRefs THEN 1 ELSE 0)
                            - (IF i \in refs THEN 1 ELSE 0)]
MovedDown == [i \in Items |-> IF i \in allRefs THEN pos[i] - 1 ELSE pos[i]]

(* next(): handlePopped under the mutex.                                    *)
HandlePopped ==
    /\ worker = "popped"
    /\ lock = NoClient
    /\ pos' = MovedDown
    /\ worker' = "handle"
    /\ UNCHANGED <<pushVars, queue, refs, allRefs, ring, slot, filed, cur,
                   resolved, done>>

(* The handler runs and its result becomes the item's Resolution.           *)
Handle ==
    /\ worker = "handle"
    /\ resolved' = resolved \cup {cur}
    /\ worker' = "handled"
    /\ UNCHANGED <<pushVars, queue, indexVars, cur, done>>

(* The mutex again: done is closed and the item leaves refs.                *)
FinishSilentMutant ==                \* mutant: done is never closed
    /\ worker = "handled"
    /\ lock = NoClient
    /\ refs' = refs \ {cur}
    /\ cur' = NoItem
    /\ worker' = "receive"
    /\ UNCHANGED <<pushVars, queue, allRefs, ring, slot, pos, filed, resolved,
                   done>>
Finish ==
    /\ worker = "handled"
    /\ lock = NoClient
    /\ done' = done \cup {cur}
    /\ refs' = refs \ {cur}
    /\ cur' = NoItem
    /\ worker' = "receive"
    /\ UNCHANGED <<pushVars, queue, allRefs, ring, slot, pos, filed, resolved>>

----------------------------------------------------------------------------
ClientStep(c) ==
    \/ Push(c)
    \/ PushIfEmpty(c)
    \/ InternalPush(c)
    \/ Send(c)
    \/ Wait(c)
    \/ WaitReturn(c)

WorkerStep ==
    \/ Receive
    \/ HandlePopped
    \/ Handle
    \/ Finish

Next == WorkerStep \/ \E c \in Clients : ClientStep(c)

Spec == Init /\ [][Next]_vars

(* A goroutine that can run does: the steps of a push under way and of a    *)
(* released Wait, the receive, and the handler, which ends because          *)
(* awaitDone gives up after 20 minutes.  Taking the mutex is strongly fair: *)
(* Go's mutex hands itself to a goroutine that has waited for 1ms.  No call *)
(* is ever assumed to be made.                                              *)
Fairness ==
    /\ WF_vars(Receive)
    /\ WF_vars(Handle)
    /\ SF_vars(HandlePopped)
    /\ SF_vars(Finish)
    /\ \A c \in Clients : /\ WF_vars(InternalPush(c))
                          /\ WF_vars(Send(c))
                          /\ WF_vars(WaitReturn(c))

FairSpec == Spec /\ Fairness

----------------------------------------------------------------------------
(* Properties.                                                              *)

(* The item a client has filed and not yet sent, as a set.                  *)
Sending == {item[c] : c \in {d \in Clients : call[d] = "send"}}

Queued == {queue[k] : k \in 1..Len(queue)}

(* A push never blocks on the channel while it holds the mutex: had it      *)
(* blocked, Finish, Wait and every other push would wait behind it.         *)
SendNeverBlocks == \A c \in Clients : call[c] = "send" => Len(queue) < Cap

(* refs holds exactly the items being sent, queued or worked on: the index  *)
(* that PushIfEmpty and Snapshot trust neither forgets nor invents work.    *)
RefsAreLive == refs = Sending \cup Queued \cup ({cur} \ {NoItem})

(* ByID and Wait find every unfinished item, whatever the ring has dropped: *)
(* the eviction at internalPush never reaches one that is still to finish.  *)
LiveIsFindable == refs \subseteq allRefs

(* PushIfEmpty files its item only when nothing is queued or worked on.     *)
PushIfEmptyAlone ==
    \A c \in Clients : call[c] = "pushIfEmpty" => queue = <<>> /\ cur = NoItem

(* Items are handled in the order they were filed, none skipped: when one   *)
(* is resolved so are all those filed before it.                            *)
HandledInOrder == \A i \in resolved, j \in Items : j < i => j \in resolved

(* No done channel is closed before the handler has set the resolution, so  *)
(* Wait never returns an unset one.                                         *)
DoneIsResolved == done \subseteq resolved

(* A queued item's Pos is its index in the channel or one off: one too high *)
(* between the receive and handlePopped, one too low for an item that was   *)
(* filed in between.  The error never accumulates.                          *)
PosWithinOne ==
    \A k \in 1..Len(queue) : pos[queue[k]] \in (k - 2)..k

(* An item with done closed has a negative Pos: the sign of Pos is how      *)
(* GETR11nHandler decides whether there is a Resolution to report.          *)
DoneIsNegative == \A i \in done : pos[i] < 0

(* Nothing starves: every item that is filed is finished, and every Wait    *)
(* that found its item returns, even when the ring has dropped the item in  *)
(* the meantime.                                                            *)
NothingStarves ==
    /\ \A i \in Items : i \in refs ~> i \in done
    /\ \A c \in Clients : call[c] = "wait" ~> call[c] = "idle"

----------------------------------------------------------------------------
(* Said of the code by its comments or its use, and not so: see the README. *)

(* A Snapshot is in queue order: sorting by Pos puts the queued items in    *)
(* the order of the channel (sort.Slice is not stable and refs is a map, so *)
(* a tie is a wrong order).                                                 *)
SnapshotOrdered ==
    \A j, k \in 1..Len(queue) : j < k => pos[queue[j]] < pos[queue[k]]

----------------------------------------------------------------------------
(* The queue as its users see it: an item is queued when it is filed, which *)
(* is before it is sent.                                                    *)

Unsent == IF \E c \in Clients : call[c] = "send" THEN <<filed>> ELSE <<>>

Abstract == INSTANCE DeployQueue
    WITH Jobs <- Items, NoJob <- NoItem, Bound <- Cap,
         waiting <- queue \o Unsent, working <- cur

(* The channel, the mutex and the ring implement a bounded first-in         *)
(* first-out queue with one worker.                                         *)
ImplementsQueue == Abstract!QueueSafe

----------------------------------------------------------------------------
(* The inductive invariant behind the safety properties: because items are  *)
(* numbered as they are filed, every piece of state is an interval that a   *)
(* few counters determine.                                                  *)

PushCalls == {"push", "pushIfEmpty", "send"}

(* The newest item that has been sent, and the newest one received.         *)
Sent == IF \E c \in Clients : call[c] = "send" THEN filed - 1 ELSE filed
Taken == Sent - Len(queue)

(* The mutex is held by the client inside a push, which has room to send.   *)
LockInv ==
    /\ \A c \in Clients : call[c] \in PushCalls <=> lock = c
    /\ \A c \in Clients : call[c] \in {"push", "pushIfEmpty"} => filed < MaxPushes
    /\ \A c \in Clients : call[c] \in {"push", "send"} => Len(queue) < Cap
    /\ \A c \in Clients : call[c] = "pushIfEmpty" => refs = {}
    /\ \A c \in Clients : call[c] = "send" => item[c] = filed /\ filed > 0

(* The channel holds the items after Taken up to Sent, in order.            *)
ChannelInv ==
    /\ Len(queue) <= Cap
    /\ Taken \in Nat
    /\ \A k \in 1..Len(queue) : queue[k] = Taken + k

(* The worker has finished all it took but the one it holds.                *)
WorkerInv ==
    /\ cur = IF worker = "receive" THEN NoItem ELSE Taken
    /\ worker # "receive" => Taken > 0
    /\ resolved = 1..(IF worker \in {"popped", "handle"} THEN Taken - 1 ELSE Taken)
    /\ done = 1..(IF worker = "receive" THEN Taken ELSE Taken - 1)
    /\ refs = (IF worker = "receive" THEN Taken + 1 ELSE Taken)..filed

(* The ring holds the last MaxRefs items, newest at slot, and allRefs holds *)
(* the same.                                                                *)
Age(s) == IF s <= slot THEN slot - s ELSE slot - s + MaxRefs
RingInv ==
    /\ \A s \in Slots :
          ring[s] = IF filed - Age(s) > 0 THEN filed - Age(s) ELSE NoItem
    /\ allRefs = {i \in 1..filed : i > filed - MaxRefs}

(* Of the items beyond Taken, the n-th has Pos n - 1 or one less; one more  *)
(* while the worker has received and not yet moved the positions down.      *)
PosInv ==
    /\ \A i \in (Taken + 1)..filed :
          LET n == i - Taken IN
          IF worker = "popped" THEN pos[i] \in {n - 1, n} ELSE pos[i] \in {n - 2, n - 1}
    /\ \A i \in 1..Taken :
          IF worker = "popped" /\ i = Taken THEN pos[i] <= 0 ELSE pos[i] < 0

IndInv == TypeOK /\ LockInv /\ ChannelInv /\ WorkerInv /\ RingInv /\ PosInv
=============================================================================
