--------------------------- MODULE R11nQueueProofs ---------------------------
(* The safety of the rectification queue, for every capacity, ring length   *)
(* and set of clients, and of the handlers that report on it.               *)
EXTENDS QueueHandlers, TLAPS

(* The queue of NewR11nQueue satisfies the inductive invariant.             *)
LEMMA InitEstablishes == Init => IndInv
<1> SUFFICES ASSUME Init PROVE IndInv
  OBVIOUS
<1> USE CapAssumption, MaxRefsAssumption, MaxPushesAssumption, ClientsAssumption
<1>1. TypeOK
  BY DEF Init, TypeOK, Items, Slots, NoItem, NoClient, CallStates, WorkerStates
<1>2. Sent = 0 /\ Taken = 0
  BY DEF Init, Sent, Taken
<1>3. LockInv
  BY DEF Init, LockInv, PushCalls, NoClient
<1>4. ChannelInv
  BY <1>2 DEF Init, ChannelInv
<1>5. WorkerInv
  BY <1>2 DEF Init, WorkerInv, NoItem
<1>6. RingInv
  BY DEF Init, RingInv, Age, Slots, NoItem
<1>7. PosInv
  BY <1>2 DEF Init, PosInv
<1> QED
  BY <1>1, <1>3, <1>4, <1>5, <1>6, <1>7 DEF IndInv

(* At most one client is sending, and it holds the mutex.                   *)
LEMMA SentIs ==
    ASSUME IndInv
    PROVE  /\ lock = NoClient => Sent = filed
           /\ \A c \in Clients : call[c] \in {"push", "pushIfEmpty"} => Sent = filed
           /\ \A c \in Clients : call[c] = "send" => Sent = filed - 1
  BY ClientsAssumption DEF IndInv, LockInv, Sent, NoClient, PushCalls

(* Every step of the queue preserves the inductive invariant.               *)
LEMMA NextPreserves == IndInv /\ [Next]_vars => IndInv'
<1> SUFFICES ASSUME IndInv, [Next]_vars PROVE IndInv'
  OBVIOUS
<1> USE CapAssumption, MaxRefsAssumption, MaxPushesAssumption, ClientsAssumption
<1>t. /\ TypeOK /\ LockInv /\ ChannelInv /\ WorkerInv /\ RingInv /\ PosInv
      /\ Taken \in Nat /\ Sent \in Nat /\ Sent = Taken + Len(queue) /\ Sent <= filed
  <2>1. Sent \in Int /\ Sent <= filed
    BY DEF IndInv, TypeOK, Sent
  <2>2. Len(queue) \in Nat
    BY DEF IndInv, TypeOK
  <2> QED
    BY <2>1, <2>2 DEF IndInv, ChannelInv, Taken
<1>1. ASSUME NEW c \in Clients, Push(c) \/ PushIfEmpty(c)
      PROVE  IndInv'
  <2>1. /\ UNCHANGED <<queue, indexVars, workVars, item>> /\ lock = NoClient
        /\ lock' = c /\ call[c] = "idle" /\ filed < MaxPushes
        /\ \/ Len(queue) # Cap /\ call' = [call EXCEPT ![c] = "push"]
           \/ refs = {} /\ call' = [call EXCEPT ![c] = "pushIfEmpty"]
    BY <1>1 DEF Push, PushIfEmpty, Full, NothingInRefs
  <2>2. TypeOK'
    BY <1>t, <2>1 DEF TypeOK, CallStates, indexVars, workVars
  <2>3. LockInv'
    BY <1>t, <2>1 DEF TypeOK, CallStates, LockInv, ChannelInv, PushCalls, indexVars,
       workVars, NoClient
  <2>4. Sent' = Sent /\ Taken' = Taken
    BY <1>t, <2>1 DEF TypeOK, LockInv, Sent, Taken, PushCalls, indexVars, NoClient
  <2>5. ChannelInv' /\ WorkerInv' /\ RingInv' /\ PosInv'
    BY <1>t, <2>1, <2>4 DEF ChannelInv, WorkerInv, RingInv, PosInv, Age, indexVars,
       workVars
  <2> QED
    BY <2>2, <2>3, <2>5 DEF IndInv
<1>2. ASSUME NEW c \in Clients, InternalPush(c)
      PROVE  IndInv'
  <2> DEFINE id == filed + 1
  <2>1. /\ call[c] \in {"push", "pushIfEmpty"} /\ lock = c /\ Sent = filed
        /\ id \in Items /\ Len(queue) < Cap
    <3>1. call[c] \in {"push", "pushIfEmpty"} /\ lock = c /\ Sent = filed
      BY <1>t, <1>2, SentIs DEF InternalPush, LockInv, PushCalls
    <3>2. id \in Items
      BY <1>t, <3>1 DEF TypeOK, LockInv, Items
    <3>3. CASE call[c] = "push"
      BY <1>t, <3>1, <3>2, <3>3 DEF LockInv
    <3>4. CASE call[c] = "pushIfEmpty"
      <4>1. refs = {}
        BY <1>t, <3>4 DEF LockInv
      <4>2. Taken >= filed
        BY <1>t, <4>1 DEF TypeOK, WorkerInv
      <4>3. Len(queue) = 0
        BY <1>t, <3>1, <4>2 DEF TypeOK
      <4> QED
        BY <3>1, <3>2, <4>3
    <3> QED
      BY <3>1, <3>3, <3>4
  <2>2. TypeOK'
    <3>1. NextSlot(slot) \in Slots
      BY <1>t DEF TypeOK, NextSlot, Slots
    <3>2. filed' \in 0..MaxPushes /\ Len(queue) \in Int
      BY <1>t, <1>2, <2>1 DEF TypeOK, InternalPush, Items
    <3>3. pos' \in [Items -> Int] /\ ring' \in [Slots -> Items \cup {NoItem}]
      BY <1>t, <1>2, <2>1, <3>1, <3>2 DEF TypeOK, InternalPush
    <3>4. refs' \in SUBSET Items /\ allRefs' \in SUBSET Items
      BY <1>t, <1>2, <2>1 DEF TypeOK, InternalPush, Remember
    <3>5. call' \in [Clients -> CallStates] /\ item' \in [Clients -> Items \cup {NoItem}]
      BY <1>t, <1>2, <2>1 DEF TypeOK, InternalPush, CallStates
    <3> QED
      BY <1>t, <1>2, <3>1, <3>2, <3>3, <3>4, <3>5 DEF TypeOK, InternalPush, workVars
  <2>3. LockInv'
    BY <1>t, <1>2, <2>1 DEF TypeOK, InternalPush, LockInv, PushCalls, CallStates, workVars
  <2>4. Sent' = Sent /\ Taken' = Taken
    <3>1. call'[c] = "send" /\ filed' = filed + 1 /\ queue' = queue
      BY <1>t, <1>2 DEF TypeOK, InternalPush
    <3> QED
      BY <1>t, <2>1, <3>1 DEF TypeOK, Sent, Taken
  <2>5. ChannelInv'
    BY <1>t, <1>2, <2>4 DEF ChannelInv, InternalPush
  <2>6. WorkerInv'
    BY <1>t, <1>2, <2>1, <2>4 DEF TypeOK, WorkerInv, InternalPush, workVars
  <2>7. RingInv'
    <3> DEFINE n == NextSlot(slot)
    <3>1. /\ filed \in Nat /\ slot \in Slots /\ n \in Slots
          /\ filed' = id /\ slot' = n /\ ring' = [ring EXCEPT ![n] = id]
          /\ allRefs' = (allRefs \cup {id}) \ {ring[n]}
      BY <1>t, <1>2 DEF TypeOK, InternalPush, Remember, NextSlot, Slots
    <3>2. Age(n) = MaxRefs - 1
      BY <3>1 DEF Age, NextSlot, Slots
    <3>3. \A s \in Slots : Age(s)' = IF s = n THEN 0 ELSE Age(s) + 1
      BY <3>1 DEF Age, NextSlot, Slots
    <3>4. \A s \in Slots : Age(s) \in Nat
      BY <3>1 DEF Age, Slots
    <3>5. \A s \in Slots :
            ring'[s] = IF filed' - Age(s)' > 0 THEN filed' - Age(s)' ELSE NoItem
      <4> TAKE s \in Slots
      <4>1. CASE s = n
        BY <1>t, <3>1, <3>3, <4>1 DEF TypeOK
      <4>2. CASE s # n
        <5>1. ring'[s] = ring[s]
          BY <1>t, <3>1, <4>2 DEF TypeOK
        <5>2. filed' - Age(s)' = filed - Age(s)
          BY <3>1, <3>3, <3>4, <4>2
        <5> QED
          BY <1>t, <5>1, <5>2 DEF RingInv
      <4> QED
        BY <4>1, <4>2
    <3>6. ring[n] = IF filed - (MaxRefs - 1) > 0 THEN filed - (MaxRefs - 1) ELSE NoItem
      BY <1>t, <3>1, <3>2 DEF RingInv
    <3>7. allRefs' = {i \in 1..filed' : i > filed' - MaxRefs}
      BY <1>t, <3>1, <3>6 DEF RingInv, NoItem
    <3> QED
      BY <3>5, <3>7 DEF RingInv
  <2>8. PosInv'
    BY <1>t, <1>2, <2>1, <2>4 DEF TypeOK, PosInv, InternalPush, Items, workVars
  <2> QED
    BY <2>2, <2>3, <2>5, <2>6, <2>7, <2>8 DEF IndInv
<1>3. ASSUME NEW c \in Clients, Send(c)
      PROVE  IndInv'
  <2>1. /\ call[c] = "send" /\ lock = c /\ Sent = filed - 1 /\ item[c] = filed
        /\ filed \in Items /\ Len(queue) < Cap /\ queue' = Append(queue, filed)
        /\ lock' = NoClient /\ UNCHANGED <<indexVars, workVars>>
    BY <1>t, <1>3, SentIs DEF Send, LockInv, PushCalls, TypeOK, Items
  <2>2. TypeOK'
    BY <1>t, <1>3, <2>1 DEF TypeOK, Send, CallStates, indexVars, workVars
  <2>3. LockInv'
    BY <1>t, <1>3, <2>1 DEF TypeOK, Send, LockInv, PushCalls, NoClient
  <2>4. Sent' = filed /\ Len(queue') = Len(queue) + 1 /\ Taken' = Taken
    <3>1. Sent' = filed
      BY <1>t, <1>3, <2>1 DEF TypeOK, Send, Sent, LockInv, PushCalls, indexVars
    <3>2. Len(queue') = Len(queue) + 1
      BY <1>t, <2>1 DEF TypeOK
    <3> QED
      BY <1>t, <2>1, <3>1, <3>2 DEF TypeOK, Taken
  <2>5. ChannelInv'
    <3>1. \A k \in 1..Len(queue') : queue'[k] = Taken' + k
      <4> TAKE k \in 1..Len(queue')
      <4>1. CASE k = Len(queue')
        <5>1. queue'[k] = filed
          BY <1>t, <2>1, <2>4, <4>1 DEF TypeOK
        <5> QED
          BY <1>t, <2>1, <2>4, <4>1, <5>1 DEF TypeOK
      <4>2. CASE k # Len(queue')
        <5>1. k \in 1..Len(queue)
          BY <1>t, <2>4, <4>2 DEF TypeOK
        <5>2. queue'[k] = queue[k]
          BY <1>t, <2>1, <5>1 DEF TypeOK
        <5> QED
          BY <1>t, <2>4, <5>1, <5>2 DEF ChannelInv
      <4> QED
        BY <4>1, <4>2
    <3> QED
      BY <1>t, <2>1, <2>4, <3>1 DEF TypeOK, ChannelInv
  <2>6. WorkerInv' /\ RingInv' /\ PosInv'
    BY <1>t, <2>1, <2>4 DEF WorkerInv, RingInv, PosInv, Age, indexVars, workVars
  <2> QED
    BY <2>2, <2>3, <2>5, <2>6 DEF IndInv
<1>4. ASSUME NEW c \in Clients, Wait(c) \/ WaitReturn(c)
      PROVE  IndInv'
  <2>1. /\ UNCHANGED <<lock, queue, indexVars, workVars>>
        /\ call[c] \notin PushCalls
        /\ \E v \in Items \cup {NoItem} : item' = [item EXCEPT ![c] = v]
        /\ \E v \in {"idle", "wait"} : call' = [call EXCEPT ![c] = v]
    BY <1>t, <1>4 DEF Wait, WaitReturn, TypeOK, PushCalls
  <2>2. TypeOK'
    BY <1>t, <2>1 DEF TypeOK, CallStates, indexVars, workVars
  <2>3. LockInv'
    BY <1>t, <2>1 DEF TypeOK, LockInv, PushCalls, indexVars
  <2>4. Sent' = Sent /\ Taken' = Taken
    BY <1>t, <2>1 DEF TypeOK, Sent, Taken, PushCalls, indexVars
  <2>5. ChannelInv' /\ WorkerInv' /\ RingInv' /\ PosInv'
    BY <1>t, <2>1, <2>4 DEF ChannelInv, WorkerInv, RingInv, PosInv, Age, indexVars,
       workVars
  <2> QED
    BY <2>2, <2>3, <2>5 DEF IndInv
<1>5. CASE Receive
  <2>1. /\ worker = "receive" /\ worker' = "popped" /\ cur' = Taken + 1
        /\ queue' = Tail(queue) /\ Len(queue) > 0 /\ Len(queue') = Len(queue) - 1
        /\ UNCHANGED <<pushVars, indexVars, resolved, done>>
    BY <1>t, <1>5 DEF Receive, TypeOK, ChannelInv
  <2>2. Sent' = Sent /\ Taken' = Taken + 1
    <3>1. Sent' = Sent
      BY <2>1 DEF Sent, pushVars, indexVars
    <3>2. Taken' = Sent' - Len(queue')
      BY DEF Taken
    <3>3. Len(queue) \in Nat
      BY <1>t DEF TypeOK
    <3> QED
      BY <1>t, <2>1, <3>1, <3>2, <3>3
  <2>3. TypeOK'
    <3>1. queue' \in Seq(Items)
      BY <1>t, <2>1 DEF TypeOK
    <3>2. Len(queue) \in Nat /\ filed \in 0..MaxPushes
      BY <1>t DEF TypeOK
    <3>3. cur' \in Items
      BY <1>t, <2>1, <3>2 DEF Items
    <3> QED
      BY <1>t, <2>1, <3>1, <3>3 DEF TypeOK, pushVars, indexVars, WorkerStates
  <2>4. LockInv'
    BY <1>t, <2>1 DEF TypeOK, LockInv, pushVars, indexVars
  <2>5. ChannelInv'
    <3>1. \A k \in 1..Len(queue') : queue'[k] = Taken' + k
      <4> TAKE k \in 1..Len(queue')
      <4>1. queue'[k] = queue[k + 1]
        BY <1>t, <2>1 DEF TypeOK
      <4> QED
        BY <1>t, <2>1, <2>2, <4>1 DEF TypeOK, ChannelInv
    <3> QED
      BY <1>t, <2>1, <2>2, <3>1 DEF TypeOK, ChannelInv
  <2>6. WorkerInv'
    BY <1>t, <2>1, <2>2 DEF TypeOK, WorkerInv, indexVars
  <2>7. RingInv'
    BY <1>t, <2>1 DEF RingInv, Age, indexVars
  <2>8. PosInv'
    <3>1. pos' = pos /\ filed' = filed /\ filed \in 0..MaxPushes /\ Len(queue) \in Nat
      BY <1>t, <2>1 DEF TypeOK, indexVars
    <3>2. \A i \in 1..filed : pos[i] \in Int
      BY <1>t, <3>1 DEF TypeOK, Items
    <3>3. \A i \in (Taken + 1)..filed : pos[i] \in {i - Taken - 2, i - Taken - 1}
      BY <1>t, <2>1 DEF PosInv
    <3>4. \A i \in 1..Taken : pos[i] < 0
      BY <1>t, <2>1 DEF PosInv
    <3>5. Taken + 1 \in (Taken + 1)..filed
      BY <1>t, <2>1, <3>1
    <3>6. pos[Taken + 1] <= 0
      BY <1>t, <3>3, <3>5
    <3> QED
      BY <1>t, <2>1, <2>2, <3>1, <3>2, <3>3, <3>4, <3>6 DEF PosInv
  <2> QED
    BY <2>3, <2>4, <2>5, <2>6, <2>7, <2>8 DEF IndInv
<1>6. CASE HandlePopped
  <2>1. /\ worker = "popped" /\ worker' = "handle" /\ pos' = MovedDown
        /\ UNCHANGED <<pushVars, queue, refs, allRefs, ring, slot, filed, cur,
                       resolved, done>>
    BY <1>6 DEF HandlePopped
  <2>2. Sent' = Sent /\ Taken' = Taken
    BY <1>t, <2>1 DEF Sent, Taken, pushVars
  <2>3. TypeOK'
    BY <1>t, <2>1 DEF TypeOK, pushVars, WorkerStates, MovedDown
  <2>4. LockInv' /\ ChannelInv' /\ WorkerInv' /\ RingInv'
    BY <1>t, <2>1, <2>2 DEF LockInv, ChannelInv, WorkerInv, RingInv, Age, pushVars
  <2>5. PosInv'
    <3>1. Taken > 0 /\ Taken >= filed - Cap /\ filed \in Nat /\ filed <= MaxPushes
      BY <1>t, <1>6, <2>1, SentIs DEF TypeOK, WorkerInv, ChannelInv, HandlePopped
    <3>2. \A i \in Taken..filed : i \in allRefs /\ i \in Items /\ pos'[i] = pos[i] - 1
      BY <1>t, <2>1, <3>1 DEF TypeOK, RingInv, MovedDown, Items
    <3>3. \A i \in 1..(Taken - 1) : pos'[i] < 0
      BY <1>t, <2>1, <3>1 DEF TypeOK, PosInv, MovedDown, Items
    <3>4. \A i \in 1..filed : pos[i] \in Int
      BY <1>t, <3>1 DEF TypeOK, Items
    <3>5. \A i \in (Taken + 1)..filed : pos[i] \in {i - Taken - 1, i - Taken}
      BY <1>t, <2>1 DEF PosInv
    <3>6. \A i \in (Taken + 1)..filed : pos'[i] \in {i - Taken - 2, i - Taken - 1}
      BY <1>t, <3>1, <3>2, <3>4, <3>5
    <3>7. Taken \in Taken..filed /\ pos[Taken] <= 0
      BY <1>t, <2>1, <3>1 DEF PosInv
    <3>8. \A i \in 1..Taken : pos'[i] < 0
      BY <1>t, <3>1, <3>2, <3>3, <3>4, <3>7
    <3> QED
      BY <2>1, <2>2, <3>6, <3>8 DEF PosInv
  <2> QED
    BY <2>3, <2>4, <2>5 DEF IndInv
<1>7. CASE Handle
  <2>1. /\ worker = "handle" /\ worker' = "handled" /\ resolved' = resolved \cup {cur}
        /\ UNCHANGED <<pushVars, queue, indexVars, cur, done>>
    BY <1>7 DEF Handle
  <2>2. Sent' = Sent /\ Taken' = Taken
    BY <1>t, <2>1 DEF Sent, Taken, pushVars, indexVars
  <2>3. TypeOK'
    BY <1>t, <2>1 DEF TypeOK, pushVars, indexVars, WorkerStates, WorkerInv, Items, NoItem
  <2>4. WorkerInv'
    BY <1>t, <2>1, <2>2 DEF WorkerInv, indexVars
  <2>5. LockInv' /\ ChannelInv' /\ RingInv' /\ PosInv'
    BY <1>t, <2>1, <2>2 DEF LockInv, ChannelInv, RingInv, PosInv, Age, pushVars, indexVars
  <2> QED
    BY <2>3, <2>4, <2>5 DEF IndInv
<1>8. CASE Finish
  <2>1. /\ worker = "handled" /\ worker' = "receive" /\ done' = done \cup {cur}
        /\ refs' = refs \ {cur} /\ cur' = NoItem /\ lock = NoClient
        /\ UNCHANGED <<pushVars, queue, allRefs, ring, slot, pos, filed, resolved>>
    BY <1>8 DEF Finish
  <2>2. Sent' = Sent /\ Taken' = Taken
    BY <1>t, <2>1 DEF Sent, Taken, pushVars
  <2>3. TypeOK'
    BY <1>t, <2>1 DEF TypeOK, pushVars, WorkerStates, WorkerInv, Items, NoItem
  <2>4. WorkerInv'
    BY <1>t, <2>1, <2>2 DEF TypeOK, WorkerInv
  <2>5. LockInv'
    BY <1>t, <2>1 DEF LockInv, pushVars, NoClient, PushCalls
  <2>6. ChannelInv' /\ RingInv' /\ PosInv'
    BY <1>t, <2>1, <2>2 DEF ChannelInv, RingInv, PosInv, Age, pushVars
  <2> QED
    BY <2>3, <2>4, <2>5, <2>6 DEF IndInv
<1>9. CASE UNCHANGED vars
  BY <1>9 DEF IndInv, TypeOK, LockInv, ChannelInv, WorkerInv, RingInv, PosInv, Age, Sent,
     Taken, vars
<1> QED
  BY <1>1, <1>2, <1>3, <1>4, <1>5, <1>6, <1>7, <1>8, <1>9
     DEF Next, WorkerStep, ClientStep

(* The inductive invariant holds in every reachable state of the queue.     *)
THEOREM Invariance == Spec => []IndInv
  BY InitEstablishes, NextPreserves, PTL DEF Spec

(* Every variable of the queue keeps its type.                              *)
THEOREM TypeCorrect == Spec => []TypeOK
<1>1. IndInv => TypeOK
  BY DEF IndInv
<1> QED
  BY <1>1, Invariance, PTL

(* internalPush never blocks on the channel while it holds the mutex.       *)
THEOREM PushNeverBlocks == Spec => []SendNeverBlocks
<1>1. IndInv => SendNeverBlocks
  BY DEF IndInv, LockInv, SendNeverBlocks
<1> QED
  BY <1>1, Invariance, PTL

(* The bounds of the work in hand: refs is an interval that ends at the     *)
(* newest item and has at most Cap + 1 members.                             *)
LEMMA LiveInterval ==
    ASSUME IndInv
    PROVE  /\ filed \in Nat /\ Taken \in Nat /\ Len(queue) \in Nat
           /\ Taken <= filed /\ filed - Taken <= Cap
           /\ refs = (IF worker = "receive" THEN Taken + 1 ELSE Taken)..filed
<1> USE CapAssumption, MaxPushesAssumption
<1>1. /\ filed \in Nat /\ Taken \in Nat /\ Len(queue) \in Nat
      /\ refs = (IF worker = "receive" THEN Taken + 1 ELSE Taken)..filed
  BY DEF IndInv, TypeOK, ChannelInv, WorkerInv
<1>2. CASE \E c \in Clients : call[c] = "send"
  <2>1. Sent = filed - 1 /\ Len(queue) < Cap
    BY <1>2, SentIs DEF IndInv, LockInv
  <2> QED
    BY <1>1, <2>1 DEF Taken
<1>3. CASE ~\E c \in Clients : call[c] = "send"
  <2>1. Sent = filed /\ Len(queue) <= Cap
    BY <1>3 DEF IndInv, Sent, ChannelInv
  <2> QED
    BY <1>1, <2>1 DEF Taken
<1> QED
  BY <1>1, <1>2, <1>3

(* No unfinished item is dropped by the ring: ByID and Wait find it.        *)
THEOREM LiveFindable == Spec => []LiveIsFindable
<1>1. ASSUME IndInv PROVE LiveIsFindable
  <2>1. worker # "receive" => Taken > 0
    BY <1>1 DEF IndInv, WorkerInv
  <2>2. allRefs = {i \in 1..filed : i > filed - MaxRefs}
    BY <1>1 DEF IndInv, RingInv
  <2> QED
    BY <1>1, <2>1, <2>2, LiveInterval, CapAssumption, MaxRefsAssumption
       DEF LiveIsFindable
<1> QED
  BY <1>1, Invariance, PTL

(* refs is exactly the items being sent, queued or worked on.               *)
THEOREM RefsExact == Spec => []RefsAreLive
<1>1. ASSUME IndInv PROVE RefsAreLive
  <2>1. /\ filed \in Nat /\ Taken \in Nat /\ Len(queue) \in Nat /\ Taken <= filed
        /\ refs = (IF worker = "receive" THEN Taken + 1 ELSE Taken)..filed
    BY <1>1, LiveInterval
  <2>2. Queued = (Taken + 1)..(Taken + Len(queue))
    <3>1. \A k \in 1..Len(queue) : queue[k] = Taken + k
      BY <1>1 DEF IndInv, ChannelInv
    <3>2. ASSUME NEW i \in (Taken + 1)..(Taken + Len(queue)) PROVE i \in Queued
      <4>1. i - Taken \in 1..Len(queue) /\ Taken + (i - Taken) = i
        BY <2>1, <3>2
      <4>2. queue[i - Taken] = i
        BY <3>1, <4>1
      <4> QED
        BY <4>1, <4>2 DEF Queued
    <3>3. ASSUME NEW i \in Queued PROVE i \in (Taken + 1)..(Taken + Len(queue))
      BY <2>1, <3>1, <3>3 DEF Queued
    <3> QED
      BY <3>2, <3>3
  <2>3. Sending = (Taken + Len(queue) + 1)..filed
    <3>1. CASE \E c \in Clients : call[c] = "send"
      <4>1. Sending = {filed} /\ Sent = filed - 1
        BY <1>1, <3>1, SentIs DEF Sending, IndInv, LockInv
      <4>2. Taken + Len(queue) + 1 = filed
        BY <2>1, <4>1 DEF Taken
      <4> QED
        BY <2>1, <4>1, <4>2
    <3>2. CASE ~\E c \in Clients : call[c] = "send"
      <4>1. Sending = {} /\ Sent = filed
        BY <3>2 DEF Sending, Sent
      <4>2. Taken + Len(queue) = filed
        BY <2>1, <4>1 DEF Taken
      <4> QED
        BY <2>1, <4>1, <4>2
    <3> QED
      BY <3>1, <3>2
  <2>4. {cur} \ {NoItem} = IF worker = "receive" THEN {} ELSE {Taken}
    BY <1>1, <2>1 DEF IndInv, WorkerInv, NoItem
  <2>5. Taken + Len(queue) <= filed
    BY <1>1, <2>1 DEF IndInv, TypeOK, Taken, Sent
  <2>6. Sending \cup Queued = (Taken + 1)..filed
    BY <2>1, <2>2, <2>3, <2>5
  <2>7. CASE worker = "receive"
    BY <2>1, <2>4, <2>6, <2>7 DEF RefsAreLive
  <2>8. CASE worker # "receive"
    <3>1. Taken..filed = ((Taken + 1)..filed) \cup {Taken}
      BY <2>1
    <3> QED
      BY <2>1, <2>4, <2>6, <2>8, <3>1 DEF RefsAreLive
  <2> QED
    BY <2>7, <2>8
<1> QED
  BY <1>1, Invariance, PTL

(* PushIfEmpty files only when nothing is queued or worked on.              *)
THEOREM IfEmptyAlone == Spec => []PushIfEmptyAlone
<1>1. ASSUME IndInv PROVE PushIfEmptyAlone
  <2> SUFFICES ASSUME NEW c \in Clients, call[c] = "pushIfEmpty"
               PROVE  queue = <<>> /\ cur = NoItem
    BY DEF PushIfEmptyAlone
  <2>1. refs = {} /\ Sent = filed
    BY <1>1, SentIs DEF IndInv, LockInv
  <2>2. worker = "receive" /\ Taken >= filed
    BY <1>1, <2>1, LiveInterval
  <2>3. Len(queue) = 0
    BY <1>1, <2>1, <2>2, LiveInterval DEF Taken
  <2> QED
    BY <1>1, <2>2, <2>3 DEF IndInv, TypeOK, WorkerInv
<1> QED
  BY <1>1, Invariance, PTL

(* What the worker has done with the items it took.                         *)
LEMMA HandledIsResolved ==
    ASSUME IndInv PROVE HandledInOrder /\ DoneIsResolved
<1>1. /\ Taken \in Nat
      /\ resolved = 1..(IF worker \in {"popped", "handle"} THEN Taken - 1 ELSE Taken)
      /\ done = 1..(IF worker = "receive" THEN Taken ELSE Taken - 1)
  BY DEF IndInv, ChannelInv, WorkerInv
<1>2. HandledInOrder
  BY <1>1, MaxPushesAssumption DEF HandledInOrder, Items
<1>3. DoneIsResolved
  BY <1>1 DEF DoneIsResolved
<1> QED
  BY <1>2, <1>3

(* Items are handled in the order they were filed, and waiters are only     *)
(* released once the resolution is there.                                   *)
THEOREM OrderedAndResolved == Spec => [](HandledInOrder /\ DoneIsResolved)
<1>1. IndInv => HandledInOrder /\ DoneIsResolved
  BY HandledIsResolved
<1> QED
  BY <1>1, Invariance, PTL

(* What the positions say of the items.                                     *)
LEMMA PositionsAre ==
    ASSUME IndInv PROVE PosWithinOne /\ DoneIsNegative
<1>1. filed \in Nat /\ Taken \in Nat /\ Len(queue) \in Nat
  BY LiveInterval
<1>2. Taken + Len(queue) <= filed
  BY <1>1 DEF IndInv, TypeOK, Taken, Sent
<1>3. ASSUME NEW k \in 1..Len(queue) PROVE pos[queue[k]] \in (k - 2)..k
  <2>1. queue[k] = Taken + k /\ Taken + k \in (Taken + 1)..filed
    BY <1>1, <1>2 DEF IndInv, ChannelInv
  <2>2. (Taken + k) - Taken = k
    BY <1>1
  <2>3. pos[Taken + k] \in {k - 2, k - 1, k}
    BY <2>1, <2>2 DEF IndInv, PosInv
  <2> QED
    BY <2>1, <2>3
<1>4. ASSUME NEW i \in done PROVE pos[i] < 0
  <2>1. i \in 1..(IF worker = "receive" THEN Taken ELSE Taken - 1)
    BY <1>4 DEF IndInv, WorkerInv
  <2>2. i \in 1..Taken /\ ~(worker = "popped" /\ i = Taken)
    BY <1>1, <2>1
  <2> QED
    BY <2>2 DEF IndInv, PosInv
<1> QED
  BY <1>3, <1>4 DEF PosWithinOne, DoneIsNegative

(* The race on Pos costs a queued item at most one place, and a finished    *)
(* item always has a negative position.                                     *)
THEOREM PositionsBounded == Spec => [](PosWithinOne /\ DoneIsNegative)
<1>1. IndInv => PosWithinOne /\ DoneIsNegative
  BY PositionsAre
<1> QED
  BY <1>1, Invariance, PTL

(* What concatenation does to the ends of a sequence.                       *)
LEMMA ConcatEnds ==
    ASSUME NEW S, NEW s \in Seq(S), NEW t \in Seq(S), NEW x \in S
    PROVE  /\ s \o <<>> = s
           /\ s \o <<x>> = Append(s, x)
           /\ s # <<>> => /\ s \o t # <<>>
                         /\ Head(s \o t) = Head(s)
                         /\ Tail(s \o t) = Tail(s) \o t
  OBVIOUS

(* A new queue is empty.                                                    *)
LEMMA AbstractInit == Init => Abstract!QueueInit
  BY DEF Init, Abstract!QueueInit, Unsent, NoItem

(* Every step of the channel, the mutex and the ring is a step of the       *)
(* abstract queue or none: InternalPush queues, Receive takes, Finish       *)
(* completes.                                                               *)
LEMMA AbstractStep ==
    IndInv /\ [Next]_vars => [Abstract!QueueNext]_(Abstract!queueVars)
<1> SUFFICES ASSUME IndInv, [Next]_vars
             PROVE  [Abstract!QueueNext]_(Abstract!queueVars)
  OBVIOUS
<1> DEFINE waiting == queue \o Unsent
<1>q. /\ TypeOK /\ LockInv /\ WorkerInv
      /\ queue \in Seq(Items) /\ filed \in Nat
  BY DEF IndInv, TypeOK
<1>u. /\ Unsent \in Seq(Items)
      /\ lock = NoClient => Unsent = <<>>
      /\ \A c \in Clients : call[c] \in {"push", "pushIfEmpty"} => Unsent = <<>>
      /\ \A c \in Clients : call[c] = "send" => Unsent = <<filed>>
  <2>1. \A c, d \in Clients : call[d] = "send" =>
            /\ filed \in Items /\ lock = d
            /\ call[c] \in {"push", "pushIfEmpty"} => FALSE
    BY <1>q, MaxPushesAssumption DEF TypeOK, LockInv, PushCalls, Items
  <2>2. CASE \E d \in Clients : call[d] = "send"
    <3>1. Unsent = <<filed>> /\ filed \in Items /\ lock # NoClient
      BY <2>1, <2>2, ClientsAssumption DEF Unsent, NoClient
    <3>2. <<filed>> \in Seq(Items)
      BY <3>1
    <3> QED
      BY <2>1, <2>2, <3>1, <3>2
  <2>3. CASE ~ \E d \in Clients : call[d] = "send"
    <3>1. Unsent = <<>>
      BY <2>3 DEF Unsent
    <3> QED
      BY <2>3, <3>1
  <2> QED
    BY <2>2, <2>3
<1>s. SUFFICES \/ waiting' = waiting /\ cur' = cur
               \/ Abstract!QueueNext
  BY DEF Abstract!queueVars
<1>1. ASSUME NEW c \in Clients, Push(c) \/ PushIfEmpty(c)
      PROVE  waiting' = waiting /\ cur' = cur
  <2>1. /\ queue' = queue /\ cur' = cur /\ lock = NoClient /\ lock' = c
        /\ \A d \in Clients : call'[d] # "send"
    BY <1>1, <1>q, ClientsAssumption
       DEF Push, PushIfEmpty, workVars, TypeOK, LockInv, NoClient, PushCalls
  <2>2. Unsent' = <<>> /\ Unsent = <<>>
    BY <1>u, <2>1 DEF Unsent
  <2> QED
    BY <2>1, <2>2
<1>2. ASSUME NEW c \in Clients, InternalPush(c)
      PROVE  Abstract!QueueNext
  <2>1. /\ call[c] \in {"push", "pushIfEmpty"} /\ Unsent = <<>>
        /\ filed' = filed + 1 /\ filed' \in Items
        /\ queue' = queue /\ cur' = cur /\ call'[c] = "send"
    BY <1>2, <1>q, <1>u, MaxPushesAssumption
       DEF InternalPush, TypeOK, LockInv, Items, workVars
  <2>2. Unsent' = <<filed'>>
    BY <2>1 DEF Unsent
  <2>3. waiting = queue /\ waiting' = Append(queue, filed')
    BY <1>q, <2>1, <2>2, ConcatEnds
  <2>4. Len(waiting) < Cap
    <3>1. CASE call[c] = "push"
      BY <1>q, <2>3, <3>1 DEF LockInv
    <3>2. CASE call[c] = "pushIfEmpty"
      <4>1. refs = {} /\ Sent = filed
        BY <3>2, SentIs, <1>q DEF LockInv
      <4>2. Taken >= filed
        BY <4>1, LiveInterval
      <4>3. Len(queue) = 0
        BY <4>1, <4>2, LiveInterval DEF Taken
      <4> QED
        BY <2>3, <4>3, CapAssumption
    <3> QED
      BY <2>1, <3>1, <3>2
  <2> QED
    BY <2>1, <2>3, <2>4 DEF Abstract!QueueNext, Abstract!Enqueue, Abstract!HasRoom
<1>3. ASSUME NEW c \in Clients, Send(c)
      PROVE  waiting' = waiting /\ cur' = cur
  <2>1. /\ item[c] = filed /\ filed \in Items /\ Unsent = <<filed>>
        /\ queue' = Append(queue, filed) /\ cur' = cur
        /\ \A d \in Clients : call'[d] # "send"
    BY <1>3, <1>q, <1>u, ClientsAssumption, MaxPushesAssumption
       DEF Send, TypeOK, LockInv, Items, NoClient, PushCalls, workVars, indexVars
  <2>2. Unsent' = <<>>
    BY <2>1 DEF Unsent
  <2>3. queue' \in Seq(Items)
    BY <1>q, <2>1
  <2> QED
    BY <1>q, <2>1, <2>2, <2>3, ConcatEnds
<1>4. ASSUME NEW c \in Clients, Wait(c) \/ WaitReturn(c)
      PROVE  waiting' = waiting /\ cur' = cur
  <2>1. /\ queue' = queue /\ cur' = cur /\ filed' = filed
        /\ \A d \in Clients : call'[d] = "send" <=> call[d] = "send"
    BY <1>4, <1>q DEF Wait, WaitReturn, indexVars, workVars, TypeOK
  <2> QED
    BY <2>1 DEF Unsent
<1>5. ASSUME Receive
      PROVE  Abstract!QueueNext
  <2>1. /\ cur = NoItem /\ queue # <<>> /\ cur' = Head(queue) /\ queue' = Tail(queue)
        /\ Unsent' = Unsent
    BY <1>5, <1>q DEF Receive, WorkerInv, pushVars, indexVars, Unsent
  <2>2. waiting # <<>> /\ Head(waiting) = cur' /\ waiting' = Tail(waiting)
    BY <1>q, <1>u, <2>1, ConcatEnds
  <2> QED
    BY <2>1, <2>2 DEF Abstract!QueueNext, Abstract!Take
<1>6. ASSUME HandlePopped \/ Handle
      PROVE  waiting' = waiting /\ cur' = cur
  BY <1>6 DEF HandlePopped, Handle, pushVars, indexVars, Unsent
<1>7. ASSUME Finish
      PROVE  Abstract!QueueNext
  <2>1. cur # NoItem /\ cur' = NoItem /\ waiting' = waiting
    BY <1>7, <1>q DEF Finish, WorkerInv, pushVars, Unsent, NoItem
  <2> QED
    BY <2>1 DEF Abstract!QueueNext, Abstract!Complete
<1>8. ASSUME UNCHANGED vars
      PROVE  waiting' = waiting /\ cur' = cur
  BY <1>8 DEF vars, Unsent
<1> QED
  BY <1>1, <1>2, <1>3, <1>4, <1>5, <1>6, <1>7, <1>8 DEF Next, ClientStep, WorkerStep

(* R11nQueue implements a bounded first-in first-out queue with one worker, *)
(* for every capacity, ring length and set of clients.                      *)
THEOREM QueueImplemented == Spec => ImplementsQueue
<1>1. Init => Abstract!QueueInit
  BY AbstractInit
<1>2. IndInv /\ [Next]_vars => [Abstract!QueueNext]_(Abstract!queueVars)
  BY AbstractStep
<1> QED
  BY <1>1, <1>2, Invariance, PTL DEF Spec, ImplementsQueue, Abstract!QueueSafe

----------------------------------------------------------------------------
(* The handlers (server/handle_r11n.go, server/handle_deployqueue.go).      *)

(* A request on its way has an item.  One that has waited has an item whose *)
(* done channel is closed, and so has read a negative Pos and answers with  *)
(* a Resolution that is set.                                                *)
Asked == [at : {"wait", "blocked", "lookup", "found"}, id : Items, waited : BOOLEAN]
RequestInv(q) ==
    /\ q.at \in {"wait", "blocked", "lookup", "found"} => q \in Asked
    /\ q.at \in {"lookup", "found", "answer"} /\ q.waited => q.id \in done
    /\ q.at = "answer" /\ q.waited => q.rez
    /\ q.at = "replied" /\ q.answer.status = "200" /\ "rez" \in DOMAIN q.answer =>
          (q.answer.waited => q.answer.rez /\ q.answer.set)
HandlersInv ==
    /\ IndInv
    /\ req = [r \in Requests |-> req[r]]
    /\ \A r \in Requests : RequestInv(req[r])

(* A done channel is never opened again.                                    *)
LEMMA DoneStays == [Next]_vars => done \subseteq done'
  BY DEF Next, WorkerStep, ClientStep, Push, PushIfEmpty, InternalPush, Send, Wait,
     WaitReturn, Receive, HandlePopped, Handle, Finish, vars, workVars

(* A step of a request changes its own state only.                          *)
LEMMA OwnState ==
    ASSUME HandlersInv, NEW r \in Requests, NEW state, GoTo(r, state),
           RequestInv(state)
    PROVE  HandlersInv'
<1>1. /\ req' = [req EXCEPT ![r] = state] /\ UNCHANGED vars
      /\ req = [q \in Requests |-> req[q]]
  BY DEF GoTo, HandlersInv
<1>2. /\ req' = [q \in Requests |-> req'[q]] /\ req'[r] = state
      /\ \A q \in Requests : q # r => req'[q] = req[q]
  BY <1>1
<1>3. IndInv' /\ done' = done
  <2>1. [Next]_vars /\ done' = done
    BY <1>1 DEF vars
  <2> QED
    BY <2>1, NextPreserves DEF HandlersInv
<1>4. \A q \in Requests : RequestInv(req[q])'
  BY <1>2, <1>3 DEF HandlersInv, RequestInv
<1> QED
  BY <1>2, <1>3, <1>4 DEF HandlersInv

(* Every step of the queue and of the handlers preserves HandlersInv.       *)
LEMMA HandlersPreserve == HandlersInv /\ [HandlersNext]_allVars => HandlersInv'
<1> SUFFICES ASSUME HandlersInv, [HandlersNext]_allVars PROVE HandlersInv'
  OBVIOUS
<1>0. IndInv /\ \A r \in Requests : RequestInv(req[r])
  BY DEF HandlersInv
<1>1. CASE [Next]_vars /\ UNCHANGED req
  <2>1. IndInv' /\ done \subseteq done'
    BY <1>0, <1>1, NextPreserves, DoneStays
  <2> QED
    BY <1>1, <2>1 DEF HandlersInv, RequestInv
<1>2. ASSUME NEW r \in Requests, NEW id \in Items, GetR11n(r, id) PROVE HandlersInv'
  <2>1. PICK wait \in BOOLEAN :
          GoTo(r, [at |-> IF wait THEN "wait" ELSE "lookup", id |-> id, waited |-> wait])
    BY <1>2 DEF GetR11n
  <2>2. RequestInv([at |-> IF wait THEN "wait" ELSE "lookup", id |-> id, waited |-> wait])
    BY DEF RequestInv, Asked
  <2> QED
    BY <2>1, <2>2, OwnState
<1>3. ASSUME NEW r \in Requests, GetWait(r) \/ GetWaited(r) \/ GetByID(r)
      PROVE  HandlersInv'
  <2>1. req[r] \in Asked /\ (req[r].at = "lookup" /\ req[r].waited => req[r].id \in done)
    BY <1>0, <1>3 DEF GetWait, GetWaited, GetByID, RequestInv
  <2>2. \/ GoTo(r, [at |-> "replied", answer |-> [status |-> "404"]])
        \/ req[r].at = "wait" /\ GoTo(r, [req[r] EXCEPT !.at = "blocked"])
        \/ /\ req[r].at = "blocked" /\ req[r].id \in done
           /\ GoTo(r, [req[r] EXCEPT !.at = "lookup"])
        \/ req[r].at = "lookup" /\ GoTo(r, [req[r] EXCEPT !.at = "found"])
    BY <1>3 DEF GetWait, GetWaited, GetByID, Answer
  <2>3. RequestInv([at |-> "replied", answer |-> [status |-> "404"]])
    BY DEF RequestInv
  <2>4. RequestInv([req[r] EXCEPT !.at = "blocked"])
    BY <2>1 DEF RequestInv, Asked
  <2>5. req[r].id \in done => RequestInv([req[r] EXCEPT !.at = "lookup"])
    BY <2>1 DEF RequestInv, Asked
  <2>6. req[r].at = "lookup" => RequestInv([req[r] EXCEPT !.at = "found"])
    BY <2>1 DEF RequestInv, Asked
  <2> QED
    BY <2>2, <2>3, <2>4, <2>5, <2>6, OwnState
<1>4. ASSUME NEW r \in Requests, GetReadPos(r) PROVE HandlersInv'
  <2> DEFINE state == [at |-> "answer", id |-> req[r].id, waited |-> req[r].waited,
                       rez |-> HasResolution(req[r].id)]
  <2>1. req[r] \in Asked /\ (req[r].waited => req[r].id \in done)
    BY <1>0, <1>4 DEF GetReadPos, RequestInv
  <2>2. req[r].waited => HasResolution(req[r].id)
    BY <1>0, <2>1, PositionsAre DEF DoneIsNegative, HasResolution
  <2>3. RequestInv(state)
    BY <2>1, <2>2 DEF RequestInv
  <2>4. GoTo(r, state)
    BY <1>4 DEF GetReadPos
  <2> QED
    BY <2>3, <2>4, OwnState
<1>5. ASSUME NEW r \in Requests, GetRespond(r) PROVE HandlersInv'
  <2> DEFINE answer == [status |-> "200", waited |-> req[r].waited, rez |-> req[r].rez,
                        gone |-> HasResolution(req[r].id),
                        live |-> InChannel(req[r].id),
                        set |-> req[r].id \in resolved]
  <2>1. req[r].waited => req[r].rez /\ req[r].id \in done
    BY <1>0, <1>5 DEF GetRespond, RequestInv
  <2>2. req[r].waited => req[r].id \in resolved
    BY <1>0, <2>1, HandledIsResolved DEF DoneIsResolved
  <2>3. RequestInv([at |-> "replied", answer |-> answer])
    BY <2>1, <2>2 DEF RequestInv
  <2>4. GoTo(r, [at |-> "replied", answer |-> answer])
    BY <1>5 DEF GetRespond, Answer
  <2> QED
    BY <2>3, <2>4, OwnState
<1>6. ASSUME NEW r \in Requests, ListSize(r) \/ ListSnapshot(r) \/ Over(r)
      PROVE  HandlersInv'
  <2> DEFINE blank == [status |-> "200", blank |-> req[r].size - Cardinality(Snapshot)]
  <2>1. \/ GoTo(r, [at |-> "sized", size |-> Len(queue)])
        \/ GoTo(r, [at |-> "replied", answer |-> [status |-> "panic"]])
        \/ GoTo(r, [at |-> "replied", answer |-> blank])
        \/ GoTo(r, Idle)
    BY <1>6 DEF ListSize, ListSnapshot, Over, Answer
  <2>2. RequestInv([at |-> "sized", size |-> Len(queue)]) /\ RequestInv(Idle)
    BY DEF RequestInv, Idle
  <2>3. RequestInv([at |-> "replied", answer |-> [status |-> "panic"]])
    BY DEF RequestInv
  <2>4. RequestInv([at |-> "replied", answer |-> blank])
    BY DEF RequestInv
  <2> QED
    BY <2>1, <2>2, <2>3, <2>4, OwnState
<1>7. [HandlersNext]_allVars => \/ [Next]_vars /\ UNCHANGED req
                                \/ \E r \in Requests : RequestStep(r)
  BY DEF HandlersNext, QueueStep, allVars
<1> QED
  BY <1>1, <1>2, <1>3, <1>4, <1>5, <1>6, <1>7 DEF RequestStep

(* The handlers only read: with them the queue behaves as without.          *)
THEOREM HandlersOnlyRead == HandlersSpec => Spec
<1>1. HandlersInit => Init
  BY DEF HandlersInit
<1>2. [HandlersNext]_allVars => [Next]_vars
  BY DEF HandlersNext, QueueStep, RequestStep, GetR11n, GetWait, GetWaited, GetByID,
     GetReadPos, GetRespond, ListSize, ListSnapshot, Over, Answer, GoTo, allVars
<1> QED
  BY <1>1, <1>2, PTL DEF HandlersSpec, Spec

(* GET /deploy-queue-item with wait=true answers, for any number of         *)
(* requests, with a Resolution, and with one that the rectification's       *)
(* handler has set: `sous deploy` cannot take an unfinished rectification   *)
(* for a finished one.                                                      *)
THEOREM WaitedIsFinal == HandlersSpec => []WaitedReplyIsFinal
<1>1. HandlersInit => HandlersInv
  BY InitEstablishes DEF HandlersInit, HandlersInv, RequestInv, Idle
<1>2. HandlersInv => WaitedReplyIsFinal
  BY DEF HandlersInv, RequestInv, WaitedReplyIsFinal, R11nReplies
<1> QED
  BY <1>1, <1>2, HandlersPreserve, PTL DEF HandlersSpec
=============================================================================
