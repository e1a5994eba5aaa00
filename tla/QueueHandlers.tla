--------------------------- MODULE QueueHandlers ---------------------------
(****************************************************************************)
(* The HTTP handlers that report on a deployment's queue while it works:    *)
(* GETR11nHandler (server/handle_r11n.go), the one `sous deploy` polls, and *)
(* GETDeployQueueHandler (server/handle_deployqueue.go).                    *)
(*                                                                          *)
(* A request runs in a goroutine of its own.  Each access to the queue is   *)
(* a step; between two of them the queue moves on.  Pos is read through the *)
(* pointer ByID returned, outside the mutex, once to decide about the       *)
(* Resolution and once for the reply.                                       *)
(****************************************************************************)
EXTENDS R11nQueue

CONSTANT Requests    \* request goroutines

VARIABLE req         \* where each request is, with what it has read or answered

allVars == <<vars, req>>

Idle == [at |-> "idle"]

(* In flight a request is at "wait", "blocked", "lookup" or "found" with    *)
(* `waited`, the wait=true query parameter, at "answer" also with `rez`,    *)
(* whether a Resolution will be attached, or, listing, at "sized" with the  *)
(* length of the slice it made.  A request that has answered is at "replied"*)
(* with its answer; there `live` and `set` are not part of the answer: they *)
(* record, for the properties, whether the item still waited and whether    *)
(* its Resolution was set.                                                  *)

HandlersInit ==
    /\ Init
    /\ req = [r \in Requests |-> Idle]

GoTo(r, state) == req' = [req EXCEPT ![r] = state] /\ UNCHANGED vars

Answer(r, answer) == GoTo(r, [at |-> "replied", answer |-> answer])

(* The goroutine of an answered request is over.                            *)
Over(r) ==
    /\ req[r].at = "replied"
    /\ GoTo(r, Idle)

InChannel(id) == id \in Queued

----------------------------------------------------------------------------
(* GETR11nHandler.Exchange, for an ID the server has handed out.            *)

GetR11n(r, id) ==
    /\ req[r] = Idle
    /\ id \in (1..filed) \ Sending
    /\ \E wait \in BOOLEAN :
          GoTo(r, [at |-> IF wait THEN "wait" ELSE "lookup",
                   id |-> id, waited |-> wait])

(* QueueSet.Wait: the lookup under the mutex fails at once or finds the     *)
(* item, and then blocks until its done channel is closed.                  *)
GetWait(r) ==
    /\ req[r].at = "wait"
    /\ lock = NoClient
    /\ \/ /\ req[r].id \in allRefs
          /\ GoTo(r, [req[r] EXCEPT !.at = "blocked"])
       \/ /\ req[r].id \notin allRefs
          /\ Answer(r, [status |-> "404"])

GetWaitedMutant(r) ==                \* mutant: does not wait
    /\ req[r].at = "blocked"
    /\ GoTo(r, [req[r] EXCEPT !.at = "lookup"])
GetWaited(r) ==
    /\ req[r].at = "blocked"
    /\ req[r].id \in done
    /\ GoTo(r, [req[r] EXCEPT !.at = "lookup"])

(* ByID under the mutex.                                                    *)
GetByID(r) ==
    /\ req[r].at = "lookup"
    /\ lock = NoClient
    /\ \/ /\ req[r].id \in allRefs
          /\ GoTo(r, [req[r] EXCEPT !.at = "found"])
       \/ /\ req[r].id \notin allRefs
          /\ Answer(r, [status |-> "404"])

(* A Resolution is attached when Pos is negative.                           *)
HasResolution(id) == pos[id] < 0

GetReadPos(r) ==
    /\ req[r].at = "found"
    /\ GoTo(r, [at |-> "answer", id |-> req[r].id, waited |-> req[r].waited,
                rez |-> HasResolution(req[r].id)])

GetRespond(r) ==
    /\ req[r].at = "answer"
    /\ Answer(r, [status |-> "200", waited |-> req[r].waited, rez |-> req[r].rez,
                  gone |-> HasResolution(req[r].id),
                  live |-> InChannel(req[r].id),
                  set |-> req[r].id \in resolved])

----------------------------------------------------------------------------
(* GETDeployQueueHandler.Exchange for a deployment that has a queue.        *)

(* make([]queuedDeployment, queue.Len()): the channel's length, no mutex.   *)
ListSize(r) ==
    /\ req[r] = Idle
    /\ GoTo(r, [at |-> "sized", size |-> Len(queue)])

(* Snapshot: the live items with their positions at one moment.  Of their   *)
(* order, by position, the handler makes no use.                            *)
Snapshot == {[id |-> i, Pos |-> pos[i]] : i \in refs}

(* The items of the Snapshot are stored at their index in that slice.  An   *)
(* index beyond it panics; places left over stay zero values.               *)
ListSnapshot(r) ==
    /\ req[r].at = "sized"
    /\ lock = NoClient
    /\ \/ /\ Cardinality(Snapshot) > req[r].size
          /\ Answer(r, [status |-> "panic"])
       \/ /\ Cardinality(Snapshot) <= req[r].size
          /\ Answer(r, [status |-> "200", blank |-> req[r].size - Cardinality(Snapshot)])

----------------------------------------------------------------------------
QueueStep == Next /\ UNCHANGED req

RequestStep(r) ==
    \/ \E id \in Items : GetR11n(r, id)
    \/ GetWait(r)
    \/ GetWaited(r)
    \/ GetByID(r)
    \/ GetReadPos(r)
    \/ GetRespond(r)
    \/ ListSize(r)
    \/ ListSnapshot(r)
    \/ Over(r)

HandlersNext == QueueStep \/ \E r \in Requests : RequestStep(r)

(* The queue's fairness; no request is assumed to be made or to go on.      *)
HandlersSpec == HandlersInit /\ [][HandlersNext]_allVars /\ Fairness

----------------------------------------------------------------------------
(* Properties.                                                              *)

(* The answers given to GETR11nHandler's requests.                          *)
R11nReplies ==
    {a \in {req[r].answer : r \in {q \in Requests : req[q].at = "replied"}} :
        a.status = "200" /\ "rez" \in DOMAIN a}

(* wait=true does wait: an answer given after waiting carries a Resolution, *)
(* and one that the handler of the rectification has set.                   *)
WaitedReplyIsFinal == \A a \in R11nReplies : a.waited => a.rez /\ a.set

----------------------------------------------------------------------------
(* Said of the code by its comments or its use, and not so: see the README. *)

(* A rectification that waits in the channel is reported with no Resolution *)
(* ("nothing to see here").                                                 *)
QueuedHasNilResolution == \A a \in R11nReplies : a.live => ~a.rez

(* GETDeployQueueHandler returns a response: it does not index past the     *)
(* slice it made.                                                           *)
ListNeverPanics ==
    \A r \in Requests : req[r].at = "replied" => req[r].answer.status # "panic"
=============================================================================
