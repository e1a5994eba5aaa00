---------------------------- MODULE StatusPoller ----------------------------
(****************************************************************************)
(* A client waiting for its deployment: StatusPoller (lib/status_poller.go) *)
(* with a subPoller (lib/subpoller.go) per cluster, against the servers'    *)
(* resolve cycles (lib/auto_resolver.go), as GET /status shows them.  The   *)
(* client starts once the GDM has the version it waits for, and nobody      *)
(* changes that meanwhile; but a server may have read the GDM before and    *)
(* begin its resolve of it only now.                                        *)
(*                                                                          *)
(* A status is what concerns the client's deployment: whether the server    *)
(* intends it, in which version, and the resolution logged for it.  Resolve *)
(* IDs are only ever compared with the one before, so a poll tells whether  *)
(* a cycle has begun since the last.                                        *)
(*                                                                          *)
(* A poll and the delivery of its result are one step: what lies between    *)
(* them (the answer's way back, the unbuffered results channel) commutes    *)
(* with the steps of the servers and of the other subPollers, which neither *)
(* change the result nor see that it is not delivered.  All is followed     *)
(* until poll has its verdict.                                              *)
(****************************************************************************)
EXTENDS Integers, FiniteSets, FiniteSetsExt

CONSTANTS
    Clusters,      \* the clusters the deployment is for
    Outcomes,      \* the resolutions a server may log
    Unreachable,   \* the clusters whose server can go down
    ErrorLimit     \* consecutive HTTP errors that are put up with

Errors == {"ChangeError", "CreateError", "DeleteError", "FailedStatusError",
           "MissingImageNameError", "UnacceptableAdvisory"}
Lasting == Errors \ {"ChangeError", "CreateError"}
ASSUME OutcomesAssumption == Outcomes \subseteq Errors \cup {"unchanged", "coming", "other"}
ASSUME UnreachableAssumption == Unreachable \subseteq Clusters
ASSUME ErrorLimitAssumption == ErrorLimit \in Nat

VARIABLES
    read,          \* what the GDM says that the next resolve begins with
    now,           \* the status in progress at each server
    completed,     \* the status of its last complete resolve
    resolving,     \* whether a resolve is under way
    fresh,         \* whether a cycle has begun since the last poll
    down,          \* whether the server is out of reach
    errors,        \* httpErrorCount
    known,         \* statePerCluster: the last result, none at first
    lastCycle,     \* LastCycle of its entries
    status,        \* StatusPoller.status
    done,          \* whether poll has its verdict
    moved,         \* whether a poll of the cluster has failed, or it has begun a
                   \* resolve after its first poll
    confirmed      \* whether a server has logged that the version is running

server == <<read, now, completed, resolving, down, confirmed>>
poller == <<known, lastCycle, status, done>>
vars == <<server, fresh, errors, poller, moved>>

(* ResolveState, in its order.                                              *)
NotPolled == 0
NotStarted == 1
NotVersion == 2
PendingRequest == 3
InProgress == 4
TasksStarting == 5
ErredHTTP == 6
ErredRez == 7
NotIntended == 8
Complete == 9
Failed == 10
HTTPFailed == 11
MAX == 12
TERMINALS == NotIntended

Intents == {"noIntent", "otherVersion", "pending"}
Statuses == {"none"} \cup Intents \cup Outcomes

(* A resolveID: empty, "<none in progress>" or the start of a resolve.      *)
IDs == {"", "none", "some"}
Results == [stat : 0..(MAX - 1), id : IDs]
Unknown == [stat |-> NotPolled, id |-> "unknown"]
First == [stat |-> NotPolled, id |-> ""]

TypeOK ==
    /\ {now, completed} \subseteq [Clusters -> Statuses]
    /\ read \in [Clusters -> Intents]
    /\ {resolving, fresh, down, lastCycle, moved} \subseteq [Clusters -> BOOLEAN]
    /\ errors \in [Clusters -> 0..(ErrorLimit + 1)]
    /\ known \in [Clusters -> Results \cup {Unknown}]
    /\ status \in 0..(MAX - 1)
    /\ done \in BOOLEAN
    /\ confirmed \in BOOLEAN

(* The servers are anywhere in a resolve that began before the client did,  *)
(* or after one: what is read by then may be from before the change.  That  *)
(* none is complete is to the pollers as if it had no intent.               *)
Init ==
    /\ read \in [Clusters -> Intents]
    /\ now \in [Clusters -> {"none"} \cup Intents]
    /\ completed \in [Clusters -> {"noIntent", "otherVersion"}]
    /\ resolving \in [Clusters -> BOOLEAN]
    /\ \A c \in Clusters :
          /\ resolving[c] => now[c] # "none" /\ read[c] = "pending"
          /\ ~resolving[c] => now[c] = IF completed[c] = "noIntent" THEN "none"
                                      ELSE completed[c]
    /\ fresh = [c \in Clusters |-> FALSE]
    /\ down = [c \in Clusters |-> FALSE]
    /\ errors = [c \in Clusters |-> 0]
    /\ known = [c \in Clusters |-> Unknown]
    /\ lastCycle = [c \in Clusters |-> FALSE]
    /\ status = NotPolled
    /\ done = FALSE
    /\ moved = [c \in Clusters |-> FALSE]
    /\ confirmed = FALSE

----------------------------------------------------------------------------
(* The servers.                                                             *)

(* Begin, with what ReadState gave before it.  A read from now on is of the *)
(* GDM with the version, whenever it is.                                    *)
BeginCycle(c) ==
    /\ ~done
    /\ ~resolving[c]
    /\ resolving' = [resolving EXCEPT ![c] = TRUE]
    /\ now' = [now EXCEPT ![c] = read[c]]
    /\ read' = [read EXCEPT ![c] = "pending"]
    /\ fresh' = [fresh EXCEPT ![c] = TRUE]
    /\ moved' = [moved EXCEPT ![c] = @ \/ known[c] \notin {Unknown, First}]
    /\ UNCHANGED <<completed, down, confirmed, errors, poller>>

LogResolution(c) ==
    /\ ~done
    /\ resolving[c]
    /\ now[c] = "pending"
    /\ \E o \in Outcomes :
          /\ now' = [now EXCEPT ![c] = o]
          /\ confirmed' = (confirmed \/ o = "unchanged")
    /\ UNCHANGED <<read, completed, resolving, down, fresh, errors, poller, moved>>

EndCycle(c) ==
    /\ ~done
    /\ resolving[c]
    /\ resolving' = [resolving EXCEPT ![c] = FALSE]
    /\ completed' = [completed EXCEPT ![c] = now[c]]
    /\ UNCHANGED <<read, now, down, confirmed, fresh, errors, poller, moved>>

Outage(c) ==
    /\ ~done
    /\ c \in Unreachable
    /\ down' = [down EXCEPT ![c] = ~@]
    /\ UNCHANGED <<read, now, completed, resolving, confirmed, fresh, errors,
                   poller, moved>>

ServerStep(c) == BeginCycle(c) \/ LogResolution(c) \/ EndCycle(c)

----------------------------------------------------------------------------
(* The collector.                                                           *)

(* computeStatus, of the last results K and the clusters L in last cycle.   *)
ComputeStatusMutant(K, L) ==         \* mutant: the minimum is not looked at
    IF \E c \in Clusters : K[c] # Unknown /\ c \notin L /\ K[c].stat \in InProgress..Complete
    THEN Complete ELSE InProgress
ComputeStatus(K, L) ==
    LET heard == {c \in Clusters : K[c] # Unknown}
        late == {K[c].stat : c \in heard \cap L}
        early == {K[c].stat : c \in heard \ L}
        max(S) == IF S = {} THEN 0 ELSE Max(S)
        min(S) == IF S = {} THEN MAX ELSE Min(S)
    IN  IF late \cap {NotVersion, NotStarted} # {} THEN Failed
        ELSE IF max(early) = Complete /\ min(early) = Complete THEN Complete
        ELSE IF max(early) = HTTPFailed \/ max(late) = HTTPFailed THEN HTTPFailed
        ELSE IF max(late) = Failed THEN Failed
        ELSE IF max(late) = 0 /\ min(late) = MAX THEN Min({max(early), InProgress})
        ELSE IF max(early) # 0 /\ min(early) # MAX THEN InProgress
        ELSE IF max(late) = Complete /\ min(late) = Complete THEN Complete
        ELSE Max({InProgress, min(late)})

(* nextSubStatus and finished, for result r of c; again says whether r's    *)
(* resolveID is of the same resolve as that of the last one.                *)
ReceiveMutant(c, r, again) ==        \* mutant: any second result is a last cycle
    /\ lastCycle' = [lastCycle EXCEPT ![c] = @ \/ known[c] \notin {Unknown, First}]
    /\ known' = [known EXCEPT ![c] = r]
    /\ status' = ComputeStatus(known', {d \in Clusters : lastCycle'[d]})
    /\ done' = (status' >= TERMINALS)
ReceiveOnceMutant(c, r, again) ==    \* mutant: no cluster gets to its last cycle
    /\ known' = [known EXCEPT ![c] = r]
    /\ status' = ComputeStatus(known', {d \in Clusters : lastCycle[d]})
    /\ done' = (status' >= TERMINALS)
    /\ UNCHANGED lastCycle
Receive(c, r, again) ==
    /\ lastCycle' = [lastCycle EXCEPT ![c] =
                        @ \/ (known[c] \notin {Unknown, First} /\ ~again)]
    /\ known' = [known EXCEPT ![c] = r]
    /\ status' = ComputeStatus(known', {d \in Clusters : lastCycle'[d]})
    /\ done' = (status' >= TERMINALS)

----------------------------------------------------------------------------
(* The subPollers.                                                          *)

Start(c) ==
    /\ ~done
    /\ known[c] = Unknown
    /\ Receive(c, First, TRUE)
    /\ UNCHANGED <<server, fresh, errors, moved>>

(* Errors that may clear on their own, told by their type's name.           *)
IsTransientResolveError(e) == e \in {"ChangeError", "CreateError"}

ComputeState(s) ==
    CASE s \in {"none", "noIntent"} -> NotStarted
      [] s = "otherVersion" -> NotVersion
      [] s = "pending" -> PendingRequest
      [] s \in Errors -> IF IsTransientResolveError(s) THEN ErredRez ELSE Failed
      [] s = "unchanged" -> Complete
      [] s = "coming" -> TasksStarting
      [] s = "other" -> InProgress

(* While the resolve in progress has nothing to tell, the completed one is  *)
(* asked.                                                                   *)
Stat(c) ==
    IF ComputeState(now[c]) \in {NotStarted, NotVersion, PendingRequest}
    THEN ComputeState(completed[c])
    ELSE ComputeState(now[c])

PollOnce(c) ==
    /\ ~done
    /\ known[c] # Unknown
    /\ ~down[c]
    /\ errors' = [errors EXCEPT ![c] = 0]
    /\ fresh' = [fresh EXCEPT ![c] = FALSE]
    /\ LET id == IF now[c] = "none" THEN "none" ELSE "some"
       IN  Receive(c, [stat |-> Stat(c), id |-> id], known[c].id = id /\ ~fresh[c])
    /\ UNCHANGED <<server, moved>>

(* An HTTP error; the count stops where it no longer matters.               *)
PollErrs(c) ==
    /\ ~done
    /\ known[c] # Unknown
    /\ down[c]
    /\ errors' = [errors EXCEPT ![c] = Min({@, ErrorLimit}) + 1]
    /\ LET stat == IF errors'[c] > ErrorLimit THEN HTTPFailed ELSE ErredHTTP
       IN  Receive(c, [stat |-> stat, id |-> "none"], known[c].id = "none")
    /\ moved' = [moved EXCEPT ![c] = TRUE]
    /\ UNCHANGED <<server, fresh>>

----------------------------------------------------------------------------
SubStep(c) == Start(c) \/ PollOnce(c) \/ PollErrs(c)

Next == \E c \in Clusters : ServerStep(c) \/ Outage(c) \/ SubStep(c)

Spec == Init /\ [][Next]_vars

(* Goroutines run, tickers fire, requests end; the servers' cycles recur    *)
(* (AutoResolver) and a resolve gets to an end.  No resolution has to be    *)
(* logged and no server has to come back.                                   *)
Fairness ==
    \A c \in Clusters : /\ WF_vars(BeginCycle(c) \/ EndCycle(c))
                        /\ WF_vars(SubStep(c))

FairSpec == Spec /\ Fairness

----------------------------------------------------------------------------
(* Properties.                                                              *)

(* Success is not made up: when the verdict is Complete, a server has       *)
(* logged that the version waited for is running.                           *)
CompleteIsReal == done /\ status = Complete => confirmed

(* Nor is failure: when the verdict is Failed, there is a cluster that has  *)
(* begun a resolve after its first poll (or a poll of it failed, whose      *)
(* resolveID is that of no resolve), and either it has logged a failure     *)
(* that does not clear on its own or the last resolve it has completed was  *)
(* of a GDM from before the change.  That the latter should not count is    *)
(* FailedMeansFailed.                                                       *)
FailedIsGrounded ==
    done /\ status = Failed =>
        \E c \in Clusters :
            /\ moved[c]
            /\ \/ {now[c], completed[c]} \cap Lasting # {}
               \/ completed[c] \in {"noIntent", "otherVersion"}

(* The poller comes to a verdict once every cluster goes on answering that  *)
(* the deployment is complete or failed, and also once a single one stays   *)
(* out of reach.  (A verdict is final, so that []<>done is <>done.)         *)
Settled(c) == ~down[c] /\ Stat(c) \in {Complete, Failed}
PollEnds ==
    /\ <>[](\A c \in Clusters : Settled(c)) => []<>done
    /\ \A c \in Clusters : <>[]down[c] => []<>done

----------------------------------------------------------------------------
(* Said of the code by its comments or its use, and not so: see the README. *)

(* "once they've all crossed the TERMINAL threshold, return the 'maximum'   *)
(* state reached": when the verdict is Complete every cluster is.           *)
CompleteMeansAll ==
    done /\ status = Complete => \A c \in Clusters : known[c].stat >= TERMINALS

(* "ResolveFailed indicates that a particular cluster is in a failed state  *)
(* regarding resolving the deployments", and of another version "expect     *)
(* that on the next auto-resolve cycle we'll move past this state": a       *)
(* cluster has failed.                                                      *)
FailedMeansFailed ==
    done /\ status = Failed =>
        \E c \in Clusters : {now[c], completed[c]} \cap Lasting # {}
=============================================================================
