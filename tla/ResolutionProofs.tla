-------------------------- MODULE ResolutionProofs --------------------------
(* The safety of a server's resolution: of its endless cycle, of one        *)
(* resolve with its recorder, and of the pipeline that feeds a resolve.     *)
EXTENDS Resolution, FiniteSetTheorems, TLAPS

----------------------------------------------------------------------------
(* The cycle (lib/auto_resolver.go).                                        *)

(* Where the one trigger is: no two of its four places have it, and while   *)
(* done is open one of them does.                                           *)
AtKick == kick = "trigger"
AtLoop == loop \in {"check", "read", "failed", "run", "announce"}
AtMulticast == multicast = "first"
AtAfterDone == afterDone \in {"sleep", "trigger"}

OneTrigger ==
    /\ ~(AtKick /\ AtLoop) /\ ~(AtKick /\ AtMulticast) /\ ~(AtKick /\ AtAfterDone)
    /\ ~(AtLoop /\ AtMulticast) /\ ~(AtLoop /\ AtAfterDone)
    /\ ~(AtMulticast /\ AtAfterDone)
    /\ ~done => AtKick \/ AtLoop \/ AtMulticast \/ AtAfterDone

(* The recorder is of the resolve last begun for as long as the loop uses   *)
(* it, and only a loop that waits has a resolve under way.                  *)
RecorderIsBegun ==
    /\ ~over => loop = "run"
    /\ loop \in {"run", "announce", "store", "report", "clear"} => current = begun

CycleInv ==
    /\ Cycle!TypeOK
    /\ OneTrigger
    /\ RecorderIsBegun
    /\ StableIsPrevious

(* To begin with no cycle has run and nothing was recorded.                 *)
LEMMA CycleInit == Cycle!Init => CycleInv
<1> SUFFICES ASSUME Cycle!Init PROVE CycleInv
  OBVIOUS
<1>0. Ids \in Nat /\ Ids >= 4
  BY CycleAssumption DEF CycleAssumption, Cycle!IdsAssumption
<1>1. Cycle!TypeOK
  <2>1. begun \in 0..(Ids - 1)
    BY <1>0 DEF Cycle!Init
  <2>2. current = Cycle!NoResolve /\ {stableStatus, live} \subseteq Cycle!Status
    BY DEF Cycle!Init, Cycle!Status
  <2> QED
    BY <2>1, <2>2, Zenon DEF Cycle!Init, Cycle!TypeOK
<1>2. OneTrigger /\ RecorderIsBegun /\ StableIsPrevious
  BY DEF Cycle!Init, OneTrigger, RecorderIsBegun, StableIsPrevious,
     Cycle!StableIsPrevious, AtKick, AtLoop, AtMulticast, AtAfterDone
<1> QED
  BY <1>1, <1>2 DEF CycleInv

(* Every step of the cycle's goroutines and readers preserves CycleInv.      *)
LEMMA CycleNext == CycleInv /\ [Cycle!Next]_cycleVars => CycleInv'
<1> SUFFICES ASSUME CycleInv, [Cycle!Next]_cycleVars PROVE CycleInv'
  OBVIOUS
<1>0. /\ Ids \in Nat /\ Ids >= 4
      /\ \A n \in 0..(Ids - 1) : Cycle!After(n) \in 0..(Ids - 1)
  BY CycleAssumption DEF CycleAssumption, Cycle!IdsAssumption, Cycle!After
<1> USE DEF Cycle!listeners, Cycle!statuses, Cycle!Top
<1>1. CASE Cycle!CloseDone
  <2>1. Cycle!TypeOK'
    BY <1>0, <1>1 DEF CycleInv, Cycle!TypeOK, Cycle!CloseDone
  <2>2. OneTrigger'
    BY <1>1 DEF CycleInv, OneTrigger, Cycle!TypeOK, Cycle!CloseDone, AtKick, AtLoop,
       AtMulticast, AtAfterDone
  <2>3. RecorderIsBegun' /\ StableIsPrevious'
    BY <1>1 DEF CycleInv, Cycle!TypeOK, RecorderIsBegun, StableIsPrevious,
       Cycle!StableIsPrevious, Cycle!CloseDone
  <2> QED
    BY <2>1, <2>2, <2>3 DEF CycleInv
<1>2. CASE Cycle!ReceiveTrigger
  <2>1. Cycle!TypeOK'
    BY <1>0, <1>2 DEF CycleInv, Cycle!TypeOK, Cycle!ReceiveTrigger
  <2>2. OneTrigger'
    BY <1>2 DEF CycleInv, OneTrigger, Cycle!TypeOK, Cycle!ReceiveTrigger, AtKick,
       AtLoop, AtMulticast, AtAfterDone
  <2>3. RecorderIsBegun' /\ StableIsPrevious'
    BY <1>2 DEF CycleInv, Cycle!TypeOK, RecorderIsBegun, StableIsPrevious,
       Cycle!StableIsPrevious, Cycle!ReceiveTrigger
  <2> QED
    BY <2>1, <2>2, <2>3 DEF CycleInv
<1>3. CASE Cycle!LoopEnds
  <2>1. Cycle!TypeOK'
    BY <1>0, <1>3 DEF CycleInv, Cycle!TypeOK, Cycle!LoopEnds
  <2>2. OneTrigger'
    BY <1>3 DEF CycleInv, OneTrigger, Cycle!TypeOK, Cycle!LoopEnds, AtKick, AtLoop,
       AtMulticast, AtAfterDone
  <2>3. RecorderIsBegun' /\ StableIsPrevious'
    BY <1>3 DEF CycleInv, Cycle!TypeOK, RecorderIsBegun, StableIsPrevious,
       Cycle!StableIsPrevious, Cycle!LoopEnds
  <2> QED
    BY <2>1, <2>2, <2>3 DEF CycleInv
<1>4. CASE Cycle!ResolveOnce
  <2>1. Cycle!TypeOK'
    BY <1>0, <1>4 DEF CycleInv, Cycle!TypeOK, Cycle!ResolveOnce
  <2>2. OneTrigger'
    BY <1>4 DEF CycleInv, OneTrigger, Cycle!TypeOK, Cycle!ResolveOnce, AtKick, AtLoop,
       AtMulticast, AtAfterDone
  <2>3. RecorderIsBegun' /\ StableIsPrevious'
    BY <1>4 DEF CycleInv, Cycle!TypeOK, RecorderIsBegun, StableIsPrevious,
       Cycle!StableIsPrevious, Cycle!ResolveOnce
  <2> QED
    BY <2>1, <2>2, <2>3 DEF CycleInv
<1>5. CASE Cycle!ReadFails
  <2>1. Cycle!TypeOK'
    BY <1>0, <1>5 DEF CycleInv, Cycle!TypeOK, Cycle!ReadFails
  <2>2. OneTrigger'
    BY <1>5 DEF CycleInv, OneTrigger, Cycle!TypeOK, Cycle!ReadFails, AtKick, AtLoop,
       AtMulticast, AtAfterDone
  <2>3. RecorderIsBegun' /\ StableIsPrevious'
    BY <1>5 DEF CycleInv, Cycle!TypeOK, RecorderIsBegun, StableIsPrevious,
       Cycle!StableIsPrevious, Cycle!ReadFails
  <2> QED
    BY <2>1, <2>2, <2>3 DEF CycleInv
<1>6. CASE Cycle!Begin
  <2>1. Cycle!TypeOK'
    BY <1>0, <1>6 DEF CycleInv, Cycle!TypeOK, Cycle!Begin
  <2>2. OneTrigger'
    BY <1>6 DEF CycleInv, OneTrigger, Cycle!TypeOK, Cycle!Begin, AtKick, AtLoop,
       AtMulticast, AtAfterDone
  <2>3. RecorderIsBegun' /\ StableIsPrevious'
    BY <1>6 DEF CycleInv, Cycle!TypeOK, RecorderIsBegun, StableIsPrevious,
       Cycle!StableIsPrevious, Cycle!Begin
  <2> QED
    BY <2>1, <2>2, <2>3 DEF CycleInv
<1>7. CASE Cycle!ResolveFinishes
  <2>1. Cycle!TypeOK'
    BY <1>0, <1>7 DEF CycleInv, Cycle!TypeOK, Cycle!ResolveFinishes
  <2>2. OneTrigger'
    BY <1>7 DEF CycleInv, OneTrigger, Cycle!TypeOK, Cycle!ResolveFinishes, AtKick,
       AtLoop, AtMulticast, AtAfterDone
  <2>3. RecorderIsBegun' /\ StableIsPrevious'
    BY <1>7 DEF CycleInv, Cycle!TypeOK, RecorderIsBegun, StableIsPrevious,
       Cycle!StableIsPrevious, Cycle!ResolveFinishes
  <2> QED
    BY <2>1, <2>2, <2>3 DEF CycleInv
<1>8. CASE Cycle!WaitReturns
  <2>1. Cycle!TypeOK'
    BY <1>0, <1>8 DEF CycleInv, Cycle!TypeOK, Cycle!WaitReturns
  <2>2. OneTrigger'
    BY <1>8 DEF CycleInv, OneTrigger, Cycle!TypeOK, Cycle!WaitReturns, AtKick, AtLoop,
       AtMulticast, AtAfterDone
  <2>3. RecorderIsBegun' /\ StableIsPrevious'
    BY <1>8 DEF CycleInv, Cycle!TypeOK, RecorderIsBegun, StableIsPrevious,
       Cycle!StableIsPrevious, Cycle!WaitReturns
  <2> QED
    BY <2>1, <2>2, <2>3 DEF CycleInv
<1>9. CASE Cycle!Announce
  <2>1. Cycle!TypeOK'
    BY <1>0, <1>9 DEF CycleInv, Cycle!TypeOK, Cycle!Announce
  <2>2. OneTrigger'
    BY <1>9 DEF CycleInv, OneTrigger, Cycle!TypeOK, Cycle!Announce, AtKick, AtLoop,
       AtMulticast, AtAfterDone
  <2>3. RecorderIsBegun' /\ StableIsPrevious'
    BY <1>9 DEF CycleInv, Cycle!TypeOK, RecorderIsBegun, StableIsPrevious,
       Cycle!StableIsPrevious, Cycle!Announce
  <2> QED
    BY <2>1, <2>2, <2>3 DEF CycleInv
<1>10. CASE Cycle!StoreStable
  <2>1. Cycle!TypeOK'
    BY <1>0, <1>10 DEF CycleInv, Cycle!TypeOK, Cycle!StoreStable, Cycle!CurrentStatus,
       Cycle!Status, RecorderIsBegun
  <2>2. OneTrigger'
    BY <1>10 DEF CycleInv, OneTrigger, Cycle!TypeOK, Cycle!StoreStable, AtKick,
       AtLoop, AtMulticast, AtAfterDone
  <2>3. RecorderIsBegun' /\ StableIsPrevious'
    BY <1>10 DEF CycleInv, Cycle!TypeOK, RecorderIsBegun, StableIsPrevious,
       Cycle!StableIsPrevious, Cycle!StoreStable, Cycle!CurrentStatus, Cycle!NoStatus
  <2> QED
    BY <2>1, <2>2, <2>3 DEF CycleInv
<1>11. CASE Cycle!Report
  <2>1. Cycle!TypeOK'
    BY <1>0, <1>11 DEF CycleInv, Cycle!TypeOK, Cycle!Report, Cycle!CurrentStatus,
       Cycle!Status, RecorderIsBegun
  <2>2. OneTrigger'
    BY <1>11 DEF CycleInv, OneTrigger, Cycle!TypeOK, Cycle!Report, AtKick, AtLoop,
       AtMulticast, AtAfterDone
  <2>3. RecorderIsBegun' /\ StableIsPrevious'
    BY <1>11 DEF CycleInv, Cycle!TypeOK, RecorderIsBegun, StableIsPrevious,
       Cycle!StableIsPrevious, Cycle!Report
  <2> QED
    BY <2>1, <2>2, <2>3 DEF CycleInv
<1>12. CASE Cycle!ClearRecorder
  <2>1. Cycle!TypeOK'
    BY <1>0, <1>12 DEF CycleInv, Cycle!TypeOK, Cycle!ClearRecorder
  <2>2. OneTrigger'
    BY <1>12 DEF CycleInv, OneTrigger, Cycle!TypeOK, Cycle!ClearRecorder, AtKick,
       AtLoop, AtMulticast, AtAfterDone
  <2>3. RecorderIsBegun' /\ StableIsPrevious'
    BY <1>12 DEF CycleInv, Cycle!TypeOK, RecorderIsBegun, StableIsPrevious,
       Cycle!StableIsPrevious, Cycle!ClearRecorder
  <2> QED
    BY <2>1, <2>2, <2>3 DEF CycleInv
<1>13. CASE Cycle!TellAfterDone
  <2>1. Cycle!TypeOK'
    BY <1>0, <1>13 DEF CycleInv, Cycle!TypeOK, Cycle!TellAfterDone
  <2>2. OneTrigger'
    BY <1>13 DEF CycleInv, OneTrigger, Cycle!TypeOK, Cycle!TellAfterDone, AtKick,
       AtLoop, AtMulticast, AtAfterDone
  <2>3. RecorderIsBegun' /\ StableIsPrevious'
    BY <1>13 DEF CycleInv, Cycle!TypeOK, RecorderIsBegun, StableIsPrevious,
       Cycle!StableIsPrevious, Cycle!TellAfterDone
  <2> QED
    BY <2>1, <2>2, <2>3 DEF CycleInv
<1>14. CASE Cycle!TellErrorLogging
  <2>1. Cycle!TypeOK'
    BY <1>0, <1>14 DEF CycleInv, Cycle!TypeOK, Cycle!TellErrorLogging
  <2>2. OneTrigger'
    BY <1>14 DEF CycleInv, OneTrigger, Cycle!TypeOK, Cycle!TellErrorLogging, AtKick,
       AtLoop, AtMulticast, AtAfterDone
  <2>3. RecorderIsBegun' /\ StableIsPrevious'
    BY <1>14 DEF CycleInv, Cycle!TypeOK, RecorderIsBegun, StableIsPrevious,
       Cycle!StableIsPrevious, Cycle!TellErrorLogging
  <2> QED
    BY <2>1, <2>2, <2>3 DEF CycleInv
<1>15. CASE Cycle!MulticastEnds
  <2>1. Cycle!TypeOK'
    BY <1>0, <1>15 DEF CycleInv, Cycle!TypeOK, Cycle!MulticastEnds
  <2>2. OneTrigger'
    BY <1>15 DEF CycleInv, OneTrigger, Cycle!TypeOK, Cycle!MulticastEnds, AtKick,
       AtLoop, AtMulticast, AtAfterDone
  <2>3. RecorderIsBegun' /\ StableIsPrevious'
    BY <1>15 DEF CycleInv, Cycle!TypeOK, RecorderIsBegun, StableIsPrevious,
       Cycle!StableIsPrevious, Cycle!MulticastEnds
  <2> QED
    BY <2>1, <2>2, <2>3 DEF CycleInv
<1>16. CASE Cycle!Wake
  <2>1. Cycle!TypeOK'
    BY <1>0, <1>16 DEF CycleInv, Cycle!TypeOK, Cycle!Wake
  <2>2. OneTrigger'
    BY <1>16 DEF CycleInv, OneTrigger, Cycle!TypeOK, Cycle!Wake, AtKick, AtLoop,
       AtMulticast, AtAfterDone
  <2>3. RecorderIsBegun' /\ StableIsPrevious'
    BY <1>16 DEF CycleInv, Cycle!TypeOK, RecorderIsBegun, StableIsPrevious,
       Cycle!StableIsPrevious, Cycle!Wake
  <2> QED
    BY <2>1, <2>2, <2>3 DEF CycleInv
<1>17. CASE Cycle!AfterDoneEnds
  <2>1. Cycle!TypeOK'
    BY <1>0, <1>17 DEF CycleInv, Cycle!TypeOK, Cycle!AfterDoneEnds
  <2>2. OneTrigger'
    BY <1>17 DEF CycleInv, OneTrigger, Cycle!TypeOK, Cycle!AfterDoneEnds, AtKick,
       AtLoop, AtMulticast, AtAfterDone
  <2>3. RecorderIsBegun' /\ StableIsPrevious'
    BY <1>17 DEF CycleInv, Cycle!TypeOK, RecorderIsBegun, StableIsPrevious,
       Cycle!StableIsPrevious, Cycle!AfterDoneEnds
  <2> QED
    BY <2>1, <2>2, <2>3 DEF CycleInv
<1>18. CASE Cycle!ErrorLoggingEnds
  <2>1. Cycle!TypeOK'
    BY <1>0, <1>18 DEF CycleInv, Cycle!TypeOK, Cycle!ErrorLoggingEnds
  <2>2. OneTrigger'
    BY <1>18 DEF CycleInv, OneTrigger, Cycle!TypeOK, Cycle!ErrorLoggingEnds, AtKick,
       AtLoop, AtMulticast, AtAfterDone
  <2>3. RecorderIsBegun' /\ StableIsPrevious'
    BY <1>18 DEF CycleInv, Cycle!TypeOK, RecorderIsBegun, StableIsPrevious,
       Cycle!StableIsPrevious, Cycle!ErrorLoggingEnds
  <2> QED
    BY <2>1, <2>2, <2>3 DEF CycleInv
<1>19. ASSUME NEW r \in Readers, Cycle!ReaderStep(r)
       PROVE  CycleInv'
  <2>1. Cycle!TypeOK'
    BY <1>0, <1>19 DEF CycleInv, Cycle!TypeOK, Cycle!CurrentStatus, Cycle!Status,
       Cycle!ReaderStep, Cycle!StatusesCheck, Cycle!UpdateStatus, Cycle!StatusesReply
  <2>2. OneTrigger' /\ RecorderIsBegun' /\ StableIsPrevious'
    BY <1>19 DEF CycleInv, OneTrigger, AtKick, AtLoop, AtMulticast, AtAfterDone,
       RecorderIsBegun, StableIsPrevious, Cycle!StableIsPrevious, Cycle!NoStatus,
       Cycle!ReaderStep, Cycle!StatusesCheck, Cycle!UpdateStatus, Cycle!StatusesReply
  <2> QED
    BY <2>1, <2>2 DEF CycleInv
<1>20. CASE UNCHANGED cycleVars
  BY <1>20 DEF CycleInv, OneTrigger, AtKick, AtLoop, AtMulticast, AtAfterDone,
     RecorderIsBegun, StableIsPrevious, Cycle!StableIsPrevious, Cycle!NoStatus,
     Cycle!TypeOK, cycleVars
<1> QED
  BY <1>1, <1>2, <1>3, <1>4, <1>5, <1>6, <1>7, <1>8, <1>9, <1>10, <1>11, <1>12, <1>13,
     <1>14, <1>15, <1>16, <1>17, <1>18, <1>19, <1>20 DEF Cycle!Next, Cycle!LoopStep,
     Cycle!MulticastStep, Cycle!AfterDoneStep

(* A set without two members has at most one.                               *)
LEMMA NoTwoMembers ==
    ASSUME NEW S, \A x, y \in S : x = y
    PROVE  Cardinality(S) <= 1
<1>1. CASE S = {}
  BY <1>1, FS_EmptySet
<1>2. CASE S # {}
  <2>1. PICK x : S = {x}
    BY <1>2
  <2> QED
    BY <2>1, FS_Singleton
<1> QED
  BY <1>1, <1>2

(* The layers count with the same Cardinality.                              *)
LEMMA SameCardinality ==
    ASSUME NEW S
    PROVE  /\ Cycle!Cardinality(S) = Cardinality(S)
           /\ Resolve!Cardinality(S) = Cardinality(S)
  BY DEF Cycle!Cardinality, Resolve!Cardinality, Cardinality

(* A layer that is not at work does not move, so each layer's variables     *)
(* only ever change by its own steps.                                       *)
LEMMA LayerSteps ==
    [Next]_vars => /\ [Cycle!Next]_cycleVars
                   /\ [Resolve!Next]_resolveVars
                   /\ [Pipe!Next]_pipeVars
  BY DEF Next, vars

(* The inductive invariant of the cycle, whatever else the server does.     *)
THEOREM CycleInvariance == Spec => []CycleInv
<1>1. Init => CycleInv
  BY CycleInit DEF Init
<1>2. CycleInv /\ [Next]_vars => CycleInv'
  BY CycleNext, LayerSteps
<1> QED
  BY <1>1, <1>2, PTL DEF Spec

(* One cycle at a time, and never none: the trigger that Kickoff sends      *)
(* (auto_resolver.go) is passed from goroutine to goroutine and is neither  *)
(* lost nor doubled, for any number of readers.                             *)
THEOREM OneCycleAlways == Spec => []OneCycle
<1>1. ASSUME CycleInv PROVE OneCycle
  <2>1. \A x, y \in Cycle!Triggers : x = y
    BY <1>1 DEF CycleInv, OneTrigger, AtKick, AtLoop, AtMulticast, AtAfterDone,
       Cycle!Triggers
  <2>2. ~done => Cycle!Triggers # {}
    <3> SUFFICES ASSUME ~done PROVE Cycle!Triggers # {}
      OBVIOUS
    <3>1. /\ AtKick => "kick" \in Cycle!Triggers
          /\ AtLoop => "loop" \in Cycle!Triggers
          /\ AtMulticast => "multicast" \in Cycle!Triggers
          /\ AtAfterDone => "afterDone" \in Cycle!Triggers
      BY DEF AtKick, AtLoop, AtMulticast, AtAfterDone, Cycle!Triggers
    <3> QED
      BY <1>1, <3>1 DEF CycleInv, OneTrigger
  <2>3. Cycle!Cardinality(Cycle!Triggers) <= 1
    <3>1. Cardinality(Cycle!Triggers) <= 1
      BY <2>1, NoTwoMembers
    <3> QED
      BY <3>1, SameCardinality
  <2>4. ~over => loop = "run"
    BY <1>1 DEF CycleInv, RecorderIsBegun
  <2> QED
    BY <2>2, <2>3, <2>4 DEF OneCycle, Cycle!OneCycle
<1> QED
  BY <1>1, CycleInvariance, PTL

(* What GET /status shows as stable is of the last resolve that can have    *)
(* finished (AutoResolver.resolveOnce), never of an older one or of one     *)
(* that is under way.                                                       *)
THEOREM StableIsPreviousAlways == Spec => []StableIsPrevious
<1>1. CycleInv => StableIsPrevious
  BY DEF CycleInv
<1> QED
  BY <1>1, CycleInvariance, PTL

----------------------------------------------------------------------------
(* One resolve (lib/resolver.go, lib/resolvestatus.go).                     *)

(* What each phase of the main goroutine has waited for.                    *)
PhasesInOrder ==
    /\ logClosed => main \in {"finish", "done"}
    /\ main \in {"errors", "close", "finish", "done"} =>
          \A d \in Deps : waiter[d] \in {"none", "done"}
    /\ main \in {"close", "finish", "done"} => errsClosed
    /\ errsClosed => forwarder = Resolve!NoEntry

(* A pair comes out of the pipeline once; one that has a waiter came out of *)
(* Pairs, the one in the forwarder's hand out of Errs.                      *)
OutOnce ==
    /\ passed \cap failed = {}
    /\ pending \cap (passed \cup failed) = {}
    /\ \A d \in Deps : waiter[d] # "none" => d \in passed
    /\ forwarder # Resolve!NoEntry => forwarder.dep \in failed

(* The places an entry can be, and what it is before there is one.          *)
Held(d) ==
    \/ waiter[d] \in {"wait", "send"}
    \/ forwarder # Resolve!NoEntry /\ forwarder.dep = d
InLog(d) == \E n \in 1..Len(log) : log[n].dep = d
InHand(d) == drain # Resolve!NoEntry /\ drain.dep = d
InStatus(d) == \E e \in recorded : e.dep = d

(* A deployment to be reported is in one of them, once, and no other is in  *)
(* any.                                                                     *)
OnePlace ==
    /\ \A m, n \in 1..Len(log) : log[m].dep = log[n].dep => m = n
    /\ \A e, f \in recorded : e.dep = f.dep => e = f
    /\ \A d \in Deps :
          /\ Held(d) => ~InLog(d) /\ ~InHand(d) /\ ~InStatus(d)
          /\ InLog(d) => ~InHand(d) /\ ~InStatus(d)
          /\ InHand(d) => ~InStatus(d)
          /\ d \in failed \/ waiter[d] # "none" <=>
                Held(d) \/ InLog(d) \/ InHand(d) \/ InStatus(d)

ResolveInv ==
    /\ Resolve!TypeOK
    /\ PhasesInOrder
    /\ OutOnce
    /\ OnePlace

(* Log as a channel: what a send and a receive do to what is in it.         *)
LEMMA LogSend ==
    ASSUME Resolve!TypeOK, OnePlace, NEW e \in Resolve!Entries,
           ~InLog(e.dep), log' = Append(log, e)
    PROVE  /\ log' \in Seq(Resolve!Entries) /\ Len(log') = Len(log) + 1
           /\ \A m, n \in 1..Len(log') : log'[m].dep = log'[n].dep => m = n
           /\ \A d \in Deps : InLog(d)' <=> InLog(d) \/ e.dep = d
<1>1. log \in Seq(Resolve!Entries)
  BY DEF Resolve!TypeOK
<1>2. /\ log' \in Seq(Resolve!Entries) /\ Len(log') = Len(log) + 1
      /\ \A n \in 1..Len(log) : log'[n] = log[n]
      /\ log'[Len(log) + 1] = e
  BY <1>1
<1>3. 1..Len(log') = 1..Len(log) \cup {Len(log) + 1}
  BY <1>1, <1>2
<1>4. \A m, n \in 1..Len(log') : log'[m].dep = log'[n].dep => m = n
  BY <1>2, <1>3 DEF OnePlace, InLog
<1>5. \A d \in Deps : InLog(d)' <=> InLog(d) \/ e.dep = d
  BY <1>2, <1>3 DEF InLog
<1> QED
  BY <1>2, <1>4, <1>5

(* The recorder takes the first entry, and its deployment is in the log no  *)
(* more.                                                                    *)
LEMMA LogReceive ==
    ASSUME Resolve!TypeOK, OnePlace, log # <<>>, log' = Tail(log)
    PROVE  /\ log' \in Seq(Resolve!Entries) /\ Len(log') = Len(log) - 1
           /\ Head(log) \in Resolve!Entries
           /\ \A m, n \in 1..Len(log') : log'[m].dep = log'[n].dep => m = n
           /\ \A d \in Deps : InLog(d) <=> InLog(d)' \/ Head(log).dep = d
           /\ \A d \in Deps : Head(log).dep = d => ~InLog(d)'
<1>1. log \in Seq(Resolve!Entries)
  BY DEF Resolve!TypeOK
<1>2. /\ log' \in Seq(Resolve!Entries) /\ Len(log') = Len(log) - 1
      /\ Head(log) = log[1] /\ Head(log) \in Resolve!Entries
      /\ \A n \in 1..Len(log') : log'[n] = log[n + 1]
      /\ Len(log) \in Nat \ {0}
  BY <1>1
<1>3. \A n \in 1..Len(log') : n + 1 \in 1..Len(log) /\ n + 1 # 1
  BY <1>2
<1>4. \A n \in 1..Len(log) : n # 1 => n - 1 \in 1..Len(log') /\ log'[n - 1] = log[n]
  BY <1>2
<1>5. \A m, n \in 1..Len(log') : log'[m].dep = log'[n].dep => m = n
  <2> SUFFICES ASSUME NEW m \in 1..Len(log'), NEW n \in 1..Len(log'),
                      log'[m].dep = log'[n].dep
               PROVE  m = n
    OBVIOUS
  <2>1. m + 1 = n + 1
    BY <1>2, <1>3 DEF OnePlace
  <2> QED
    BY <1>2, <2>1
<1>6. \A d \in Deps : InLog(d) <=> InLog(d)' \/ Head(log).dep = d
  <2> SUFFICES ASSUME NEW d \in Deps PROVE InLog(d) <=> InLog(d)' \/ Head(log).dep = d
    OBVIOUS
  <2>1. InLog(d)' => InLog(d)
    BY <1>2, <1>3 DEF InLog
  <2>2. InLog(d) => InLog(d)' \/ Head(log).dep = d
    BY <1>2, <1>4 DEF InLog
  <2> QED
    BY <1>2, <2>1, <2>2 DEF InLog
<1>7. \A d \in Deps : Head(log).dep = d => ~InLog(d)'
  <2> SUFFICES ASSUME NEW n \in 1..Len(log'), log'[n].dep = log[1].dep PROVE FALSE
    BY <1>2 DEF InLog
  <2>1. n + 1 = 1
    BY <1>2, <1>3 DEF OnePlace
  <2> QED
    BY <1>3, <2>1
<1> QED
  BY <1>2, <1>5, <1>6, <1>7

(* An entry is not NoEntry, and has a deployment.                           *)
LEMMA EntriesAre ==
    /\ Resolve!NoEntry \notin Resolve!Entries
    /\ \A e \in Resolve!Entries : e.dep \in Deps
    /\ \A d \in Deps, b \in BOOLEAN : [dep |-> d, error |-> b] \in Resolve!Entries
  BY ResolveAssumption DEF ResolveAssumption, Resolve!DepsAssumption, Resolve!NoEntry,
     Resolve!Entries

(* A resolve begins with nothing out of the pipeline and nothing to report. *)
LEMMA ResolveInit == Resolve!Init => ResolveInv
<1> SUFFICES ASSUME Resolve!Init PROVE ResolveInv
  OBVIOUS
<1>0. LogCap \in Nat
  BY ResolveAssumption DEF ResolveAssumption, Resolve!LogCapAssumption
<1>1. Resolve!TypeOK
  <2>1. log \in Seq(Resolve!Entries) /\ Len(log) <= LogCap
    BY <1>0 DEF Resolve!Init
  <2>2. {pending, passed, failed} \subseteq SUBSET Deps
    BY DEF Resolve!Init, Resolve!Stream!StreamInit
  <2> QED
    BY <2>1, <2>2, Zenon DEF Resolve!Init, Resolve!TypeOK, Resolve!Stream!StreamInit
<1>2. PhasesInOrder /\ OutOnce
  BY DEF Resolve!Init, Resolve!Stream!StreamInit, PhasesInOrder, OutOnce
<1>3. OnePlace
  BY DEF Resolve!Init, Resolve!Stream!StreamInit, OnePlace, Held, InLog, InHand, InStatus
<1> QED
  BY <1>1, <1>2, <1>3 DEF ResolveInv

(* Every step of a resolve's goroutines preserves ResolveInv.               *)
LEMMA ResolveNext == ResolveInv /\ [Resolve!Next]_resolveVars => ResolveInv'
<1> SUFFICES ASSUME ResolveInv, [Resolve!Next]_resolveVars PROVE ResolveInv'
  OBVIOUS
<1>t. Resolve!TypeOK /\ PhasesInOrder /\ OutOnce /\ OnePlace
  BY DEF ResolveInv
<1>0. LogCap \in Nat \ {0}
  BY ResolveAssumption DEF ResolveAssumption, Resolve!LogCapAssumption
<1> USE DEF Resolve!stream, Resolve!given, Resolve!workers, Resolve!recorder
<1>1. CASE Resolve!RunningDeployments
  <2>1. Resolve!TypeOK'
    BY <1>t, <1>1 DEF Resolve!TypeOK, Resolve!RunningDeployments
  <2>2. PhasesInOrder' /\ OutOnce'
    BY <1>t, <1>1 DEF Resolve!TypeOK, PhasesInOrder, OutOnce,
       Resolve!RunningDeployments
  <2>3. OnePlace'
    BY <1>t, <1>1 DEF Resolve!TypeOK, OnePlace, Resolve!RunningDeployments, Held,
       InLog, InHand, InStatus
  <2> QED
    BY <2>1, <2>2, <2>3 DEF ResolveInv
<1>2. CASE Resolve!RunningDeploymentsFails
  <2>1. Resolve!TypeOK'
    BY <1>t, <1>2 DEF Resolve!TypeOK, Resolve!RunningDeploymentsFails
  <2>2. PhasesInOrder' /\ OutOnce'
    BY <1>t, <1>2 DEF Resolve!TypeOK, PhasesInOrder, OutOnce,
       Resolve!RunningDeploymentsFails
  <2>3. OnePlace'
    BY <1>t, <1>2 DEF Resolve!TypeOK, OnePlace, Resolve!RunningDeploymentsFails, Held,
       InLog, InHand, InStatus
  <2> QED
    BY <2>1, <2>2, <2>3 DEF ResolveInv
<1>3. CASE Resolve!QueueDiffs
  <2>1. PICK d \in Deps :
          /\ Resolve!Stream!Pass(d)
          /\ waiter' = waiter \/ waiter' = [waiter EXCEPT ![d] = "wait"]
    BY <1>3 DEF Resolve!QueueDiffs
  <2>2. Resolve!TypeOK'
    BY <1>t, <1>3, <2>1 DEF Resolve!TypeOK, Resolve!QueueDiffs, Resolve!Stream!Pass
  <2>3. d \in pending /\ d \notin failed /\ waiter[d] = "none"
    BY <1>t, <2>1 DEF OutOnce, Resolve!Stream!Pass
  <2>4. PhasesInOrder' /\ OutOnce'
    BY <1>t, <1>3, <2>1, <2>3 DEF Resolve!TypeOK, PhasesInOrder, OutOnce,
       Resolve!QueueDiffs, Resolve!Stream!Pass
  <2>5. OnePlace'
    <3>1. UNCHANGED <<failed, forwarder, log, drain, recorded>>
      BY <1>3, <2>1 DEF Resolve!QueueDiffs, Resolve!Stream!Pass
    <3>2. CASE waiter' = waiter
      BY <1>t, <3>1, <3>2 DEF OnePlace, Held, InLog, InHand, InStatus
    <3>3. CASE waiter' = [waiter EXCEPT ![d] = "wait"]
      <4>1. ~Held(d) /\ ~InLog(d) /\ ~InHand(d) /\ ~InStatus(d)
        BY <1>t, <2>3 DEF OnePlace
      <4>2. /\ \A o \in Deps : Held(o)' <=> Held(o) \/ o = d
            /\ \A o \in Deps : InLog(o)' <=> InLog(o)
            /\ \A o \in Deps : InHand(o)' <=> InHand(o)
            /\ \A o \in Deps : InStatus(o)' <=> InStatus(o)
        BY <1>t, <3>1, <3>3 DEF Resolve!TypeOK, Held, InLog, InHand, InStatus
      <4>3. \A o \in Deps : waiter'[o] # "none" <=> waiter[o] # "none" \/ o = d
        BY <1>t, <2>3, <3>3 DEF Resolve!TypeOK
      <4>4. ASSUME NEW o \in Deps
            PROVE  /\ Held(o)' => ~InLog(o)' /\ ~InHand(o)' /\ ~InStatus(o)'
                   /\ InLog(o)' => ~InHand(o)' /\ ~InStatus(o)'
                   /\ InHand(o)' => ~InStatus(o)'
                   /\ o \in failed' \/ waiter'[o] # "none" <=>
                         Held(o)' \/ InLog(o)' \/ InHand(o)' \/ InStatus(o)'
        <5>1. /\ Held(o) => ~InLog(o) /\ ~InHand(o) /\ ~InStatus(o)
              /\ InLog(o) => ~InHand(o) /\ ~InStatus(o)
              /\ InHand(o) => ~InStatus(o)
              /\ o \in failed \/ waiter[o] # "none" <=>
                    Held(o) \/ InLog(o) \/ InHand(o) \/ InStatus(o)
          BY <1>t DEF OnePlace
        <5>2. /\ Held(o)' <=> Held(o) \/ o = d
              /\ InLog(o)' <=> InLog(o)
              /\ InHand(o)' <=> InHand(o)
              /\ InStatus(o)' <=> InStatus(o)
          BY <4>2
        <5>3. /\ failed' = failed
              /\ waiter'[o] # "none" <=> waiter[o] # "none" \/ o = d
          BY <3>1, <4>3
        <5> QED BY <4>1, <5>1, <5>2, <5>3
      <4> QED BY <1>t, <3>1, <4>4 DEF OnePlace, InLog
    <3> QED BY <2>1, <3>2, <3>3
  <2> QED
    BY <2>2, <2>4, <2>5 DEF ResolveInv
<1>4. CASE Resolve!QueueDiffsEnds
  <2>1. Resolve!TypeOK'
    BY <1>t, <1>4 DEF Resolve!TypeOK, Resolve!QueueDiffsEnds,
       Resolve!Stream!ClosePairs
  <2>2. PhasesInOrder' /\ OutOnce'
    BY <1>t, <1>4 DEF Resolve!TypeOK, PhasesInOrder, OutOnce, Resolve!QueueDiffsEnds,
       Resolve!Stream!ClosePairs
  <2>3. OnePlace'
    BY <1>t, <1>4 DEF Resolve!TypeOK, OnePlace, Resolve!QueueDiffsEnds, Held, InLog,
       InHand, InStatus, Resolve!Stream!ClosePairs
  <2> QED
    BY <2>1, <2>2, <2>3 DEF ResolveInv
<1>5. CASE Resolve!WaitForWaiters
  <2>1. Resolve!TypeOK'
    BY <1>t, <1>5 DEF Resolve!TypeOK, Resolve!WaitForWaiters, Resolve!WaitersDone
  <2>2. PhasesInOrder' /\ OutOnce'
    BY <1>t, <1>5 DEF Resolve!TypeOK, PhasesInOrder, OutOnce, Resolve!WaitForWaiters,
       Resolve!WaitersDone
  <2>3. OnePlace'
    BY <1>t, <1>5 DEF Resolve!TypeOK, OnePlace, Resolve!WaitForWaiters, Held, InLog,
       InHand, InStatus, Resolve!WaitersDone
  <2> QED
    BY <2>1, <2>2, <2>3 DEF ResolveInv
<1>6. CASE Resolve!WaitForForwarder
  <2>1. Resolve!TypeOK'
    BY <1>t, <1>6 DEF Resolve!TypeOK, Resolve!WaitForForwarder
  <2>2. PhasesInOrder' /\ OutOnce'
    BY <1>t, <1>6 DEF Resolve!TypeOK, PhasesInOrder, OutOnce, Resolve!WaitForForwarder
  <2>3. OnePlace'
    BY <1>t, <1>6 DEF Resolve!TypeOK, OnePlace, Resolve!WaitForForwarder, Held, InLog,
       InHand, InStatus
  <2> QED
    BY <2>1, <2>2, <2>3 DEF ResolveInv
<1>7. CASE Resolve!CloseLog
  <2>1. Resolve!TypeOK'
    BY <1>t, <1>7 DEF Resolve!TypeOK, Resolve!CloseLog
  <2>2. PhasesInOrder' /\ OutOnce'
    BY <1>t, <1>7 DEF Resolve!TypeOK, PhasesInOrder, OutOnce, Resolve!CloseLog
  <2>3. OnePlace'
    BY <1>t, <1>7 DEF Resolve!TypeOK, OnePlace, Resolve!CloseLog, Held, InLog, InHand,
       InStatus
  <2> QED
    BY <2>1, <2>2, <2>3 DEF ResolveInv
<1>8. CASE Resolve!MainFinishes
  <2>1. Resolve!TypeOK'
    BY <1>t, <1>8 DEF Resolve!TypeOK, Resolve!MainFinishes
  <2>2. PhasesInOrder' /\ OutOnce'
    BY <1>t, <1>8 DEF Resolve!TypeOK, PhasesInOrder, OutOnce, Resolve!MainFinishes
  <2>3. OnePlace'
    BY <1>t, <1>8 DEF Resolve!TypeOK, OnePlace, Resolve!MainFinishes, Held, InLog,
       InHand, InStatus
  <2> QED
    BY <2>1, <2>2, <2>3 DEF ResolveInv
<1>9. CASE Resolve!ForwardErr
  <2>1. PICK d \in Deps :
          Resolve!Stream!Fail(d) /\ forwarder' = [dep |-> d, error |-> TRUE]
    BY <1>9 DEF Resolve!ForwardErr
  <2>2. forwarder' \in Resolve!Entries /\ forwarder' # Resolve!NoEntry /\ forwarder'.dep = d
    BY <2>1, EntriesAre
  <2>3. Resolve!TypeOK'
    BY <1>t, <1>9, <2>1, <2>2 DEF Resolve!TypeOK, Resolve!ForwardErr, Resolve!Stream!Fail
  <2>4. d \in pending /\ d \notin failed /\ d \notin passed /\ waiter[d] = "none"
    BY <1>t, <2>1 DEF OutOnce, Resolve!Stream!Fail
  <2>5. PhasesInOrder' /\ OutOnce'
    BY <1>t, <1>9, <2>1, <2>2, <2>4 DEF Resolve!TypeOK, PhasesInOrder, OutOnce,
       Resolve!ForwardErr, Resolve!Stream!Fail
  <2>6. OnePlace'
    BY <1>t, <1>9, <2>1, <2>2, <2>4 DEF Resolve!TypeOK, OnePlace, Held, InLog, InHand,
       InStatus, Resolve!ForwardErr, Resolve!Stream!Fail
  <2> QED
    BY <2>3, <2>5, <2>6 DEF ResolveInv
<1>10. CASE Resolve!ForwarderSend
  <2>1. forwarder \in Resolve!Entries /\ forwarder.dep \in Deps /\ Held(forwarder.dep)
    BY <1>t, <1>10, EntriesAre DEF Resolve!TypeOK, Resolve!ForwarderSend, Held
  <2>2. /\ log' = Append(log, forwarder) /\ Len(log) < LogCap /\ ~InLog(forwarder.dep)
        /\ waiter[forwarder.dep] \notin {"wait", "send"}
    <3>1. log' = Append(log, forwarder) /\ Len(log) < LogCap
      BY <1>10 DEF Resolve!ForwarderSend, Resolve!SendLog
    <3> QED
      BY <1>t, <1>10, <2>1, <3>1 DEF Resolve!TypeOK, OnePlace, OutOnce,
         Resolve!ForwarderSend
  <2>3. /\ log' \in Seq(Resolve!Entries) /\ Len(log') = Len(log) + 1
        /\ \A m, n \in 1..Len(log') : log'[m].dep = log'[n].dep => m = n
        /\ \A d \in Deps : InLog(d)' <=> InLog(d) \/ forwarder.dep = d
    BY <1>t, <2>1, <2>2, LogSend
  <2>4. Resolve!TypeOK'
    BY <1>0, <1>t, <1>10, <2>2, <2>3 DEF Resolve!TypeOK, Resolve!ForwarderSend
  <2>5. PhasesInOrder' /\ OutOnce'
    BY <1>t, <1>10 DEF PhasesInOrder, OutOnce, Resolve!ForwarderSend
  <2>6. OnePlace'
    BY <1>t, <1>10, <2>1, <2>2, <2>3 DEF OnePlace, Held, InHand, InStatus,
       Resolve!ForwarderSend
  <2> QED
    BY <2>4, <2>5, <2>6 DEF ResolveInv
<1>11. CASE Resolve!ForwarderEnds
  <2>1. Resolve!TypeOK'
    BY <1>t, <1>11 DEF Resolve!TypeOK, Resolve!ForwarderEnds, Resolve!Stream!CloseErrs
  <2>2. PhasesInOrder' /\ OutOnce'
    BY <1>t, <1>11 DEF Resolve!TypeOK, PhasesInOrder, OutOnce, Resolve!ForwarderEnds,
       Resolve!Stream!CloseErrs
  <2>3. OnePlace'
    BY <1>t, <1>11 DEF Resolve!TypeOK, OnePlace, Resolve!ForwarderEnds, Held, InLog,
       InHand, InStatus, Resolve!Stream!CloseErrs
  <2> QED
    BY <2>1, <2>2, <2>3 DEF ResolveInv
<1>12. ASSUME NEW d \in Deps, Resolve!WaitReturns(d)
      PROVE  ResolveInv'
  <2>1. Resolve!TypeOK'
    BY <1>t, <1>12 DEF Resolve!TypeOK, Resolve!WaitReturns
  <2>2. PhasesInOrder' /\ OutOnce'
    BY <1>t, <1>12 DEF Resolve!TypeOK, PhasesInOrder, OutOnce, Resolve!WaitReturns
  <2>3. OnePlace'
    BY <1>t, <1>12 DEF Resolve!TypeOK, OnePlace, Resolve!WaitReturns, Held, InLog,
       InHand, InStatus
  <2> QED
    BY <2>1, <2>2, <2>3 DEF ResolveInv
<1>13. ASSUME NEW d \in Deps, Resolve!WaiterSend(d)
      PROVE  ResolveInv'
  <2> DEFINE e == [dep |-> d, error |-> result[d]]
  <2>1. e \in Resolve!Entries /\ e.dep = d /\ Held(d) /\ ~InLog(d)
    BY <1>t, <1>13, EntriesAre DEF Resolve!TypeOK, Resolve!WaiterSend, Held, OnePlace
  <2>2. log' = Append(log, e) /\ Len(log) < LogCap
    BY <1>13 DEF Resolve!WaiterSend, Resolve!SendLog
  <2>3. /\ log' \in Seq(Resolve!Entries) /\ Len(log') = Len(log) + 1
        /\ \A m, n \in 1..Len(log') : log'[m].dep = log'[n].dep => m = n
        /\ \A x \in Deps : InLog(x)' <=> InLog(x) \/ d = x
    BY <1>t, <2>1, <2>2, LogSend
  <2> HIDE DEF e
  <2>4. forwarder # Resolve!NoEntry => forwarder.dep # d
    BY <1>t, <1>13, <2>1, EntriesAre DEF Resolve!WaiterSend, OnePlace, OutOnce, Held
  <2>5. Resolve!TypeOK'
    BY <1>0, <1>t, <1>13, <2>2, <2>3 DEF Resolve!TypeOK, Resolve!WaiterSend
  <2>6. PhasesInOrder' /\ OutOnce'
    BY <1>t, <1>13 DEF Resolve!TypeOK, PhasesInOrder, OutOnce, Resolve!WaiterSend
  <2>7. OnePlace'
    BY <1>t, <1>13, <2>1, <2>3, <2>4 DEF Resolve!TypeOK, OnePlace, Held, InHand, InStatus,
       Resolve!WaiterSend
  <2> QED
    BY <2>5, <2>6, <2>7 DEF ResolveInv
<1>14. CASE Resolve!DrainReceive
  <2>1. drain = Resolve!NoEntry /\ drain' = Head(log) /\ log # <<>> /\ log' = Tail(log)
    BY <1>14 DEF Resolve!DrainReceive
  <2>2. /\ log' \in Seq(Resolve!Entries) /\ Len(log') = Len(log) - 1
        /\ drain' \in Resolve!Entries /\ drain' # Resolve!NoEntry
        /\ \A m, n \in 1..Len(log') : log'[m].dep = log'[n].dep => m = n
        /\ \A d \in Deps : InLog(d) <=> InLog(d)' \/ drain'.dep = d
        /\ \A d \in Deps : drain'.dep = d => ~InLog(d)'
    BY <1>t, <2>1, LogReceive, EntriesAre
  <2>3. Resolve!TypeOK'
    BY <1>0, <1>t, <1>14, <2>2 DEF Resolve!TypeOK, Resolve!DrainReceive
  <2>4. PhasesInOrder' /\ OutOnce'
    BY <1>t, <1>14 DEF PhasesInOrder, OutOnce, Resolve!DrainReceive
  <2>5. OnePlace'
    BY <1>t, <1>14, <2>2 DEF OnePlace, Held, InHand, InStatus, Resolve!DrainReceive
  <2> QED
    BY <2>3, <2>4, <2>5 DEF ResolveInv
<1>15. CASE Resolve!DrainRecord
  <2>1. /\ drain \in Resolve!Entries /\ drain # Resolve!NoEntry /\ drain.dep \in Deps
        /\ recorded' = recorded \cup {drain} /\ drain' = Resolve!NoEntry
    BY <1>t, <1>15, EntriesAre DEF Resolve!TypeOK, Resolve!DrainRecord
  <2>2. Resolve!TypeOK'
    BY <1>t, <1>15, <2>1 DEF Resolve!TypeOK, Resolve!DrainRecord
  <2>3. PhasesInOrder' /\ OutOnce'
    BY <1>t, <1>15 DEF PhasesInOrder, OutOnce, Resolve!DrainRecord
  <2>4. InHand(drain.dep) /\ ~InStatus(drain.dep)
    BY <1>t, <2>1 DEF OnePlace, InHand
  <2>5. OnePlace'
    BY <1>t, <1>15, <2>1, <2>4 DEF OnePlace, Held, InLog, InHand, InStatus,
       Resolve!DrainRecord
  <2> QED
    BY <2>2, <2>3, <2>5 DEF ResolveInv
<1>16. CASE Resolve!TakeStable
  <2>1. Resolve!TypeOK'
    BY <1>t, <1>16 DEF Resolve!TypeOK, Resolve!TakeStable
  <2>2. PhasesInOrder' /\ OutOnce'
    BY <1>t, <1>16 DEF Resolve!TypeOK, PhasesInOrder, OutOnce, Resolve!TakeStable
  <2>3. OnePlace'
    BY <1>t, <1>16 DEF Resolve!TypeOK, OnePlace, Resolve!TakeStable, Held, InLog,
       InHand, InStatus
  <2> QED
    BY <2>1, <2>2, <2>3 DEF ResolveInv
<1>17. CASE UNCHANGED resolveVars
  <2>1. Resolve!TypeOK'
    BY <1>t, <1>17 DEF Resolve!TypeOK, resolveVars
  <2>2. PhasesInOrder' /\ OutOnce' /\ OnePlace'
    BY <1>t, <1>17 DEF PhasesInOrder, OutOnce, OnePlace, resolveVars, Held, InLog,
       InHand, InStatus
  <2> QED
    BY <2>1, <2>2 DEF ResolveInv
<1>18. CASE Resolve!Rest
  BY <1>17, <1>18 DEF Resolve!Rest, Resolve!vars, resolveVars
<1> QED
  BY <1>1, <1>2, <1>3, <1>4, <1>5, <1>6, <1>7, <1>8, <1>9, <1>10, <1>11, <1>12, <1>13,
     <1>14, <1>15, <1>16, <1>17, <1>18 DEF Resolve!Next, Resolve!Step,
     Resolve!MainStep, Resolve!ForwarderStep, Resolve!WaiterStep

(* A set without two members counts 1 for being inhabited.                  *)
LEMMA CountOfOne ==
    ASSUME NEW S, \A x, y \in S : x = y
    PROVE  Resolve!Cardinality(S) = IF S = {} THEN 0 ELSE 1
<1>1. CASE S = {}
  BY <1>1, FS_EmptySet, SameCardinality
<1>2. CASE S # {}
  <2>1. PICK x : S = {x}
    BY <1>2
  <2> QED
    BY <1>2, <2>1, FS_Singleton, SameCardinality
<1> QED
  BY <1>1, <1>2

(* The inductive invariant of a resolve.                                    *)
THEOREM ResolveInvariance == Spec => []ResolveInv
<1>1. Init => ResolveInv
  BY ResolveInit DEF Init
<1>2. ResolveInv /\ [Next]_vars => ResolveInv'
  BY ResolveNext, LayerSteps
<1> QED
  BY <1>1, <1>2, PTL DEF Spec

(* close(rr.Log) (resolvestatus.go:130) comes after the last send, for any  *)
(* number of deployments and any capacity of Log: both wait groups have     *)
(* been waited for, so no goroutine can panic by sending on a closed        *)
(* channel.                                                                 *)
THEOREM NoSendOnClosedAlways == Spec => []NoSendOnClosed
<1>1. ResolveInv => NoSendOnClosed
  BY DEF ResolveInv, PhasesInOrder, NoSendOnClosed, Resolve!NoSendOnClosed
<1> QED
  BY <1>1, ResolveInvariance, PTL

(* A deployment to be reported is with its goroutine or in exactly one      *)
(* entry, of Log, of the drain's hand or of the status: nothing that        *)
(* resolver.go sends is lost or doubled on its way to status.Log.           *)
THEOREM NothingLostAlways == Spec => []NothingLost
<1>1. ASSUME ResolveInv PROVE NothingLost
  <2> SUFFICES ASSUME NEW d \in Deps
               PROVE  Resolve!EntriesOf(d) =
                        IF d \in Resolve!Reported /\ ~Held(d) THEN 1 ELSE 0
    BY DEF NothingLost, Resolve!NothingLost, Held
  <2> DEFINE L == {n \in DOMAIN log : log[n].dep = d}
             H == {e \in {drain} \ {Resolve!NoEntry} : e.dep = d}
             R == {e \in recorded : e.dep = d}
  <2>1. log \in Seq(Resolve!Entries) /\ DOMAIN log = 1..Len(log)
    BY <1>1 DEF ResolveInv, Resolve!TypeOK
  <2>2. /\ (\A x, y \in L : x = y) /\ (L # {} <=> InLog(d))
        /\ (\A x, y \in H : x = y) /\ (H # {} <=> InHand(d))
        /\ (\A x, y \in R : x = y) /\ (R # {} <=> InStatus(d))
    <3>1. (\A x, y \in L : x = y) /\ (L # {} <=> InLog(d))
      BY <1>1, <2>1 DEF ResolveInv, OnePlace, InLog
    <3>2. (\A x, y \in H : x = y) /\ (H # {} <=> InHand(d))
      BY DEF InHand
    <3>3. (\A x, y \in R : x = y) /\ (R # {} <=> InStatus(d))
      BY <1>1 DEF ResolveInv, OnePlace, InStatus
    <3> QED
      BY <3>1, <3>2, <3>3
  <2>3. /\ Resolve!Cardinality(L) = IF InLog(d) THEN 1 ELSE 0
        /\ Resolve!Cardinality(H) = IF InHand(d) THEN 1 ELSE 0
        /\ Resolve!Cardinality(R) = IF InStatus(d) THEN 1 ELSE 0
    <3> HIDE DEF L, H, R
    <3>1. Resolve!Cardinality(L) = IF InLog(d) THEN 1 ELSE 0
      BY <2>2, CountOfOne
    <3>2. Resolve!Cardinality(H) = IF InHand(d) THEN 1 ELSE 0
      BY <2>2, CountOfOne
    <3>3. Resolve!Cardinality(R) = IF InStatus(d) THEN 1 ELSE 0
      BY <2>2, CountOfOne
    <3> QED
      BY <3>1, <3>2, <3>3
  <2>4. Resolve!EntriesOf(d) = Resolve!Cardinality(L) + Resolve!Cardinality(H)
                               + Resolve!Cardinality(R)
    BY DEF Resolve!EntriesOf
  <2>5. d \in Resolve!Reported <=> d \in failed \/ waiter[d] # "none"
    BY DEF Resolve!Reported
  <2>6. /\ Held(d) => ~InLog(d) /\ ~InHand(d) /\ ~InStatus(d)
        /\ InLog(d) => ~InHand(d) /\ ~InStatus(d)
        /\ InHand(d) => ~InStatus(d)
        /\ d \in Resolve!Reported <=> Held(d) \/ InLog(d) \/ InHand(d) \/ InStatus(d)
    BY <1>1, <2>5 DEF ResolveInv, OnePlace
  <2> HIDE DEF L, H, R
  <2> QED
    BY <2>3, <2>4, <2>6
<1> QED
  BY <1>1, ResolveInvariance, PTL

----------------------------------------------------------------------------
(* The pipeline (lib/deployment_diff.go, lib/pipeline.go) keeps the safety  *)
(* of PairStream's promise: a refinement, for any number of stages, any     *)
(* deployments, any buffer in front of the first stage and any choice of    *)
(* what each processor refuses.  A pair is followed from place to place: it *)
(* is always in one, and there once; and a channel closes only after        *)
(* everything before it has run dry.                                        *)

WorkerStates == [at : {"receive", "report", "send", "close", "shut", "gone"},
                 dep : Pairs \cup {Pipe!NoDep}]
MergerStates == [at : {"receive", "send", "gone"}, dep : Pairs \cup {Pipe!NoDep},
                 upstream : BOOLEAN, local : BOOLEAN]

PipeTypes ==
    /\ buffer \in Nat
    /\ todo \subseteq Pairs /\ out \subseteq Pairs /\ refused \subseteq Pairs
    /\ pairs \in [Pipe!Channels -> Seq(Pairs)]
    /\ errs \in [Pipe!Channels -> Seq(Pairs)]
    /\ pairsShut \in [Pipe!Channels -> BOOLEAN]
    /\ errsShut \in [Pipe!Channels -> BOOLEAN]
    /\ worker \in [Pipe!StageIds -> WorkerStates]
    /\ merger \in [Pipe!StageIds -> MergerStates]
    /\ outClosed \in BOOLEAN /\ refusedClosed \in BOOLEAN

(* A goroutine that is about to send has something to send.                 *)
PairInHand ==
    \A k \in Pipe!StageIds : /\ worker[k].at \in {"send", "report"} => worker[k].dep \in Pairs
                             /\ merger[k].at = "send" => merger[k].dep \in Pairs

(* The places a pair can be in, and the pairs that are there.               *)
Places == {"todo", "passed", "failed"} \X {0}
          \cup {"pairs", "errs"} \X Pipe!Channels \cup {"worker", "merger"} \X Pipe!StageIds

Elements(s) == {s[i] : i \in DOMAIN s}
InWorker(k) == IF worker[k].at \in {"send", "report"} THEN {worker[k].dep} ELSE {}
InMerger(k) == IF merger[k].at = "send" THEN {merger[k].dep} ELSE {}

In(p) ==
    CASE p[1] = "todo" -> todo
      [] p[1] = "passed" -> out
      [] p[1] = "failed" -> refused
      [] p[1] = "pairs" -> Elements(pairs[p[2]])
      [] p[1] = "errs" -> Elements(errs[p[2]])
      [] p[1] = "worker" -> InWorker(p[2])
      [] p[1] = "merger" -> InMerger(p[2])

(* Every pair is in one place, and there once.                              *)
Somewhere == \A d \in Pairs : \E p \in Places : d \in In(p)
OnePairPlace == \A p, q \in Places : \A d \in In(p) \cap In(q) : p = q
Once(s) == \A i, j \in DOMAIN s : s[i] = s[j] => i = j
OnceEach == \A k \in Pipe!Channels : Once(pairs[k]) /\ Once(errs[k])

(* Only what a processor may refuse is on the way of the errors.            *)
OnlyRefused ==
    /\ refused \subseteq Refusable
    /\ \A k \in Pipe!Channels : Elements(errs[k]) \subseteq Refusable
    /\ \A k \in Pipe!StageIds :
          /\ InMerger(k) \subseteq Refusable
          /\ worker[k].at = "report" => worker[k].dep \in Refusable

(* A stage is done with its pairs after every stage before it.              *)
Emptied(k) ==
    /\ todo = {}
    /\ \A j \in Pipe!Channels : j < k => pairs[j] = <<>> /\ pairsShut[j]
    /\ \A j \in Pipe!StageIds : j < k => worker[j].at = "gone"
PairsInOrder ==
    /\ pairsShut[0] => todo = {}
    /\ \A k \in Pipe!StageIds :
          /\ worker[k].at \in {"close", "shut", "gone"} => Emptied(k)
          /\ pairsShut[k] => worker[k].at = "gone"
    /\ outClosed => pairs[Stages] = <<>> /\ pairsShut[Stages]

(* And with its errors after its pairs and every stage before it.           *)
Quiet(k) ==
    /\ \A j \in Pipe!Channels : j < k => errs[j] = <<>> /\ errsShut[j]
    /\ \A j \in Pipe!StageIds : j < k => merger[j].at = "gone"
ErrsInOrder ==
    /\ errs[0] = <<>>
    /\ \A k \in Pipe!StageIds :
          /\ ~merger[k].upstream => Quiet(k)
          /\ ~merger[k].local => Pipe!TransErrsShut(k)
          /\ merger[k].at = "gone" => Pipe!InputsNil(k)
          /\ errsShut[k] => merger[k].at = "gone"
    /\ refusedClosed => errs[Stages] = <<>> /\ errsShut[Stages]

PipeInv ==
    /\ PipeTypes /\ PairInHand /\ Somewhere /\ OnePairPlace /\ OnceEach /\ OnlyRefused
    /\ PairsInOrder /\ ErrsInOrder

----------------------------------------------------------------------------
(* Channels.                                                                *)

(* A send puts a pair in a buffer, where it was not.                        *)
LEMMA Sending ==
    ASSUME NEW s \in Seq(Pairs), NEW d \in Pairs
    PROVE  /\ Append(s, d) \in Seq(Pairs)
           /\ Elements(Append(s, d)) = Elements(s) \cup {d}
           /\ Once(s) /\ d \notin Elements(s) => Once(Append(s, d))
<1> DEFINE n == Len(s)
           t == Append(s, d)
<1>1. t \in Seq(Pairs) /\ n \in Nat /\ DOMAIN s = 1..n /\ DOMAIN t = 1..(n + 1)
  OBVIOUS
<1>2. t[n + 1] = d /\ \A i \in 1..n : t[i] = s[i]
  OBVIOUS
<1> HIDE DEF n, t
<1>3. Elements(t) = Elements(s) \cup {d}
  BY <1>1, <1>2 DEF Elements
<1>4. Once(s) /\ d \notin Elements(s) => Once(t)
  BY <1>1, <1>2 DEF Once, Elements
<1> QED BY <1>1, <1>3, <1>4 DEF t

(* A receive takes the first pair, and it is gone from the buffer.          *)
LEMMA Receiving ==
    ASSUME NEW s \in Seq(Pairs), s # <<>>, Once(s)
    PROVE  /\ Tail(s) \in Seq(Pairs) /\ Head(s) \in Pairs /\ Head(s) \in Elements(s)
           /\ Elements(Tail(s)) = Elements(s) \ {Head(s)}
           /\ Once(Tail(s))
<1> DEFINE n == Len(s)
           t == Tail(s)
<1>1. /\ t \in Seq(Pairs) /\ n \in Nat /\ n > 0 /\ DOMAIN s = 1..n /\ DOMAIN t = 1..(n - 1)
      /\ Head(s) = s[1]
  OBVIOUS
<1>2. \A i \in 1..(n - 1) : t[i] = s[i + 1]
  OBVIOUS
<1> HIDE DEF n, t
<1>3. Head(s) \in Pairs /\ Head(s) \in Elements(s)
  BY <1>1 DEF Elements
<1>4. Elements(t) = Elements(s) \ {Head(s)}
  <2>1. ASSUME NEW e \in Elements(t) PROVE e \in Elements(s) \ {Head(s)}
    <3>1. PICK i \in 1..(n - 1) : e = s[i + 1]
      BY <1>1, <1>2 DEF Elements
    <3>2. i + 1 \in DOMAIN s /\ i + 1 # 1 /\ 1 \in DOMAIN s
      BY <1>1
    <3> QED BY <1>1, <3>1, <3>2 DEF Elements, Once
  <2>2. ASSUME NEW e \in Elements(s) \ {Head(s)} PROVE e \in Elements(t)
    <3>1. PICK i \in 1..n : e = s[i]
      BY <1>1 DEF Elements
    <3>2. i - 1 \in 1..(n - 1) /\ (i - 1) + 1 = i
      BY <1>1, <2>2, <3>1
    <3>3. t[i - 1] = e
      BY <1>2, <3>1, <3>2
    <3> QED BY <1>1, <3>2, <3>3 DEF Elements
  <2> QED BY <2>1, <2>2
<1>5. Once(t)
  <2> SUFFICES ASSUME NEW i \in 1..(n - 1), NEW j \in 1..(n - 1), t[i] = t[j]
               PROVE  i = j
    BY <1>1 DEF Once
  <2>1. i + 1 \in DOMAIN s /\ j + 1 \in DOMAIN s
    BY <1>1
  <2>2. s[i + 1] = s[j + 1]
    BY <1>2
  <2>3. i + 1 = j + 1
    BY <2>1, <2>2 DEF Once
  <2> QED BY <1>1, <2>3
<1> QED BY <1>1, <1>3, <1>4, <1>5 DEF t

(* The first and the last channel, and the one before a stage.              *)
LEMMA ChannelsAre ==
    ASSUME Pipe!StagesAssumption
    PROVE  /\ 0 \in Pipe!Channels /\ Stages \in Pipe!Channels /\ Stages \in Pipe!StageIds
              /\ 1 \in Pipe!StageIds
           /\ \A k \in Pipe!StageIds : k \in Pipe!Channels /\ k - 1 \in Pipe!Channels /\ k # 0
                 /\ k \in Int
           /\ \A k \in Pipe!Channels : k \in Int /\ (k # 0 => k \in Pipe!StageIds)
BY DEF Pipe!StagesAssumption, Pipe!Channels, Pipe!StageIds


----------------------------------------------------------------------------
(* Goroutines.                                                              *)

(* One worker goes to a place, with a pair in hand or none.                 *)
WorkerGoes(k, place, d) ==
    /\ worker' \in [Pipe!StageIds -> WorkerStates]
    /\ worker'[k] = [at |-> place, dep |-> d]
    /\ \A j \in Pipe!StageIds : j # k => worker'[j] = worker[j]

(* The assignments that do it.                                              *)
LEMMA WorkerAssigned ==
    ASSUME PipeTypes, NEW k \in Pipe!StageIds, NEW d \in Pairs \cup {Pipe!NoDep},
           NEW place \in {"receive", "report", "send", "close", "shut", "gone"},
           \/ worker' = [worker EXCEPT ![k].at = place, ![k].dep = d]
           \/ worker' = [worker EXCEPT ![k].dep = d, ![k].at = place]
           \/ worker' = [worker EXCEPT ![k].at = place] /\ d = worker[k].dep
    PROVE  WorkerGoes(k, place, d)
<1>1. worker[k] \in WorkerStates
  BY DEF PipeTypes
<1>2. worker' = [worker EXCEPT ![k] = [at |-> place, dep |-> d]]
  <2>1. CASE worker' = [worker EXCEPT ![k].at = place, ![k].dep = d]
    <3>1. worker'[k] = [at |-> place, dep |-> d]
      BY <1>1, <2>1 DEF PipeTypes, WorkerStates
    <3> QED BY <2>1, <3>1 DEF PipeTypes
  <2>2. CASE worker' = [worker EXCEPT ![k].dep = d, ![k].at = place]
    <3>1. worker'[k] = [at |-> place, dep |-> d]
      BY <1>1, <2>2 DEF PipeTypes, WorkerStates
    <3> QED BY <2>2, <3>1 DEF PipeTypes
  <2>3. CASE worker' = [worker EXCEPT ![k].at = place] /\ d = worker[k].dep
    <3>1. worker'[k] = [at |-> place, dep |-> d]
      BY <1>1, <2>3 DEF PipeTypes, WorkerStates
    <3> QED BY <2>3, <3>1 DEF PipeTypes
  <2> QED BY <2>1, <2>2, <2>3
<1>3. [at |-> place, dep |-> d] \in WorkerStates
  BY DEF WorkerStates
<1> QED BY <1>2, <1>3 DEF WorkerGoes, PipeTypes

(* One merger goes to a place, and keeps its inputs.                        *)
MergerGoes(k, place, d) ==
    /\ merger' \in [Pipe!StageIds -> MergerStates]
    /\ merger'[k].at = place /\ merger'[k].dep = d
    /\ merger'[k].upstream = merger[k].upstream /\ merger'[k].local = merger[k].local
    /\ \A j \in Pipe!StageIds : j # k => merger'[j] = merger[j]

(* The assignments of the merger that do it.                                *)
LEMMA MergerAssigned ==
    ASSUME PipeTypes, NEW k \in Pipe!StageIds, NEW d \in Pairs \cup {Pipe!NoDep},
           NEW place \in {"receive", "send", "gone"},
           \/ merger' = [merger EXCEPT ![k].at = place, ![k].dep = d]
           \/ merger' = [merger EXCEPT ![k].at = place] /\ d = merger[k].dep
    PROVE  MergerGoes(k, place, d)
<1> DEFINE new == [at |-> place, dep |-> d,
                   upstream |-> merger[k].upstream, local |-> merger[k].local]
<1>1. merger[k] \in MergerStates /\ new \in MergerStates
  BY DEF PipeTypes, MergerStates
<1>2. merger'[k] = new
  <2>1. CASE merger' = [merger EXCEPT ![k].at = place, ![k].dep = d]
    BY <1>1, <2>1 DEF PipeTypes, MergerStates
  <2>2. CASE merger' = [merger EXCEPT ![k].at = place] /\ d = merger[k].dep
    BY <1>1, <2>2 DEF PipeTypes, MergerStates
  <2> QED BY <2>1, <2>2
<1>3. \A j \in Pipe!StageIds : j # k => merger'[j] = merger[j]
  BY DEF PipeTypes
<1>4. DOMAIN merger' = Pipe!StageIds /\ merger' = [j \in Pipe!StageIds |-> merger'[j]]
  BY DEF PipeTypes
<1>5. \A j \in Pipe!StageIds : merger'[j] \in MergerStates
  BY <1>1, <1>2, <1>3 DEF PipeTypes
<1> QED BY <1>2, <1>3, <1>4, <1>5 DEF MergerGoes

(* One merger sets an input to nil.                                         *)
MergerCloses(k, up, loc) ==
    /\ merger' \in [Pipe!StageIds -> MergerStates]
    /\ merger'[k].at = "receive"
    /\ merger'[k].upstream = up /\ merger'[k].local = loc
    /\ \A j \in Pipe!StageIds : j # k => merger'[j] = merger[j]

(* An input is set to nil for one of two reasons: the channel before is     *)
(* closed and empty, or the worker has closed transErrs.                    *)
LEMMA MergerNils ==
    ASSUME PipeTypes, NEW k \in Pipe!StageIds, Pipe!MergerDrops(k)
    PROVE  \/ /\ MergerCloses(k, FALSE, merger[k].local)
              /\ merger[k].upstream /\ errs[k - 1] = <<>> /\ errsShut[k - 1]
           \/ MergerCloses(k, merger[k].upstream, FALSE) /\ Pipe!TransErrsShut(k)
<1>1. merger[k] \in MergerStates /\ merger[k].at = "receive"
  BY DEF PipeTypes, Pipe!MergerDrops
<1>2. CASE /\ merger' = [merger EXCEPT ![k].upstream = FALSE]
           /\ merger[k].upstream /\ errs[k - 1] = <<>> /\ errsShut[k - 1]
  <2>1. merger' \in [Pipe!StageIds -> MergerStates]
    BY <1>1, <1>2 DEF PipeTypes, MergerStates
  <2> QED BY <1>1, <1>2, <2>1 DEF PipeTypes, MergerStates, MergerCloses
<1>3. CASE merger' = [merger EXCEPT ![k].local = FALSE] /\ Pipe!TransErrsShut(k)
  <2>1. merger' \in [Pipe!StageIds -> MergerStates]
    BY <1>1, <1>3 DEF PipeTypes, MergerStates
  <2> QED BY <1>1, <1>3, <2>1 DEF PipeTypes, MergerStates, MergerCloses
<1> QED BY <1>2, <1>3 DEF Pipe!MergerDrops

(* One channel gets a pair, or gives its first one.                         *)
Gets(ch, new, k, d) ==
    /\ new \in [Pipe!Channels -> Seq(Pairs)]
    /\ new[k] = Append(ch[k], d)
    /\ \A j \in Pipe!Channels : j # k => new[j] = ch[j]
Gives(ch, new, k) ==
    /\ new \in [Pipe!Channels -> Seq(Pairs)]
    /\ ch[k] # <<>> /\ new[k] = Tail(ch[k])
    /\ \A j \in Pipe!Channels : j # k => new[j] = ch[j]

(* The assignments of the buffers that do it.                               *)
LEMMA ChannelAssigned ==
    ASSUME NEW ch \in [Pipe!Channels -> Seq(Pairs)], NEW k \in Pipe!Channels
    PROVE  /\ \A d \in Pairs : Gets(ch, [ch EXCEPT ![k] = Append(@, d)], k, d)
           /\ ch[k] # <<>> => Gives(ch, [ch EXCEPT ![k] = Tail(@)], k)
<1>1. ASSUME NEW d \in Pairs PROVE Gets(ch, [ch EXCEPT ![k] = Append(@, d)], k, d)
  BY DEF Gets
<1>2. ASSUME ch[k] # <<>> PROVE Gives(ch, [ch EXCEPT ![k] = Tail(@)], k)
  <2>1. Tail(ch[k]) \in Seq(Pairs)
    BY <1>2
  <2> QED BY <1>2, <2>1 DEF Gives
<1> QED BY <1>1, <1>2

----------------------------------------------------------------------------
(* Places.                                                                  *)

(* What is at a place after a pair has gone from one place to another.      *)
Shift(p, S, x, y, d) == IF p = x THEN S \ {d} ELSE IF p = y THEN S \cup {d} ELSE S

(* What is where.                                                           *)
LEMMA PlacesAre ==
    /\ In(<<"todo", 0>>) = todo /\ In(<<"todo", 0>>)' = todo'
    /\ In(<<"passed", 0>>) = out /\ In(<<"passed", 0>>)' = out'
    /\ In(<<"failed", 0>>) = refused /\ In(<<"failed", 0>>)' = refused'
    /\ \A k \in Pipe!Channels :
          /\ In(<<"pairs", k>>) = Elements(pairs[k])
          /\ In(<<"pairs", k>>)' = Elements(pairs'[k])
          /\ In(<<"errs", k>>) = Elements(errs[k])
          /\ In(<<"errs", k>>)' = Elements(errs'[k])
    /\ \A k \in Pipe!StageIds :
          /\ In(<<"worker", k>>) = InWorker(k) /\ In(<<"worker", k>>)' = InWorker(k)'
          /\ In(<<"merger", k>>) = InMerger(k) /\ In(<<"merger", k>>)' = InMerger(k)'
BY DEF In, Elements, InWorker, InMerger

(* The kinds of places.                                                     *)
LEMMA PlaceIs ==
    /\ <<"todo", 0>> \in Places /\ <<"passed", 0>> \in Places /\ <<"failed", 0>> \in Places
    /\ \A k \in Pipe!Channels : <<"pairs", k>> \in Places /\ <<"errs", k>> \in Places
    /\ \A k \in Pipe!StageIds : <<"worker", k>> \in Places /\ <<"merger", k>> \in Places
    /\ \A p \in Places :
          \/ p \in {<<"todo", 0>>, <<"passed", 0>>, <<"failed", 0>>}
          \/ \E k \in Pipe!Channels : p = <<"pairs", k>> \/ p = <<"errs", k>>
          \/ \E k \in Pipe!StageIds : p = <<"worker", k>> \/ p = <<"merger", k>>
BY DEF Places

(* A pair goes from one place to another.                                   *)
Moves(x, y, d) ==
    /\ x \in Places /\ y \in Places /\ x # y /\ d \in In(x)
    /\ todo' = Shift(<<"todo", 0>>, todo, x, y, d)
    /\ out' = Shift(<<"passed", 0>>, out, x, y, d)
    /\ refused' = Shift(<<"failed", 0>>, refused, x, y, d)
    /\ \A k \in Pipe!Channels :
          /\ Elements(pairs'[k]) = Shift(<<"pairs", k>>, Elements(pairs[k]), x, y, d)
          /\ Elements(errs'[k]) = Shift(<<"errs", k>>, Elements(errs[k]), x, y, d)
    /\ \A k \in Pipe!StageIds :
          /\ InWorker(k)' = Shift(<<"worker", k>>, InWorker(k), x, y, d)
          /\ InMerger(k)' = Shift(<<"merger", k>>, InMerger(k), x, y, d)

(* It is then in that place and in no other.                                *)
LEMMA Moved ==
    ASSUME Somewhere, OnePairPlace, NEW x, NEW y, NEW d, Moves(x, y, d)
    PROVE  Somewhere' /\ OnePairPlace'
<1>1. x \in Places /\ y \in Places /\ x # y /\ d \in In(x)
  BY DEF Moves
<1>2. ASSUME NEW p \in Places PROVE In(p)' = Shift(p, In(p), x, y, d)
  <2>1. CASE p \in {<<"todo", 0>>, <<"passed", 0>>, <<"failed", 0>>}
    BY <2>1, PlacesAre DEF Moves
  <2>2. ASSUME NEW k \in Pipe!Channels, p = <<"pairs", k>> \/ p = <<"errs", k>>
        PROVE  In(p)' = Shift(p, In(p), x, y, d)
    BY <2>2, PlacesAre DEF Moves
  <2>3. ASSUME NEW k \in Pipe!StageIds, p = <<"worker", k>> \/ p = <<"merger", k>>
        PROVE  In(p)' = Shift(p, In(p), x, y, d)
    BY <2>3, PlacesAre DEF Moves
  <2> QED BY <2>1, <2>2, <2>3, PlaceIs
<1>3. ASSUME NEW e \in Pairs PROVE \E p \in Places : e \in In(p)'
  <2>1. PICK p \in Places : e \in In(p)
    BY DEF Somewhere
  <2>2. CASE p = x /\ e = d
    BY <1>1, <1>2, <2>2 DEF Shift
  <2>3. CASE ~(p = x /\ e = d)
    BY <1>2, <2>1, <2>3 DEF Shift
  <2> QED BY <2>2, <2>3
<1>4. ASSUME NEW p \in Places, NEW q \in Places, NEW e \in In(p)' \cap In(q)' PROVE p = q
  <2>1. CASE e = d
    <3>1. \A r \in Places : d \in In(r) => r = x
      BY <1>1 DEF OnePairPlace
    <3>2. p = y /\ q = y
      BY <1>1, <1>2, <1>4, <2>1, <3>1 DEF Shift
    <3> QED BY <3>2
  <2>2. CASE e # d
    <3>1. e \in In(p) \cap In(q)
      BY <1>2, <1>4, <2>2 DEF Shift
    <3> QED BY <3>1 DEF OnePairPlace
  <2> QED BY <2>1, <2>2
<1> QED BY <1>3, <1>4 DEF Somewhere, OnePairPlace

(* Nothing goes anywhere.                                                   *)
Stays ==
    /\ todo' = todo /\ out' = out /\ refused' = refused
    /\ \A k \in Pipe!Channels :
          Elements(pairs'[k]) = Elements(pairs[k]) /\ Elements(errs'[k]) = Elements(errs[k])
    /\ \A k \in Pipe!StageIds : InWorker(k)' = InWorker(k) /\ InMerger(k)' = InMerger(k)

(* Then each pair is still in one place.                                    *)
LEMMA Stayed ==
    ASSUME Somewhere, OnePairPlace, Stays
    PROVE  Somewhere' /\ OnePairPlace'
<1>1. ASSUME NEW p \in Places PROVE In(p)' = In(p)
  <2>1. CASE p \in {<<"todo", 0>>, <<"passed", 0>>, <<"failed", 0>>}
    BY <2>1, PlacesAre DEF Stays
  <2>2. ASSUME NEW k \in Pipe!Channels, p = <<"pairs", k>> \/ p = <<"errs", k>>
        PROVE  In(p)' = In(p)
    BY <2>2, PlacesAre DEF Stays
  <2>3. ASSUME NEW k \in Pipe!StageIds, p = <<"worker", k>> \/ p = <<"merger", k>>
        PROVE  In(p)' = In(p)
    BY <2>3, PlacesAre DEF Stays
  <2> QED BY <2>1, <2>2, <2>3, PlaceIs
<1> QED BY <1>1 DEF Somewhere, OnePairPlace

(* A pair in one place is in no other.                                      *)
LEMMA Alone ==
    ASSUME OnePairPlace, NEW x \in Places, NEW y \in Places, x[1] # y[1], NEW d \in In(x)
    PROVE  d \notin In(y)
BY DEF OnePairPlace

----------------------------------------------------------------------------
(* What a send and a receive do to the channels' buffers.                   *)

OnceIn(ch) == \A j \in Pipe!Channels : Once(ch[j])
Gained(ch, new, k, d) ==
    /\ OnceIn(new)
    /\ Elements(new[k]) = Elements(ch[k]) \cup {d}
    /\ \A j \in Pipe!Channels : j # k => Elements(new[j]) = Elements(ch[j])
Lost(ch, new, k, d) ==
    /\ OnceIn(new)
    /\ Elements(new[k]) = Elements(ch[k]) \ {d}
    /\ \A j \in Pipe!Channels : j # k => Elements(new[j]) = Elements(ch[j])
    /\ \A j \in Pipe!Channels : ch[j] = <<>> => new[j] = <<>>

(* A send of a pair that was not there adds it, once.                       *)
LEMMA GetsKeeps ==
    ASSUME NEW ch \in [Pipe!Channels -> Seq(Pairs)], NEW new \in [Pipe!Channels -> Seq(Pairs)],
           NEW k \in Pipe!Channels, NEW d \in Pairs,
           Gets(ch, new, k, d), d \notin Elements(ch[k]), OnceIn(ch)
    PROVE  Gained(ch, new, k, d)
<1>1. ch[k] \in Seq(Pairs) /\ new[k] = Append(ch[k], d)
  BY DEF Gets
<1>2. Once(new[k]) /\ Elements(new[k]) = Elements(ch[k]) \cup {d}
  BY <1>1, Sending DEF OnceIn
<1>3. \A j \in Pipe!Channels : j # k => new[j] = ch[j]
  BY DEF Gets
<1>4. OnceIn(new)
  BY <1>2, <1>3 DEF OnceIn
<1>5. \A j \in Pipe!Channels : j # k => Elements(new[j]) = Elements(ch[j])
  BY <1>3
<1> QED BY <1>2, <1>4, <1>5 DEF Gained

(* A receive removes the first pair and doubles none.                       *)
LEMMA GivesKeeps ==
    ASSUME NEW ch \in [Pipe!Channels -> Seq(Pairs)], NEW new \in [Pipe!Channels -> Seq(Pairs)],
           NEW k \in Pipe!Channels, Gives(ch, new, k), OnceIn(ch)
    PROVE  Lost(ch, new, k, Head(ch[k]))
<1>1. ch[k] \in Seq(Pairs) /\ new[k] = Tail(ch[k]) /\ ch[k] # <<>> /\ Once(ch[k])
  BY DEF Gives, OnceIn
<1>2. Once(new[k]) /\ Elements(new[k]) = Elements(ch[k]) \ {Head(ch[k])}
  BY <1>1, Receiving
<1>3. \A j \in Pipe!Channels : j # k => new[j] = ch[j]
  BY DEF Gives
<1>4. OnceIn(new)
  BY <1>2, <1>3 DEF OnceIn
<1>5. \A j \in Pipe!Channels : j # k => Elements(new[j]) = Elements(ch[j])
  BY <1>3
<1>6. \A j \in Pipe!Channels : ch[j] = <<>> => new[j] = <<>>
  BY <1>1, <1>3
<1> QED BY <1>2, <1>4, <1>5, <1>6 DEF Lost

----------------------------------------------------------------------------
(* The order in which the stages end.                                       *)

(* It is kept by a step that fills no closed channel, reopens nothing and   *)
(* closes only what everything before it has closed.                        *)
LEMMA PairsStayInOrder ==
    ASSUME PairsInOrder, todo' \subseteq todo,
           \A i \in Pipe!Channels : pairsShut[i] =>
               pairsShut'[i] /\ (pairs[i] = <<>> => pairs'[i] = <<>>),
           pairsShut'[0] => todo' = {},
           \A i \in Pipe!StageIds :
               /\ worker[i].at = "gone" => worker'[i].at = "gone"
               /\ worker'[i].at \in {"close", "shut", "gone"} =>
                      worker[i].at \in {"close", "shut", "gone"} \/ Emptied(i)
               /\ pairsShut'[i] => pairsShut[i] \/ worker'[i].at = "gone",
           outClosed' => outClosed \/ (pairs[Stages] = <<>> /\ pairsShut[Stages]),
           Stages \in Pipe!Channels
    PROVE  PairsInOrder'
<1>1. ASSUME NEW k \in Pipe!StageIds, Emptied(k) PROVE Emptied(k)'
  <2>1. todo' = {}
    BY <1>1 DEF Emptied
  <2>2. \A j \in Pipe!Channels : j < k => pairs'[j] = <<>> /\ pairsShut'[j]
    BY <1>1 DEF Emptied
  <2>3. \A j \in Pipe!StageIds : j < k => worker'[j].at = "gone"
    BY <1>1 DEF Emptied
  <2> QED BY <2>1, <2>2, <2>3 DEF Emptied
<1>2. ASSUME NEW k \in Pipe!StageIds, worker'[k].at \in {"close", "shut", "gone"}
      PROVE  Emptied(k)'
  <2>1. Emptied(k)
    BY <1>2 DEF PairsInOrder
  <2> QED BY <1>1, <2>1
<1>3. \A k \in Pipe!StageIds : pairsShut'[k] => worker'[k].at = "gone"
  BY DEF PairsInOrder
<1>4. outClosed' => pairs'[Stages] = <<>> /\ pairsShut'[Stages]
  BY DEF PairsInOrder
<1> QED BY <1>2, <1>3, <1>4 DEF PairsInOrder

(* So do the errors: a merger's inputs become nil only when what feeds them *)
(* has ended, and stay nil.                                                 *)
LEMMA ErrsStayInOrder ==
    ASSUME ErrsInOrder, errs'[0] = <<>>,
           \A i \in Pipe!Channels : errsShut[i] =>
               errsShut'[i] /\ (errs[i] = <<>> => errs'[i] = <<>>),
           \A i \in Pipe!StageIds :
               /\ merger[i].at = "gone" => merger'[i].at = "gone"
               /\ ~merger'[i].upstream => ~merger[i].upstream \/ Quiet(i)
               /\ ~merger'[i].local => ~merger[i].local \/ Pipe!TransErrsShut(i)
               /\ Pipe!TransErrsShut(i) => Pipe!TransErrsShut(i)'
               /\ merger'[i].at = "gone" => Pipe!InputsNil(i)'
               /\ errsShut'[i] => errsShut[i] \/ merger'[i].at = "gone",
           refusedClosed' => refusedClosed \/ (errs[Stages] = <<>> /\ errsShut[Stages]),
           Stages \in Pipe!Channels
    PROVE  ErrsInOrder'
<1>1. ASSUME NEW k \in Pipe!StageIds, Quiet(k) PROVE Quiet(k)'
  <2>1. \A j \in Pipe!Channels : j < k => errs'[j] = <<>> /\ errsShut'[j]
    BY <1>1 DEF Quiet
  <2>2. \A j \in Pipe!StageIds : j < k => merger'[j].at = "gone"
    BY <1>1 DEF Quiet
  <2> QED BY <2>1, <2>2 DEF Quiet
<1>2. ASSUME NEW k \in Pipe!StageIds, ~merger'[k].upstream PROVE Quiet(k)'
  <2>1. Quiet(k)
    BY <1>2 DEF ErrsInOrder
  <2> QED BY <1>1, <2>1
<1>3. \A k \in Pipe!StageIds : ~merger'[k].local => Pipe!TransErrsShut(k)'
  BY DEF ErrsInOrder
<1>4. \A k \in Pipe!StageIds : errsShut'[k] => merger'[k].at = "gone"
  BY DEF ErrsInOrder
<1>5. refusedClosed' => errs'[Stages] = <<>> /\ errsShut'[Stages]
  BY DEF ErrsInOrder
<1> QED BY <1>2, <1>3, <1>4, <1>5 DEF ErrsInOrder

----------------------------------------------------------------------------
(* One lemma per action.                                                    *)

(* The differ sends a pair to the buffer of channel 0.                      *)
LEMMA BufferedSendKeeps ==
    ASSUME Pipe!StagesAssumption, PipeInv, NEW d \in todo,
           pairs' = [pairs EXCEPT ![0] = Append(@, d)], todo' = todo \ {d},
           UNCHANGED <<buffer, errs, pairsShut, errsShut, worker, merger, out, refused,
                       outClosed, refusedClosed>>
    PROVE  PipeInv'
<1>0. /\ PipeTypes /\ PairInHand /\ Somewhere /\ OnePairPlace /\ OnceEach /\ OnlyRefused
      /\ PairsInOrder /\ ErrsInOrder
  BY DEF PipeInv
<1>u. UNCHANGED <<buffer, errs, pairsShut, errsShut, worker, merger, out, refused,
                  outClosed, refusedClosed>>
  OBVIOUS
<1>d. d \in Pairs /\ 0 \in Pipe!Channels
  BY <1>0, ChannelsAre DEF PipeTypes
<1>g. Gets(pairs, pairs', 0, d)
  BY <1>0, <1>d, ChannelAssigned DEF PipeTypes
<1>n. d \notin Elements(pairs[0])
  <2>1. d \in In(<<"todo", 0>>)
    BY PlacesAre
  <2>2. d \notin In(<<"pairs", 0>>)
    BY <1>0, <1>d, <2>1, Alone, PlaceIs
  <2> QED BY <1>d, <2>2, PlacesAre
<1>o. pairs \in [Pipe!Channels -> Seq(Pairs)] /\ pairs' \in [Pipe!Channels -> Seq(Pairs)]
      /\ OnceIn(pairs)
  BY <1>0, <1>g DEF PipeTypes, OnceEach, OnceIn, Gets, Gives
<1>p. Gained(pairs, pairs', 0, d)
  BY <1>o, <1>d, <1>g, <1>n, GetsKeeps
<1>1. PipeTypes'
  BY <1>0, <1>d, <1>g, <1>u DEF PipeTypes, Gets
<1>2. PairInHand'
  BY <1>0, <1>u DEF PairInHand
<1>3. OnceEach'
  <2>1. \A j \in Pipe!Channels : Once(pairs'[j]) /\ Once(errs'[j])
    BY <1>0, <1>p, <1>u DEF OnceEach, OnceIn, Gained
  <2> QED BY <2>1 DEF OnceEach, Once
<1>4. Somewhere' /\ OnePairPlace'
  <2>m. Moves(<<"todo", 0>>, <<"pairs", 0>>, d)
    <3>1. \A k \in Pipe!StageIds : InWorker(k)' = InWorker(k) /\ InMerger(k)' = InMerger(k)
      BY <1>u DEF InWorker, InMerger
    <3> QED BY <1>d, <1>u, <1>p, <3>1, PlacesAre, PlaceIs DEF Moves, Shift, Gained
  <2> QED BY <1>0, <2>m, Moved
<1>5. OnlyRefused'
  BY <1>0, <1>u DEF OnlyRefused, Elements, InMerger
<1>6. PairsInOrder'
  <2>1. ~pairsShut[0] /\ todo' \subseteq todo
    BY <1>0 DEF PairsInOrder
  <2>2. \A i \in Pipe!Channels : pairsShut[i] => pairsShut'[i] /\ pairs'[i] = pairs[i]
    BY <1>g, <1>u, <2>1 DEF Gets
  <2> QED BY <1>0, <1>u, <2>1, <2>2, PairsStayInOrder, ChannelsAre DEF PairsInOrder
<1>7. ErrsInOrder'
  BY <1>0, <1>u, ErrsStayInOrder, ChannelsAre DEF ErrsInOrder, Pipe!TransErrsShut, Pipe!InputsNil
<1> QED BY <1>1, <1>2, <1>3, <1>4, <1>5, <1>6, <1>7 DEF PipeInv

(* The differ sends a pair to the worker of the first stage.                *)
LEMMA DirectSendKeeps ==
    ASSUME Pipe!StagesAssumption, PipeInv, NEW d \in todo, worker[1].at = "receive",
           worker' = [worker EXCEPT ![1].dep = d, ![1].at = "send"], todo' = todo \ {d},
           UNCHANGED <<buffer, pairs, errs, pairsShut, errsShut, merger, out, refused,
                       outClosed, refusedClosed>>
    PROVE  PipeInv'
<1>0. /\ PipeTypes /\ PairInHand /\ Somewhere /\ OnePairPlace /\ OnceEach /\ OnlyRefused
      /\ PairsInOrder /\ ErrsInOrder
  BY DEF PipeInv
<1>u. UNCHANGED <<buffer, pairs, errs, pairsShut, errsShut, merger, out, refused,
                  outClosed, refusedClosed>>
  OBVIOUS
<1>d. d \in Pairs /\ 0 \in Pipe!Channels /\ 1 \in Pipe!StageIds
  BY <1>0, ChannelsAre DEF PipeTypes
<1>w. WorkerGoes(1, "send", d)
  BY <1>0, <1>d, WorkerAssigned
<1>1. PipeTypes'
  BY <1>0, <1>d, <1>w, <1>u DEF PipeTypes, WorkerGoes
<1>2. PairInHand'
  BY <1>0, <1>d, <1>w, <1>u DEF PairInHand, WorkerGoes
<1>3. OnceEach'
  BY <1>0, <1>u DEF OnceEach, Once
<1>4. Somewhere' /\ OnePairPlace'
  <2>m. Moves(<<"todo", 0>>, <<"worker", 1>>, d)
    <3>1. InWorker(1) = {} /\ InWorker(1)' = {d}
      BY <1>w DEF WorkerGoes, InWorker
    <3>2. \A k \in Pipe!StageIds : k # 1 => InWorker(k)' = InWorker(k)
      BY <1>w DEF WorkerGoes, InWorker
    <3>3. \A k \in Pipe!StageIds : InMerger(k)' = InMerger(k)
      BY <1>u DEF InMerger
    <3> QED BY <1>d, <1>u, <3>1, <3>2, <3>3, PlacesAre, PlaceIs DEF Moves, Shift
  <2> QED BY <1>0, <2>m, Moved
<1>5. OnlyRefused'
  BY <1>0, <1>w, <1>u DEF OnlyRefused, Elements, InMerger, WorkerGoes
<1>6. PairsInOrder'
  <2>1. ~pairsShut[0] /\ 0 \in Pipe!Channels
    BY <1>0, <1>d DEF PairsInOrder
  <2>2. \A i \in Pipe!StageIds :
           /\ worker[i].at = "gone" => worker'[i].at = "gone"
           /\ worker'[i].at \in {"close", "shut", "gone"} =>
                  worker[i].at \in {"close", "shut", "gone"}
    BY <1>w DEF WorkerGoes
  <2>3. ASSUME NEW i \in Pipe!StageIds PROVE ~(worker'[i].at \in {"close", "shut", "gone"})
    <3>1. ~Emptied(i)
      BY DEF Emptied
    <3> QED BY <1>0, <2>2, <3>1 DEF PairsInOrder
  <2>4. ASSUME NEW i \in Pipe!StageIds PROVE ~pairsShut'[i]
    BY <1>0, <1>u, <2>2, <2>3 DEF PairsInOrder
  <2>5. outClosed' => pairs'[Stages] = <<>> /\ pairsShut'[Stages]
    BY <1>0, <1>u DEF PairsInOrder
  <2> QED BY <1>u, <2>1, <2>3, <2>4, <2>5 DEF PairsInOrder
<1>7. ErrsInOrder'
  <2>1. \A i \in Pipe!StageIds : Pipe!TransErrsShut(i) => Pipe!TransErrsShut(i)'
    BY <1>w DEF WorkerGoes, Pipe!TransErrsShut
  <2> QED BY <1>0, <1>u, <2>1, ErrsStayInOrder, ChannelsAre DEF ErrsInOrder, Pipe!InputsNil
<1> QED BY <1>1, <1>2, <1>3, <1>4, <1>5, <1>6, <1>7 DEF PipeInv

(* The differ closes channel 0.                                             *)
LEMMA DifferCloseKeeps ==
    ASSUME Pipe!StagesAssumption, PipeInv, Pipe!DifferClose
    PROVE  PipeInv'
<1>0. /\ PipeTypes /\ PairInHand /\ Somewhere /\ OnePairPlace /\ OnceEach /\ OnlyRefused
      /\ PairsInOrder /\ ErrsInOrder
  BY DEF PipeInv
<1>u. UNCHANGED <<buffer, todo, pairs, errs, worker, merger, out, refused,
                  outClosed, refusedClosed>>
  BY DEF Pipe!DifferClose, Pipe!differ, Pipe!channels, Pipe!consumers
<1>s. /\ pairsShut' \in [Pipe!Channels -> BOOLEAN] /\ errsShut' \in [Pipe!Channels -> BOOLEAN]
      /\ pairsShut'[0] /\ errsShut'[0]
      /\ \A i \in Pipe!Channels : i # 0 => pairsShut'[i] = pairsShut[i]
            /\ errsShut'[i] = errsShut[i]
  BY <1>0, ChannelsAre DEF Pipe!DifferClose, PipeTypes
<1>1. PipeTypes'
  BY <1>0, <1>s, <1>u DEF PipeTypes
<1>2. PairInHand'
  BY <1>0, <1>u DEF PairInHand
<1>3. OnceEach'
  BY <1>0, <1>u DEF OnceEach, Once
<1>4. Somewhere' /\ OnePairPlace'
  <2>1. Stays
    BY <1>u DEF Stays, InWorker, InMerger
  <2> QED BY <1>0, <2>1, Stayed
<1>5. OnlyRefused'
  BY <1>0, <1>u DEF OnlyRefused, Elements, InMerger
<1>6. PairsInOrder'
  <2>1. todo' = {}
    BY <1>u DEF Pipe!DifferClose
  <2>2. \A i \in Pipe!Channels : pairsShut[i] => pairsShut'[i]
    BY <1>s
  <2>3. ASSUME NEW i \in Pipe!StageIds, worker'[i].at \in {"close", "shut", "gone"}
        PROVE  Emptied(i)'
    <3>1. Emptied(i)
      BY <1>0, <1>u, <2>3 DEF PairsInOrder
    <3> QED BY <1>u, <2>1, <2>2, <3>1 DEF Emptied
  <2>4. ASSUME NEW i \in Pipe!StageIds, pairsShut'[i] PROVE worker'[i].at = "gone"
    <3>1. pairsShut[i]
      BY <1>s, <2>4, ChannelsAre
    <3> QED BY <1>0, <1>u, <3>1 DEF PairsInOrder
  <2>5. outClosed' => pairs'[Stages] = <<>> /\ pairsShut'[Stages]
    BY <1>0, <1>u, <2>2, ChannelsAre DEF PairsInOrder
  <2> QED BY <2>1, <2>3, <2>4, <2>5 DEF PairsInOrder
<1>7. ErrsInOrder'
  <2>1. \A i \in Pipe!StageIds : Pipe!TransErrsShut(i) => Pipe!TransErrsShut(i)'
    BY <1>u DEF Pipe!TransErrsShut
  <2> QED BY <1>0, <1>s, <1>u, <2>1, ErrsStayInOrder, ChannelsAre DEF ErrsInOrder, Pipe!InputsNil
<1> QED BY <1>1, <1>2, <1>3, <1>4, <1>5, <1>6, <1>7 DEF PipeInv

(* A worker receives a pair,                                                *)
LEMMA WorkerTakesKeeps ==
    ASSUME Pipe!StagesAssumption, PipeInv, NEW k \in Pipe!StageIds, Pipe!WorkerReceive(k),
           pairs[k - 1] # <<>>
    PROVE  PipeInv'
<1> DEFINE d == Head(pairs[k - 1])
<1>0. /\ PipeTypes /\ PairInHand /\ Somewhere /\ OnePairPlace /\ OnceEach /\ OnlyRefused
      /\ PairsInOrder /\ ErrsInOrder
  BY DEF PipeInv
<1>u. UNCHANGED <<buffer, todo, errs, pairsShut, errsShut, merger, out, refused,
                  outClosed, refusedClosed>>
  BY DEF Pipe!WorkerReceive, Pipe!differ, Pipe!consumers
<1>k. k \in Pipe!Channels /\ k - 1 \in Pipe!Channels /\ k # 0 /\ k \in Int
  BY ChannelsAre
<1>d. worker[k].at = "receive" /\ d \in Pairs /\ d \in Elements(pairs[k - 1])
  BY <1>0, <1>k, Receiving DEF Pipe!WorkerReceive, PipeTypes, OnceEach
<1>w. WorkerGoes(k, "send", d)
  BY <1>0, <1>d, WorkerAssigned DEF Pipe!WorkerReceive
<1>g. Gives(pairs, pairs', k - 1)
  <2>1. pairs' = [pairs EXCEPT ![k - 1] = Tail(@)]
    BY DEF Pipe!WorkerReceive
  <2> QED BY <1>0, <1>k, <2>1, ChannelAssigned DEF PipeTypes
<1>o. pairs \in [Pipe!Channels -> Seq(Pairs)] /\ pairs' \in [Pipe!Channels -> Seq(Pairs)]
      /\ OnceIn(pairs)
  BY <1>0, <1>g DEF PipeTypes, OnceEach, OnceIn, Gets, Gives
<1>p. Lost(pairs, pairs', k - 1, d)
  BY <1>o, <1>k, <1>g, GivesKeeps
<1> HIDE DEF d
<1>1. PipeTypes'
  BY <1>0, <1>w, <1>g, <1>u DEF PipeTypes, WorkerGoes, Gives
<1>2. PairInHand'
  BY <1>0, <1>d, <1>w, <1>u DEF PairInHand, WorkerGoes
<1>3. OnceEach'
  <2>1. \A j \in Pipe!Channels : Once(pairs'[j]) /\ Once(errs'[j])
    BY <1>0, <1>p, <1>u DEF OnceEach, OnceIn, Lost
  <2> QED BY <2>1 DEF OnceEach, Once
<1>4. Somewhere' /\ OnePairPlace'
  <2>m. Moves(<<"pairs", k - 1>>, <<"worker", k>>, d)
    <3>1. InWorker(k) = {} /\ InWorker(k)' = {d}
      BY <1>d, <1>w DEF WorkerGoes, InWorker
    <3>2. \A j \in Pipe!StageIds : j # k => InWorker(j)' = InWorker(j)
      BY <1>w DEF WorkerGoes, InWorker
    <3>3. \A j \in Pipe!StageIds : InMerger(j)' = InMerger(j)
      BY <1>u DEF InMerger
    <3> QED BY <1>k, <1>d, <1>u, <1>p, <3>1, <3>2, <3>3, PlacesAre, PlaceIs
               DEF Moves, Shift, Lost
  <2> QED BY <1>0, <2>m, Moved
<1>5. OnlyRefused'
  BY <1>0, <1>w, <1>u DEF OnlyRefused, Elements, InMerger, WorkerGoes
<1>6. PairsInOrder'
  <2>1. \A i \in Pipe!StageIds : worker'[i].at \in {"close", "shut", "gone"}
           \/ worker[i].at = "gone"
           => worker'[i].at = worker[i].at
    BY <1>w, <1>d DEF WorkerGoes
  <2> QED BY <1>0, <1>u, <1>p, <2>1, PairsStayInOrder, ChannelsAre DEF PairsInOrder, Lost
<1>7. ErrsInOrder'
  <2>1. \A i \in Pipe!StageIds : Pipe!TransErrsShut(i) => Pipe!TransErrsShut(i)'
    BY <1>w, <1>d DEF WorkerGoes, Pipe!TransErrsShut
  <2> QED BY <1>0, <1>u, <2>1, ErrsStayInOrder, ChannelsAre DEF ErrsInOrder, Pipe!InputsNil
<1> QED BY <1>1, <1>2, <1>3, <1>4, <1>5, <1>6, <1>7 DEF PipeInv

(* or finds the channel closed: every stage before it has ended.            *)
LEMMA WorkerClosesKeeps ==
    ASSUME Pipe!StagesAssumption, PipeInv, NEW k \in Pipe!StageIds, Pipe!WorkerReceive(k),
           pairs[k - 1] = <<>>
    PROVE  PipeInv'
<1>0. /\ PipeTypes /\ PairInHand /\ Somewhere /\ OnePairPlace /\ OnceEach /\ OnlyRefused
      /\ PairsInOrder /\ ErrsInOrder
  BY DEF PipeInv
<1>u. UNCHANGED <<buffer, todo, pairs, errs, pairsShut, errsShut, merger, out, refused,
                  outClosed, refusedClosed>>
  BY DEF Pipe!WorkerReceive, Pipe!differ, Pipe!consumers
<1>k. k \in Pipe!Channels /\ k - 1 \in Pipe!Channels /\ k # 0 /\ k \in Int
  BY ChannelsAre
<1>d. worker[k].at = "receive" /\ pairsShut[k - 1]
  BY DEF Pipe!WorkerReceive
<1>w. WorkerGoes(k, "close", worker[k].dep)
  <2>1. worker[k].dep \in Pairs \cup {Pipe!NoDep}
    BY <1>0 DEF PipeTypes, WorkerStates
  <2> QED BY <1>0, <2>1, WorkerAssigned DEF Pipe!WorkerReceive
<1>e. Emptied(k)
  <2>1. CASE k - 1 = 0
    <3>1. \A j \in Pipe!Channels : j < k => j = k - 1
      BY <1>k, <2>1, ChannelsAre DEF Pipe!Channels
    <3>2. \A j \in Pipe!StageIds : ~(j < k)
      BY <1>k, <2>1 DEF Pipe!StageIds
    <3> QED BY <1>0, <1>d, <2>1, <3>1, <3>2 DEF Emptied, PairsInOrder
  <2>2. CASE k - 1 # 0
    <3>1. k - 1 \in Pipe!StageIds
      BY <1>k, <2>2, ChannelsAre
    <3>2. worker[k - 1].at = "gone" /\ Emptied(k - 1)
      BY <1>0, <1>d, <3>1 DEF PairsInOrder
    <3>3. \A j \in Int : j < k => j = k - 1 \/ j < k - 1
      BY <1>k
    <3>4. \A j \in Pipe!Channels : j < k => pairs[j] = <<>> /\ pairsShut[j]
      BY <1>d, <3>2, <3>3, ChannelsAre DEF Emptied
    <3>5. \A j \in Pipe!StageIds : j < k => worker[j].at = "gone"
      BY <3>2, <3>3, ChannelsAre DEF Emptied
    <3> QED BY <3>2, <3>4, <3>5 DEF Emptied
  <2> QED BY <2>1, <2>2
<1>1. PipeTypes'
  BY <1>0, <1>w, <1>u DEF PipeTypes, WorkerGoes
<1>2. PairInHand'
  BY <1>0, <1>w, <1>u DEF PairInHand, WorkerGoes
<1>3. OnceEach'
  BY <1>0, <1>u DEF OnceEach, Once
<1>4. Somewhere' /\ OnePairPlace'
  <2>1. ASSUME NEW j \in Pipe!StageIds
        PROVE InWorker(j)' = InWorker(j) /\ InMerger(j)' = InMerger(j)
    <3>1. CASE j = k
      BY <1>d, <1>w, <1>u, <3>1 DEF InWorker, InMerger, WorkerGoes
    <3>2. CASE j # k
      BY <1>w, <1>u, <3>2 DEF InWorker, InMerger, WorkerGoes
    <3> QED BY <3>1, <3>2
  <2>2. Stays
    BY <1>u, <2>1 DEF Stays
  <2> QED BY <1>0, <2>2, Stayed
<1>5. OnlyRefused'
  BY <1>0, <1>w, <1>u DEF OnlyRefused, Elements, InMerger, WorkerGoes
<1>6. PairsInOrder'
  <2>1. \A i \in Pipe!StageIds :
           /\ worker[i].at = "gone" => worker'[i].at = "gone"
           /\ worker'[i].at \in {"close", "shut", "gone"} =>
                  worker[i].at \in {"close", "shut", "gone"} \/ Emptied(i)
           /\ pairsShut'[i] => pairsShut[i] \/ worker'[i].at = "gone"
    BY <1>0, <1>d, <1>e, <1>w, <1>u DEF PairsInOrder, WorkerGoes
  <2> QED BY <1>0, <1>u, <2>1, PairsStayInOrder, ChannelsAre DEF PairsInOrder
<1>7. ErrsInOrder'
  <2>1. \A i \in Pipe!StageIds : Pipe!TransErrsShut(i) => Pipe!TransErrsShut(i)'
    BY <1>w, <1>d DEF WorkerGoes, Pipe!TransErrsShut
  <2> QED BY <1>0, <1>u, <2>1, ErrsStayInOrder, ChannelsAre DEF ErrsInOrder, Pipe!InputsNil
<1> QED BY <1>1, <1>2, <1>3, <1>4, <1>5, <1>6, <1>7 DEF PipeInv

(* The processor of a stage refuses a pair.                                 *)
LEMMA ProcessorFailsKeeps ==
    ASSUME Pipe!StagesAssumption, PipeInv, NEW k \in Pipe!StageIds, Pipe!ProcessorFails(k)
    PROVE  PipeInv'
<1>0. /\ PipeTypes /\ PairInHand /\ Somewhere /\ OnePairPlace /\ OnceEach /\ OnlyRefused
      /\ PairsInOrder /\ ErrsInOrder
  BY DEF PipeInv
<1>u. UNCHANGED <<buffer, todo, pairs, errs, pairsShut, errsShut, merger, out,
                  refused, outClosed, refusedClosed>>
  BY DEF Pipe!ProcessorFails, Pipe!differ, Pipe!channels, Pipe!consumers
<1>d. worker[k].at = "send" /\ worker[k].dep \in Refusable /\ worker[k].dep \in Pairs
  BY <1>0 DEF Pipe!ProcessorFails, PairInHand
<1>w. WorkerGoes(k, "report", worker[k].dep)
  BY <1>0, <1>d, WorkerAssigned DEF Pipe!ProcessorFails
<1>1. PipeTypes'
  BY <1>0, <1>w, <1>u DEF PipeTypes, WorkerGoes
<1>2. PairInHand'
  BY <1>0, <1>d, <1>w, <1>u DEF PairInHand, WorkerGoes
<1>3. OnceEach'
  BY <1>0, <1>u DEF OnceEach, Once
<1>4. Somewhere' /\ OnePairPlace'
  <2>1. ASSUME NEW j \in Pipe!StageIds
        PROVE InWorker(j)' = InWorker(j) /\ InMerger(j)' = InMerger(j)
    <3>1. CASE j = k
      BY <1>d, <1>w, <1>u, <3>1 DEF InWorker, InMerger, WorkerGoes
    <3>2. CASE j # k
      BY <1>w, <1>u, <3>2 DEF InWorker, InMerger, WorkerGoes
    <3> QED BY <3>1, <3>2
  <2>2. Stays
    BY <1>u, <2>1 DEF Stays
  <2> QED BY <1>0, <2>2, Stayed
<1>5. OnlyRefused'
  BY <1>0, <1>d, <1>w, <1>u DEF OnlyRefused, Elements, InMerger, WorkerGoes
<1>6. PairsInOrder'
  <2>1. \A i \in Pipe!StageIds : worker'[i].at \in {"close", "shut", "gone"}
           \/ worker[i].at = "gone"
           => worker'[i].at = worker[i].at
    BY <1>w, <1>d DEF WorkerGoes
  <2> QED BY <1>0, <1>u, <2>1, PairsStayInOrder, ChannelsAre DEF PairsInOrder
<1>7. ErrsInOrder'
  <2>1. \A i \in Pipe!StageIds : Pipe!TransErrsShut(i) => Pipe!TransErrsShut(i)'
    BY <1>w, <1>d DEF WorkerGoes, Pipe!TransErrsShut
  <2> QED BY <1>0, <1>u, <2>1, ErrsStayInOrder, ChannelsAre DEF ErrsInOrder, Pipe!InputsNil
<1> QED BY <1>1, <1>2, <1>3, <1>4, <1>5, <1>6, <1>7 DEF PipeInv

(* The worker reports it to the merger.                                     *)
LEMMA WorkerReportKeeps ==
    ASSUME Pipe!StagesAssumption, PipeInv, NEW k \in Pipe!StageIds, Pipe!WorkerReport(k)
    PROVE  PipeInv'
<1> DEFINE d == worker[k].dep
<1>0. /\ PipeTypes /\ PairInHand /\ Somewhere /\ OnePairPlace /\ OnceEach /\ OnlyRefused
      /\ PairsInOrder /\ ErrsInOrder
  BY DEF PipeInv
<1>u. UNCHANGED <<buffer, todo, pairs, errs, pairsShut, errsShut, out, refused,
                  outClosed, refusedClosed>>
  BY DEF Pipe!WorkerReport, Pipe!differ, Pipe!channels, Pipe!consumers
<1>d. /\ worker[k].at = "report" /\ merger[k].at = "receive"
      /\ d \in Pairs /\ d \in Refusable
  BY <1>0 DEF Pipe!WorkerReport, PairInHand, OnlyRefused
<1>w. WorkerGoes(k, "receive", Pipe!NoDep)
  BY <1>0, WorkerAssigned DEF Pipe!WorkerReport
<1>m. MergerGoes(k, "send", d)
  BY <1>0, <1>d, MergerAssigned DEF Pipe!WorkerReport
<1>i. InWorker(k) = {d}
  BY <1>d DEF InWorker
<1> HIDE DEF d
<1>1. PipeTypes'
  BY <1>0, <1>w, <1>m, <1>u DEF PipeTypes, WorkerGoes, MergerGoes
<1>2. PairInHand'
  BY <1>0, <1>d, <1>w, <1>m, <1>u DEF PairInHand, WorkerGoes, MergerGoes
<1>3. OnceEach'
  BY <1>0, <1>u DEF OnceEach, Once
<1>4. Somewhere' /\ OnePairPlace'
  <2>m. Moves(<<"worker", k>>, <<"merger", k>>, d)
    <3>1. InWorker(k)' = {}
      BY <1>w DEF WorkerGoes, InWorker
    <3>2. InMerger(k) = {} /\ InMerger(k)' = {d}
      BY <1>d, <1>m DEF MergerGoes, InMerger
    <3>3. \A j \in Pipe!StageIds : j # k => InWorker(j)' = InWorker(j)
      BY <1>w DEF WorkerGoes, InWorker
    <3>4. \A j \in Pipe!StageIds : j # k => InMerger(j)' = InMerger(j)
      BY <1>m DEF MergerGoes, InMerger
    <3> QED BY <1>d, <1>i, <1>u, <3>1, <3>2, <3>3, <3>4, PlacesAre, PlaceIs DEF Moves, Shift
  <2> QED BY <1>0, <2>m, Moved
<1>5. OnlyRefused'
  BY <1>0, <1>d, <1>w, <1>m, <1>u DEF OnlyRefused, Elements, InMerger, WorkerGoes, MergerGoes
<1>6. PairsInOrder'
  <2>1. \A i \in Pipe!StageIds : worker'[i].at \in {"close", "shut", "gone"}
           \/ worker[i].at = "gone"
           => worker'[i].at = worker[i].at
    BY <1>w, <1>d DEF WorkerGoes
  <2> QED BY <1>0, <1>u, <2>1, PairsStayInOrder, ChannelsAre DEF PairsInOrder
<1>7. ErrsInOrder'
  <2>1. \A i \in Pipe!StageIds : Pipe!TransErrsShut(i) => Pipe!TransErrsShut(i)'
    BY <1>w, <1>d DEF WorkerGoes, Pipe!TransErrsShut
  <2>2. \A i \in Pipe!StageIds : /\ merger[i].at = "gone" => merger'[i] = merger[i]
                                 /\ merger'[i].upstream = merger[i].upstream
                                 /\ merger'[i].local = merger[i].local
                                 /\ merger'[i].at = "gone" => merger[i].at = "gone"
    BY <1>m, <1>d DEF MergerGoes
  <2> QED BY <1>0, <1>u, <2>1, <2>2, ErrsStayInOrder, ChannelsAre DEF ErrsInOrder, Pipe!InputsNil
<1> QED BY <1>1, <1>2, <1>3, <1>4, <1>5, <1>6, <1>7 DEF PipeInv

(* A worker sends its pair on.                                              *)
LEMMA WorkerSendKeeps ==
    ASSUME Pipe!StagesAssumption, PipeInv, NEW k \in Pipe!StageIds, Pipe!WorkerSend(k)
    PROVE  PipeInv'
<1> DEFINE d == worker[k].dep
<1>0. /\ PipeTypes /\ PairInHand /\ Somewhere /\ OnePairPlace /\ OnceEach /\ OnlyRefused
      /\ PairsInOrder /\ ErrsInOrder
  BY DEF PipeInv
<1>u. UNCHANGED <<buffer, todo, errs, pairsShut, errsShut, merger, out, refused,
                  outClosed, refusedClosed>>
  BY DEF Pipe!WorkerSend, Pipe!differ, Pipe!consumers
<1>k. k \in Pipe!Channels /\ k - 1 \in Pipe!Channels /\ k # 0 /\ k \in Int
  BY ChannelsAre
<1>d. d \in Pairs /\ worker[k].at = "send" /\ InWorker(k) = {d}
  BY <1>0 DEF Pipe!WorkerSend, PairInHand, InWorker
<1>w. WorkerGoes(k, "receive", Pipe!NoDep)
  BY <1>0, WorkerAssigned DEF Pipe!WorkerSend
<1>g. Gets(pairs, pairs', k, d)
  BY <1>0, <1>k, <1>d, ChannelAssigned DEF Pipe!WorkerSend, PipeTypes
<1> HIDE DEF d
<1>n. d \notin Elements(pairs[k])
  <2>1. d \in In(<<"worker", k>>)
    BY <1>d, PlacesAre
  <2>2. d \notin In(<<"pairs", k>>)
    BY <1>0, <1>k, <2>1, Alone, PlaceIs
  <2> QED BY <1>k, <2>2, PlacesAre
<1>o. pairs \in [Pipe!Channels -> Seq(Pairs)] /\ pairs' \in [Pipe!Channels -> Seq(Pairs)]
      /\ OnceIn(pairs)
  BY <1>0, <1>g DEF PipeTypes, OnceEach, OnceIn, Gets, Gives
<1>p. Gained(pairs, pairs', k, d)
  BY <1>o, <1>k, <1>d, <1>g, <1>n, GetsKeeps
<1>1. PipeTypes'
  BY <1>0, <1>w, <1>g, <1>u DEF PipeTypes, WorkerGoes, Gets
<1>2. PairInHand'
  BY <1>0, <1>w, <1>u DEF PairInHand, WorkerGoes
<1>3. OnceEach'
  <2>1. \A j \in Pipe!Channels : Once(pairs'[j]) /\ Once(errs'[j])
    BY <1>0, <1>p, <1>u DEF OnceEach, OnceIn, Gained
  <2> QED BY <2>1 DEF OnceEach, Once
<1>4. Somewhere' /\ OnePairPlace'
  <2>m. Moves(<<"worker", k>>, <<"pairs", k>>, d)
    <3>1. InWorker(k)' = {}
      BY <1>w DEF WorkerGoes, InWorker
    <3>2. \A j \in Pipe!StageIds : j # k => InWorker(j)' = InWorker(j)
      BY <1>w DEF WorkerGoes, InWorker
    <3>3. \A j \in Pipe!StageIds : InMerger(j)' = InMerger(j)
      BY <1>u DEF InMerger
    <3> QED BY <1>k, <1>d, <1>u, <1>p, <3>1, <3>2, <3>3, PlacesAre, PlaceIs
               DEF Moves, Shift, Gained
  <2> QED BY <1>0, <2>m, Moved
<1>5. OnlyRefused'
  BY <1>0, <1>w, <1>u DEF OnlyRefused, Elements, InMerger, WorkerGoes
<1>6. PairsInOrder'
  <2>1. ~pairsShut[k] /\ todo' \subseteq todo
    BY <1>0, <1>d, <1>u DEF PairsInOrder
  <2>2. \A i \in Pipe!Channels : pairsShut[i] => pairsShut'[i] /\ pairs'[i] = pairs[i]
    BY <1>g, <1>u, <2>1 DEF Gets
  <2>3. \A i \in Pipe!StageIds : worker'[i].at \in {"close", "shut", "gone"}
           \/ worker[i].at = "gone"
           => worker'[i].at = worker[i].at
    BY <1>w, <1>d DEF WorkerGoes
  <2> QED BY <1>0, <1>u, <2>1, <2>2, <2>3, PairsStayInOrder, ChannelsAre DEF PairsInOrder
<1>7. ErrsInOrder'
  <2>1. \A i \in Pipe!StageIds : Pipe!TransErrsShut(i) => Pipe!TransErrsShut(i)'
    BY <1>w, <1>d DEF WorkerGoes, Pipe!TransErrsShut
  <2> QED BY <1>0, <1>u, <2>1, ErrsStayInOrder, ChannelsAre DEF ErrsInOrder, Pipe!InputsNil
<1> QED BY <1>1, <1>2, <1>3, <1>4, <1>5, <1>6, <1>7 DEF PipeInv

(* A worker that has closed its channels has nothing in hand.               *)
LEMMA WorkerEndsKeeps ==
    ASSUME Pipe!StagesAssumption, PipeInv, NEW k \in Pipe!StageIds, Pipe!WorkerEnds(k)
    PROVE  PipeInv'
<1>0. /\ PipeTypes /\ PairInHand /\ Somewhere /\ OnePairPlace /\ OnceEach /\ OnlyRefused
      /\ PairsInOrder /\ ErrsInOrder
  BY DEF PipeInv
<1>u. UNCHANGED <<buffer, todo, pairs, errs, errsShut, merger, out, refused,
                  outClosed, refusedClosed>>
  BY DEF Pipe!WorkerEnds, Pipe!differ, Pipe!consumers
<1>k. k \in Pipe!Channels /\ k - 1 \in Pipe!Channels /\ k # 0 /\ k \in Int
  BY ChannelsAre
<1>t. worker[k].dep \in Pairs \cup {Pipe!NoDep}
  BY <1>0 DEF PipeTypes, WorkerStates
<1>w. \/ /\ worker[k].at = "close" /\ WorkerGoes(k, "shut", worker[k].dep)
         /\ UNCHANGED pairsShut
      \/ /\ worker[k].at = "shut" /\ WorkerGoes(k, "gone", worker[k].dep)
         /\ pairsShut' = [pairsShut EXCEPT ![k] = TRUE]
  <2>1. CASE worker[k].at = "close"
    BY <1>0, <1>t, <2>1, WorkerAssigned DEF Pipe!WorkerEnds
  <2>2. CASE worker[k].at = "shut"
    BY <1>0, <1>t, <2>2, WorkerAssigned DEF Pipe!WorkerEnds
  <2> QED BY <2>1, <2>2 DEF Pipe!WorkerEnds
<1>s. /\ pairsShut' \in [Pipe!Channels -> BOOLEAN]
      /\ \A i \in Pipe!Channels : pairsShut[i] => pairsShut'[i]
      /\ \A i \in Pipe!Channels : pairsShut'[i] /\ ~pairsShut[i] => i = k /\ worker'[k].at = "gone"
  <2>1. CASE UNCHANGED pairsShut
    BY <1>0, <2>1 DEF PipeTypes
  <2>2. CASE WorkerGoes(k, "gone", worker[k].dep) /\ pairsShut' = [pairsShut EXCEPT ![k] = TRUE]
    BY <1>0, <1>k, <2>2 DEF PipeTypes, WorkerGoes
  <2> QED BY <1>w, <2>1, <2>2
<1>1. PipeTypes'
  BY <1>0, <1>w, <1>s, <1>u DEF PipeTypes, WorkerGoes
<1>2. PairInHand'
  BY <1>0, <1>w, <1>u DEF PairInHand, WorkerGoes
<1>3. OnceEach'
  BY <1>0, <1>u DEF OnceEach, Once
<1>4. Somewhere' /\ OnePairPlace'
  <2>1. Stays
    BY <1>w, <1>u DEF Stays, InWorker, InMerger, WorkerGoes
  <2> QED BY <1>0, <2>1, Stayed
<1>5. OnlyRefused'
  BY <1>0, <1>w, <1>u DEF OnlyRefused, Elements, InMerger, WorkerGoes
<1>6. PairsInOrder'
  <2>1. \A i \in Pipe!StageIds :
           /\ worker[i].at = "gone" => worker'[i].at = "gone"
           /\ worker'[i].at \in {"close", "shut", "gone"} =>
                  worker[i].at \in {"close", "shut", "gone"}
    BY <1>w DEF WorkerGoes
  <2>2. \A i \in Pipe!StageIds : pairsShut'[i] => pairsShut[i] \/ worker'[i].at = "gone"
    BY <1>s, ChannelsAre
  <2>3. pairsShut'[0] => todo' = {}
    BY <1>0, <1>k, <1>s, <1>u, ChannelsAre DEF PairsInOrder
  <2>4. todo' \subseteq todo /\ Stages \in Pipe!Channels
    BY <1>u, ChannelsAre
  <2> QED BY <1>0, <1>s, <1>u, <2>1, <2>2, <2>3, <2>4, PairsStayInOrder
<1>7. ErrsInOrder'
  <2>1. \A i \in Pipe!StageIds : Pipe!TransErrsShut(i) => Pipe!TransErrsShut(i)'
    BY <1>w DEF WorkerGoes, Pipe!TransErrsShut
  <2> QED BY <1>0, <1>u, <2>1, ErrsStayInOrder, ChannelsAre DEF ErrsInOrder, Pipe!InputsNil
<1> QED BY <1>1, <1>2, <1>3, <1>4, <1>5, <1>6, <1>7 DEF PipeInv

(* A merger receives an error from the stage before.                        *)
LEMMA MergerReceiveKeeps ==
    ASSUME Pipe!StagesAssumption, PipeInv, NEW k \in Pipe!StageIds, Pipe!MergerReceive(k)
    PROVE  PipeInv'
<1> DEFINE d == Head(errs[k - 1])
<1>0. /\ PipeTypes /\ PairInHand /\ Somewhere /\ OnePairPlace /\ OnceEach /\ OnlyRefused
      /\ PairsInOrder /\ ErrsInOrder
  BY DEF PipeInv
<1>u. UNCHANGED <<buffer, todo, pairs, pairsShut, errsShut, worker, out, refused,
                  outClosed, refusedClosed>>
  BY DEF Pipe!MergerReceive, Pipe!differ, Pipe!consumers
<1>k. k \in Pipe!Channels /\ k - 1 \in Pipe!Channels /\ k # 0 /\ k \in Int
  BY ChannelsAre
<1>d. /\ merger[k].at = "receive" /\ d \in Pairs /\ d \in Elements(errs[k - 1])
      /\ d \in Refusable
  BY <1>0, <1>k, Receiving DEF Pipe!MergerReceive, PipeTypes, OnceEach, OnlyRefused
<1>m. MergerGoes(k, "send", d)
  BY <1>0, <1>d, MergerAssigned DEF Pipe!MergerReceive
<1>g. Gives(errs, errs', k - 1)
  BY <1>0, <1>k, ChannelAssigned DEF Pipe!MergerReceive, PipeTypes
<1>o. errs \in [Pipe!Channels -> Seq(Pairs)] /\ errs' \in [Pipe!Channels -> Seq(Pairs)]
      /\ OnceIn(errs)
  BY <1>0, <1>g DEF PipeTypes, OnceEach, OnceIn, Gets, Gives
<1>e. Lost(errs, errs', k - 1, d)
  BY <1>o, <1>k, <1>g, GivesKeeps
<1> HIDE DEF d
<1>1. PipeTypes'
  BY <1>0, <1>m, <1>g, <1>u DEF PipeTypes, MergerGoes, Gives
<1>2. PairInHand'
  BY <1>0, <1>d, <1>m, <1>u DEF PairInHand, MergerGoes
<1>3. OnceEach'
  <2>1. \A j \in Pipe!Channels : Once(pairs'[j]) /\ Once(errs'[j])
    BY <1>0, <1>e, <1>u DEF OnceEach, OnceIn, Lost
  <2> QED BY <2>1 DEF OnceEach, Once
<1>4. Somewhere' /\ OnePairPlace'
  <2>m. Moves(<<"errs", k - 1>>, <<"merger", k>>, d)
    <3>1. InMerger(k) = {} /\ InMerger(k)' = {d}
      BY <1>d, <1>m DEF MergerGoes, InMerger
    <3>2. \A j \in Pipe!StageIds : j # k => InMerger(j)' = InMerger(j)
      BY <1>m DEF MergerGoes, InMerger
    <3>3. \A j \in Pipe!StageIds : InWorker(j)' = InWorker(j)
      BY <1>u DEF InWorker
    <3> QED BY <1>k, <1>d, <1>u, <1>e, <3>1, <3>2, <3>3, PlacesAre, PlaceIs
               DEF Moves, Shift, Lost
  <2> QED BY <1>0, <2>m, Moved
<1>5. OnlyRefused'
  <2>1. \A j \in Pipe!Channels : Elements(errs'[j]) \subseteq Refusable
    BY <1>0, <1>e DEF OnlyRefused, Lost
  <2>2. \A j \in Pipe!StageIds : InMerger(j)' \subseteq Refusable
    BY <1>0, <1>d, <1>m DEF OnlyRefused, InMerger, MergerGoes
  <2> QED BY <1>0, <1>u, <2>1, <2>2 DEF OnlyRefused, Elements
<1>6. PairsInOrder'
  BY <1>0, <1>u, PairsStayInOrder, ChannelsAre DEF PairsInOrder
<1>7. ErrsInOrder'
  <2>1. \A i \in Pipe!StageIds : Pipe!TransErrsShut(i) => Pipe!TransErrsShut(i)'
    BY <1>u DEF Pipe!TransErrsShut
  <2>2. \A i \in Pipe!StageIds : /\ merger[i].at = "gone" => merger'[i] = merger[i]
                                 /\ merger'[i].upstream = merger[i].upstream
                                 /\ merger'[i].local = merger[i].local
                                 /\ merger'[i].at = "gone" => merger[i].at = "gone"
    BY <1>m, <1>d DEF MergerGoes
  <2> QED BY <1>0, <1>u, <1>e, <2>1, <2>2, ErrsStayInOrder, ChannelsAre
             DEF ErrsInOrder, Pipe!InputsNil, Lost
<1> QED BY <1>1, <1>2, <1>3, <1>4, <1>5, <1>6, <1>7 DEF PipeInv

(* A merger sets a closed input to nil: the stages before it are quiet, or  *)
(* its own worker has ended.                                                *)
LEMMA MergerDropsKeeps ==
    ASSUME Pipe!StagesAssumption, PipeInv, NEW k \in Pipe!StageIds, Pipe!MergerDrops(k)
    PROVE  PipeInv'
<1>0. /\ PipeTypes /\ PairInHand /\ Somewhere /\ OnePairPlace /\ OnceEach /\ OnlyRefused
      /\ PairsInOrder /\ ErrsInOrder
  BY DEF PipeInv
<1>u. UNCHANGED <<buffer, todo, pairs, errs, pairsShut, errsShut, worker, out,
                  refused, outClosed, refusedClosed>>
  BY DEF Pipe!MergerDrops, Pipe!differ, Pipe!channels, Pipe!consumers
<1>k. k \in Pipe!Channels /\ k - 1 \in Pipe!Channels /\ k # 0 /\ k \in Int
  BY ChannelsAre
<1>d. merger[k].at = "receive"
  BY DEF Pipe!MergerDrops
<1>m. \/ /\ MergerCloses(k, FALSE, merger[k].local)
         /\ merger[k].upstream /\ errs[k - 1] = <<>> /\ errsShut[k - 1]
      \/ MergerCloses(k, merger[k].upstream, FALSE) /\ Pipe!TransErrsShut(k)
  BY <1>0, MergerNils
<1>q. errs[k - 1] = <<>> /\ errsShut[k - 1] => Quiet(k)
  <2> SUFFICES ASSUME errs[k - 1] = <<>>, errsShut[k - 1] PROVE Quiet(k)
    OBVIOUS
  <2>1. CASE k - 1 = 0
    <3>1. \A j \in Pipe!Channels : j < k => j = k - 1
      BY <1>k, <2>1, ChannelsAre DEF Pipe!Channels
    <3>2. \A j \in Pipe!StageIds : ~(j < k)
      BY <1>k, <2>1 DEF Pipe!StageIds
    <3> QED BY <3>1, <3>2 DEF Quiet
  <2>2. CASE k - 1 # 0
    <3>1. k - 1 \in Pipe!StageIds
      BY <1>k, <2>2, ChannelsAre
    <3>2. merger[k - 1].at = "gone" /\ Quiet(k - 1)
      BY <1>0, <3>1 DEF ErrsInOrder, Pipe!InputsNil
    <3>3. \A j \in Int : j < k => j = k - 1 \/ j < k - 1
      BY <1>k
    <3>4. \A j \in Pipe!Channels : j < k => errs[j] = <<>> /\ errsShut[j]
      BY <3>2, <3>3, ChannelsAre DEF Quiet
    <3>5. \A j \in Pipe!StageIds : j < k => merger[j].at = "gone"
      BY <3>2, <3>3, ChannelsAre DEF Quiet
    <3> QED BY <3>4, <3>5 DEF Quiet
  <2> QED BY <2>1, <2>2
<1>1. PipeTypes'
  BY <1>0, <1>m, <1>u DEF PipeTypes, MergerCloses
<1>2. PairInHand'
  BY <1>0, <1>m, <1>u DEF PairInHand, MergerCloses
<1>3. OnceEach'
  BY <1>0, <1>u DEF OnceEach, Once
<1>4. Somewhere' /\ OnePairPlace'
  <2>1. Stays
    BY <1>d, <1>m, <1>u DEF Stays, InWorker, InMerger, MergerCloses
  <2> QED BY <1>0, <2>1, Stayed
<1>5. OnlyRefused'
  BY <1>0, <1>m, <1>u DEF OnlyRefused, Elements, InMerger, MergerCloses
<1>6. PairsInOrder'
  BY <1>0, <1>u, PairsStayInOrder, ChannelsAre DEF PairsInOrder
<1>7. ErrsInOrder'
  <2>1. \A i \in Pipe!StageIds : Pipe!TransErrsShut(i) => Pipe!TransErrsShut(i)'
    BY <1>u DEF Pipe!TransErrsShut
  <2>2. \A i \in Pipe!StageIds :
           /\ merger[i].at = "gone" => merger'[i] = merger[i]
           /\ merger'[i].at = "gone" => merger[i].at = "gone"
           /\ ~merger'[i].upstream => ~merger[i].upstream \/ Quiet(i)
           /\ ~merger'[i].local => ~merger[i].local \/ Pipe!TransErrsShut(i)
    BY <1>d, <1>m, <1>q DEF MergerCloses
  <2> QED BY <1>0, <1>u, <2>1, <2>2, ErrsStayInOrder, ChannelsAre DEF ErrsInOrder, Pipe!InputsNil
<1> QED BY <1>1, <1>2, <1>3, <1>4, <1>5, <1>6, <1>7 DEF PipeInv

(* A merger sends an error on.                                              *)
LEMMA MergerSendKeeps ==
    ASSUME Pipe!StagesAssumption, PipeInv, NEW k \in Pipe!StageIds, Pipe!MergerSend(k)
    PROVE  PipeInv'
<1> DEFINE d == merger[k].dep
<1>0. /\ PipeTypes /\ PairInHand /\ Somewhere /\ OnePairPlace /\ OnceEach /\ OnlyRefused
      /\ PairsInOrder /\ ErrsInOrder
  BY DEF PipeInv
<1>u. UNCHANGED <<buffer, todo, pairs, pairsShut, errsShut, worker, out, refused,
                  outClosed, refusedClosed>>
  BY DEF Pipe!MergerSend, Pipe!differ, Pipe!consumers
<1>k. k \in Pipe!Channels /\ k - 1 \in Pipe!Channels /\ k # 0 /\ k \in Int
  BY ChannelsAre
<1>d. d \in Pairs /\ merger[k].at = "send" /\ InMerger(k) = {d} /\ d \in Refusable
  BY <1>0 DEF Pipe!MergerSend, PairInHand, InMerger, OnlyRefused
<1>m. MergerGoes(k, "receive", Pipe!NoDep)
  BY <1>0, MergerAssigned DEF Pipe!MergerSend
<1>g. Gets(errs, errs', k, d)
  BY <1>0, <1>k, <1>d, ChannelAssigned DEF Pipe!MergerSend, PipeTypes
<1> HIDE DEF d
<1>n. d \notin Elements(errs[k])
  <2>1. d \in In(<<"merger", k>>)
    BY <1>d, PlacesAre
  <2>2. d \notin In(<<"errs", k>>)
    BY <1>0, <1>k, <2>1, Alone, PlaceIs
  <2> QED BY <1>k, <2>2, PlacesAre
<1>o. errs \in [Pipe!Channels -> Seq(Pairs)] /\ errs' \in [Pipe!Channels -> Seq(Pairs)]
      /\ OnceIn(errs)
  BY <1>0, <1>g DEF PipeTypes, OnceEach, OnceIn, Gets, Gives
<1>e. Gained(errs, errs', k, d)
  BY <1>o, <1>k, <1>d, <1>g, <1>n, GetsKeeps
<1>1. PipeTypes'
  BY <1>0, <1>m, <1>g, <1>u DEF PipeTypes, MergerGoes, Gets
<1>2. PairInHand'
  BY <1>0, <1>m, <1>u DEF PairInHand, MergerGoes
<1>3. OnceEach'
  <2>1. \A j \in Pipe!Channels : Once(pairs'[j]) /\ Once(errs'[j])
    BY <1>0, <1>e, <1>u DEF OnceEach, OnceIn, Gained
  <2> QED BY <2>1 DEF OnceEach, Once
<1>4. Somewhere' /\ OnePairPlace'
  <2>m. Moves(<<"merger", k>>, <<"errs", k>>, d)
    <3>1. InMerger(k)' = {}
      BY <1>m DEF MergerGoes, InMerger
    <3>2. \A j \in Pipe!StageIds : j # k => InMerger(j)' = InMerger(j)
      BY <1>m DEF MergerGoes, InMerger
    <3>3. \A j \in Pipe!StageIds : InWorker(j)' = InWorker(j)
      BY <1>u DEF InWorker
    <3> QED BY <1>k, <1>d, <1>u, <1>e, <3>1, <3>2, <3>3, PlacesAre, PlaceIs
               DEF Moves, Shift, Gained
  <2> QED BY <1>0, <2>m, Moved
<1>5. OnlyRefused'
  <2>1. \A j \in Pipe!Channels : Elements(errs'[j]) \subseteq Refusable
    BY <1>0, <1>d, <1>e DEF OnlyRefused, Gained
  <2>2. \A j \in Pipe!StageIds : InMerger(j)' \subseteq Refusable
    BY <1>0, <1>m DEF OnlyRefused, InMerger, MergerGoes
  <2> QED BY <1>0, <1>u, <2>1, <2>2 DEF OnlyRefused, Elements
<1>6. PairsInOrder'
  BY <1>0, <1>u, PairsStayInOrder, ChannelsAre DEF PairsInOrder
<1>7. ErrsInOrder'
  <2>1. \A i \in Pipe!StageIds : Pipe!TransErrsShut(i) => Pipe!TransErrsShut(i)'
    BY <1>u DEF Pipe!TransErrsShut
  <2>2. \A i \in Pipe!StageIds : /\ merger[i].at = "gone" => merger'[i] = merger[i]
                                 /\ merger'[i].upstream = merger[i].upstream
                                 /\ merger'[i].local = merger[i].local
                                 /\ merger'[i].at = "gone" => merger[i].at = "gone"
    BY <1>m, <1>d DEF MergerGoes
  <2>3. ~errsShut[k]
    BY <1>0, <1>d DEF ErrsInOrder
  <2>4. \A i \in Pipe!Channels : errsShut[i] => errsShut'[i] /\ errs'[i] = errs[i]
    BY <1>g, <1>u, <2>3 DEF Gets
  <2>5. errs'[0] = <<>>
    BY <1>0, <1>k, <1>g, ChannelsAre DEF ErrsInOrder, Gets
  <2> QED BY <1>0, <1>u, <2>1, <2>2, <2>4, <2>5, ErrsStayInOrder, ChannelsAre
             DEF ErrsInOrder, Pipe!InputsNil
<1> QED BY <1>1, <1>2, <1>3, <1>4, <1>5, <1>6, <1>7 DEF PipeInv

(* A merger ends.                                                           *)
LEMMA MergerEndsKeeps ==
    ASSUME Pipe!StagesAssumption, PipeInv, NEW k \in Pipe!StageIds, Pipe!MergerEnds(k)
    PROVE  PipeInv'
<1>0. /\ PipeTypes /\ PairInHand /\ Somewhere /\ OnePairPlace /\ OnceEach /\ OnlyRefused
      /\ PairsInOrder /\ ErrsInOrder
  BY DEF PipeInv
<1>u. UNCHANGED <<buffer, todo, pairs, errs, pairsShut, worker, out, refused,
                  outClosed, refusedClosed>>
  BY DEF Pipe!MergerEnds, Pipe!differ, Pipe!consumers
<1>k. k \in Pipe!Channels /\ k - 1 \in Pipe!Channels /\ k # 0 /\ k \in Int
  BY ChannelsAre
<1>d. merger[k].at = "receive" /\ Pipe!InputsNil(k)
  BY DEF Pipe!MergerEnds
<1>m. MergerGoes(k, "gone", merger[k].dep)
  <2>1. merger[k].dep \in Pairs \cup {Pipe!NoDep}
    BY <1>0 DEF PipeTypes, MergerStates
  <2> QED BY <1>0, <2>1, MergerAssigned DEF Pipe!MergerEnds
<1>s. /\ errsShut' \in [Pipe!Channels -> BOOLEAN]
      /\ errsShut'[k] /\ \A i \in Pipe!Channels : i # k => errsShut'[i] = errsShut[i]
  BY <1>0, <1>k DEF Pipe!MergerEnds, PipeTypes
<1>1. PipeTypes'
  BY <1>0, <1>m, <1>s, <1>u DEF PipeTypes, MergerGoes
<1>2. PairInHand'
  BY <1>0, <1>m, <1>u DEF PairInHand, MergerGoes
<1>3. OnceEach'
  BY <1>0, <1>u DEF OnceEach, Once
<1>4. Somewhere' /\ OnePairPlace'
  <2>1. Stays
    BY <1>d, <1>m, <1>u DEF Stays, InWorker, InMerger, MergerGoes
  <2> QED BY <1>0, <2>1, Stayed
<1>5. OnlyRefused'
  BY <1>0, <1>m, <1>u DEF OnlyRefused, Elements, InMerger, MergerGoes
<1>6. PairsInOrder'
  BY <1>0, <1>u, PairsStayInOrder, ChannelsAre DEF PairsInOrder
<1>7. ErrsInOrder'
  <2>1. \A i \in Pipe!StageIds : Pipe!TransErrsShut(i) => Pipe!TransErrsShut(i)'
    BY <1>u DEF Pipe!TransErrsShut
  <2>2. \A i \in Pipe!StageIds :
           /\ merger[i].at = "gone" => merger'[i].at = "gone"
           /\ merger'[i].upstream = merger[i].upstream /\ merger'[i].local = merger[i].local
           /\ merger'[i].at = "gone" => Pipe!InputsNil(i)
           /\ errsShut'[i] => errsShut[i] \/ merger'[i].at = "gone"
    BY <1>0, <1>d, <1>m, <1>s, ChannelsAre DEF ErrsInOrder, MergerGoes
  <2> QED BY <1>0, <1>s, <1>u, <2>1, <2>2, ErrsStayInOrder, ChannelsAre
             DEF ErrsInOrder, Pipe!InputsNil
<1> QED BY <1>1, <1>2, <1>3, <1>4, <1>5, <1>6, <1>7 DEF PipeInv

(* The loop over the last Pairs receives one.                             *)
LEMMA PairsTakenKeeps ==
    ASSUME Pipe!StagesAssumption, PipeInv, Pipe!ConsumePairs, pairs[Stages] # <<>>
    PROVE  PipeInv'
<1> DEFINE d == Head(pairs[Stages])
<1>0. /\ PipeTypes /\ PairInHand /\ Somewhere /\ OnePairPlace /\ OnceEach /\ OnlyRefused
      /\ PairsInOrder /\ ErrsInOrder
  BY DEF PipeInv
<1>u. UNCHANGED <<buffer, todo, errs, pairsShut, errsShut, worker, merger, refused,
                  outClosed, refusedClosed>>
  BY DEF Pipe!ConsumePairs, Pipe!differ
<1>d. Stages \in Pipe!Channels /\ d \in Pairs /\ d \in Elements(pairs[Stages])
  BY <1>0, Receiving, ChannelsAre DEF PipeTypes, OnceEach
<1>r. out' = out \cup {d}
  BY DEF Pipe!ConsumePairs
<1>g. Gives(pairs, pairs', Stages)
  BY <1>0, <1>d, ChannelAssigned DEF Pipe!ConsumePairs, PipeTypes
<1>o. pairs \in [Pipe!Channels -> Seq(Pairs)] /\ pairs' \in [Pipe!Channels -> Seq(Pairs)]
      /\ OnceIn(pairs)
  BY <1>0, <1>g DEF PipeTypes, OnceEach, OnceIn, Gets, Gives
<1>p. Lost(pairs, pairs', Stages, d)
  BY <1>o, <1>d, <1>g, GivesKeeps
<1> HIDE DEF d
<1>1. PipeTypes'
  BY <1>0, <1>d, <1>g, <1>r, <1>u DEF PipeTypes, Gives
<1>2. PairInHand'
  BY <1>0, <1>u DEF PairInHand
<1>3. OnceEach'
  <2>1. \A j \in Pipe!Channels : Once(pairs'[j]) /\ Once(errs'[j])
    BY <1>0, <1>p, <1>u DEF OnceEach, OnceIn, Lost
  <2> QED BY <2>1 DEF OnceEach, Once
<1>4. Somewhere' /\ OnePairPlace'
  <2>m. Moves(<<"pairs", Stages>>, <<"passed", 0>>, d)
    <3>1. \A k \in Pipe!StageIds : InWorker(k)' = InWorker(k) /\ InMerger(k)' = InMerger(k)
      BY <1>u DEF InWorker, InMerger
    <3> QED BY <1>d, <1>r, <1>u, <1>p, <3>1, PlacesAre, PlaceIs DEF Moves, Shift, Lost
  <2> QED BY <1>0, <2>m, Moved
<1>5. OnlyRefused'
  BY <1>0, <1>u DEF OnlyRefused, Elements, InMerger
<1>6. PairsInOrder'
  BY <1>0, <1>u, <1>p, PairsStayInOrder, ChannelsAre DEF PairsInOrder, Lost
<1>7. ErrsInOrder'
  BY <1>0, <1>u, ErrsStayInOrder, ChannelsAre DEF ErrsInOrder, Pipe!TransErrsShut, Pipe!InputsNil
<1> QED BY <1>1, <1>2, <1>3, <1>4, <1>5, <1>6, <1>7 DEF PipeInv

(* Or finds the channel closed and ends.                                    *)
LEMMA PairsClosedKeeps ==
    ASSUME Pipe!StagesAssumption, PipeInv, Pipe!ConsumePairs, pairs[Stages] = <<>>
    PROVE  PipeInv'
<1>0. /\ PipeTypes /\ PairInHand /\ Somewhere /\ OnePairPlace /\ OnceEach /\ OnlyRefused
      /\ PairsInOrder /\ ErrsInOrder
  BY DEF PipeInv
<1>u. UNCHANGED <<buffer, todo, pairs, errs, pairsShut, errsShut, worker, merger,
                  out, refused, refusedClosed>>
  BY DEF Pipe!ConsumePairs, Pipe!differ
<1>d. pairsShut[Stages] /\ outClosed' = TRUE
  BY DEF Pipe!ConsumePairs
<1>1. PipeTypes'
  BY <1>0, <1>d, <1>u DEF PipeTypes
<1>2. PairInHand'
  BY <1>0, <1>u DEF PairInHand
<1>3. OnceEach'
  BY <1>0, <1>u DEF OnceEach, Once
<1>4. Somewhere' /\ OnePairPlace'
  <2>1. Stays
    BY <1>u DEF Stays, InWorker, InMerger
  <2> QED BY <1>0, <2>1, Stayed
<1>5. OnlyRefused'
  BY <1>0, <1>u DEF OnlyRefused, Elements, InMerger
<1>6. PairsInOrder'
  BY <1>0, <1>d, <1>u, PairsStayInOrder, ChannelsAre DEF PairsInOrder
<1>7. ErrsInOrder'
  BY <1>0, <1>u, ErrsStayInOrder, ChannelsAre DEF ErrsInOrder, Pipe!TransErrsShut, Pipe!InputsNil
<1> QED BY <1>1, <1>2, <1>3, <1>4, <1>5, <1>6, <1>7 DEF PipeInv

(* The loop over the last Errs receives one.                               *)
LEMMA ErrsTakenKeeps ==
    ASSUME Pipe!StagesAssumption, PipeInv, Pipe!ConsumeErrs, errs[Stages] # <<>>
    PROVE  PipeInv'
<1> DEFINE d == Head(errs[Stages])
<1>0. /\ PipeTypes /\ PairInHand /\ Somewhere /\ OnePairPlace /\ OnceEach /\ OnlyRefused
      /\ PairsInOrder /\ ErrsInOrder
  BY DEF PipeInv
<1>u. UNCHANGED <<buffer, todo, pairs, pairsShut, errsShut, worker, merger, out,
                  outClosed, refusedClosed>>
  BY DEF Pipe!ConsumeErrs, Pipe!differ
<1>d. Stages \in Pipe!Channels /\ d \in Pairs /\ d \in Elements(errs[Stages])
  BY <1>0, Receiving, ChannelsAre DEF PipeTypes, OnceEach
<1>r. refused' = refused \cup {d}
  BY DEF Pipe!ConsumeErrs
<1>g. Gives(errs, errs', Stages)
  BY <1>0, <1>d, ChannelAssigned DEF Pipe!ConsumeErrs, PipeTypes
<1>o. errs \in [Pipe!Channels -> Seq(Pairs)] /\ errs' \in [Pipe!Channels -> Seq(Pairs)]
      /\ OnceIn(errs)
  BY <1>0, <1>g DEF PipeTypes, OnceEach, OnceIn, Gets, Gives
<1>e. Lost(errs, errs', Stages, d)
  BY <1>o, <1>d, <1>g, GivesKeeps
<1> HIDE DEF d
<1>1. PipeTypes'
  BY <1>0, <1>d, <1>g, <1>r, <1>u DEF PipeTypes, Gives
<1>2. PairInHand'
  BY <1>0, <1>u DEF PairInHand
<1>3. OnceEach'
  <2>1. \A j \in Pipe!Channels : Once(pairs'[j]) /\ Once(errs'[j])
    BY <1>0, <1>e, <1>u DEF OnceEach, OnceIn, Lost
  <2> QED BY <2>1 DEF OnceEach, Once
<1>4. Somewhere' /\ OnePairPlace'
  <2>m. Moves(<<"errs", Stages>>, <<"failed", 0>>, d)
    <3>1. \A k \in Pipe!StageIds : InWorker(k)' = InWorker(k) /\ InMerger(k)' = InMerger(k)
      BY <1>u DEF InWorker, InMerger
    <3> QED BY <1>d, <1>r, <1>u, <1>e, <3>1, PlacesAre, PlaceIs DEF Moves, Shift, Lost
  <2> QED BY <1>0, <2>m, Moved
<1>5. OnlyRefused'
  <2>1. \A j \in Pipe!Channels : Elements(errs'[j]) \subseteq Refusable
    BY <1>0, <1>e DEF OnlyRefused, Lost
  <2>2. d \in Refusable
    BY <1>0, <1>d DEF OnlyRefused
  <2> QED BY <1>0, <1>u, <1>r, <2>1, <2>2 DEF OnlyRefused, InMerger
<1>6. PairsInOrder'
  BY <1>0, <1>u, PairsStayInOrder, ChannelsAre DEF PairsInOrder
<1>7. ErrsInOrder'
  BY <1>0, <1>u, <1>e, ErrsStayInOrder, ChannelsAre
     DEF ErrsInOrder, Pipe!TransErrsShut, Pipe!InputsNil, Lost
<1> QED BY <1>1, <1>2, <1>3, <1>4, <1>5, <1>6, <1>7 DEF PipeInv

(* Or finds the channel closed and ends.                                    *)
LEMMA ErrsClosedKeeps ==
    ASSUME Pipe!StagesAssumption, PipeInv, Pipe!ConsumeErrs, errs[Stages] = <<>>
    PROVE  PipeInv'
<1>0. /\ PipeTypes /\ PairInHand /\ Somewhere /\ OnePairPlace /\ OnceEach /\ OnlyRefused
      /\ PairsInOrder /\ ErrsInOrder
  BY DEF PipeInv
<1>u. UNCHANGED <<buffer, todo, pairs, errs, pairsShut, errsShut, worker, merger,
                  out, refused, outClosed>>
  BY DEF Pipe!ConsumeErrs, Pipe!differ
<1>d. errsShut[Stages] /\ refusedClosed' = TRUE
  BY DEF Pipe!ConsumeErrs
<1>1. PipeTypes'
  BY <1>0, <1>d, <1>u DEF PipeTypes
<1>2. PairInHand'
  BY <1>0, <1>u DEF PairInHand
<1>3. OnceEach'
  BY <1>0, <1>u DEF OnceEach, Once
<1>4. Somewhere' /\ OnePairPlace'
  <2>1. Stays
    BY <1>u DEF Stays, InWorker, InMerger
  <2> QED BY <1>0, <2>1, Stayed
<1>5. OnlyRefused'
  BY <1>0, <1>u DEF OnlyRefused, Elements, InMerger
<1>6. PairsInOrder'
  BY <1>0, <1>u, PairsStayInOrder, ChannelsAre DEF PairsInOrder
<1>7. ErrsInOrder'
  BY <1>0, <1>d, <1>u, ErrsStayInOrder, ChannelsAre DEF ErrsInOrder, Pipe!TransErrsShut,
     Pipe!InputsNil
<1> QED BY <1>1, <1>2, <1>3, <1>4, <1>5, <1>6, <1>7 DEF PipeInv

----------------------------------------------------------------------------
(* The invariant.                                                           *)

(* To begin with every pair is with the differ.                             *)
LEMMA PipeInit ==
    ASSUME Pipe!StagesAssumption, Pipe!Init
    PROVE  PipeInv
<1>1. PipeTypes
  <2>1. buffer \in Nat
    BY DEF Pipe!Init, Pipe!StagesAssumption
  <2>2. pairs \in [Pipe!Channels -> Seq(Pairs)] /\ errs \in [Pipe!Channels -> Seq(Pairs)]
    <3>1. <<>> \in Seq(Pairs)
      OBVIOUS
    <3> QED BY <3>1 DEF Pipe!Init
  <2>3. worker \in [Pipe!StageIds -> WorkerStates]
    BY DEF Pipe!Init, WorkerStates
  <2>4. merger \in [Pipe!StageIds -> MergerStates]
    BY DEF Pipe!Init, MergerStates
  <2> QED BY <2>1, <2>2, <2>3, <2>4 DEF Pipe!Init, PipeTypes
<1>2. PairInHand
  BY DEF Pipe!Init, PairInHand
<1>3. /\ \A k \in Pipe!Channels : Elements(pairs[k]) = {} /\ Elements(errs[k]) = {}
      /\ \A k \in Pipe!StageIds : InWorker(k) = {} /\ InMerger(k) = {}
  BY DEF Pipe!Init, Elements, InWorker, InMerger
<1>4. \A p \in Places : In(p) = IF p = <<"todo", 0>> THEN Pairs ELSE {}
  <2> SUFFICES ASSUME NEW p \in Places PROVE In(p) = IF p = <<"todo", 0>> THEN Pairs ELSE {}
    OBVIOUS
  <2>1. CASE p \in {<<"todo", 0>>, <<"passed", 0>>, <<"failed", 0>>}
    BY <2>1, PlacesAre DEF Pipe!Init
  <2>2. ASSUME NEW k \in Pipe!Channels, p = <<"pairs", k>> \/ p = <<"errs", k>>
        PROVE  In(p) = {} /\ p # <<"todo", 0>>
    <3>1. In(<<"pairs", k>>) = {} /\ In(<<"errs", k>>) = {}
      BY <1>3, PlacesAre
    <3>2. <<"pairs", k>> # <<"todo", 0>> /\ <<"errs", k>> # <<"todo", 0>>
      OBVIOUS
    <3> QED BY <2>2, <3>1, <3>2
  <2>3. ASSUME NEW k \in Pipe!StageIds, p = <<"worker", k>> \/ p = <<"merger", k>>
        PROVE  In(p) = {} /\ p # <<"todo", 0>>
    <3>1. In(<<"worker", k>>) = {} /\ In(<<"merger", k>>) = {}
      BY <1>3, PlacesAre
    <3>2. <<"worker", k>> # <<"todo", 0>> /\ <<"merger", k>> # <<"todo", 0>>
      OBVIOUS
    <3> QED BY <2>3, <3>1, <3>2
  <2> QED BY <2>1, <2>2, <2>3, PlaceIs
<1>5. Somewhere /\ OnePairPlace
  BY <1>4, PlaceIs DEF Somewhere, OnePairPlace
<1>6. OnceEach
  BY DEF Pipe!Init, OnceEach, Once
<1>7. OnlyRefused
  <2>1. refused = {} /\ \A k \in Pipe!StageIds : worker[k].at = "receive"
    BY DEF Pipe!Init
  <2> QED BY <1>3, <2>1 DEF OnlyRefused
<1>8. PairsInOrder
  BY ChannelsAre DEF Pipe!Init, PairsInOrder
<1>9. ErrsInOrder
  BY ChannelsAre DEF Pipe!Init, ErrsInOrder
<1> QED BY <1>1, <1>2, <1>5, <1>6, <1>7, <1>8, <1>9 DEF PipeInv

(* A step that changes nothing keeps it.                                    *)
LEMMA StutterKeeps ==
    ASSUME PipeInv, UNCHANGED pipeVars
    PROVE  PipeInv'
<1>0. /\ PipeTypes /\ PairInHand /\ Somewhere /\ OnePairPlace /\ OnceEach /\ OnlyRefused
      /\ PairsInOrder /\ ErrsInOrder
  BY DEF PipeInv
<1>u. UNCHANGED <<buffer, todo, pairs, errs, pairsShut, errsShut, worker, merger, out,
                  refused, outClosed, refusedClosed>>
  BY DEF pipeVars, Pipe!differ, Pipe!channels, Pipe!consumers
<1>1. PipeTypes' /\ PairInHand' /\ OnceEach'
  BY <1>0, <1>u DEF PipeTypes, PairInHand, OnceEach
<1>2. Somewhere' /\ OnePairPlace'
  <2>1. Stays
    BY <1>u DEF Stays, InWorker, InMerger
  <2> QED BY <1>0, <2>1, Stayed
<1>3. OnlyRefused'
  BY <1>0, <1>u DEF OnlyRefused, InMerger
<1>4. PairsInOrder'
  BY <1>0, <1>u DEF PairsInOrder, Emptied
<1>5. ErrsInOrder'
  BY <1>0, <1>u DEF ErrsInOrder, Quiet, Pipe!TransErrsShut, Pipe!InputsNil
<1> QED BY <1>1, <1>2, <1>3, <1>4, <1>5 DEF PipeInv

(* Every step keeps it.                                                     *)
LEMMA PipeNext ==
    ASSUME Pipe!StagesAssumption, PipeInv, [Pipe!Next]_pipeVars
    PROVE  PipeInv'
<1>1. CASE Pipe!DifferSend
  <2>1. PICK d \in todo :
            /\ todo' = todo \ {d}
            /\ IF buffer = 0
               THEN /\ worker[1].at = "receive"
                    /\ worker' = [worker EXCEPT ![1].dep = d, ![1].at = "send"]
                    /\ UNCHANGED pairs
               ELSE /\ pairs' = [pairs EXCEPT ![0] = Append(@, d)]
                    /\ UNCHANGED worker
    BY <1>1 DEF Pipe!DifferSend
  <2>2. UNCHANGED <<buffer, errs, pairsShut, errsShut, merger, out, refused,
                    outClosed, refusedClosed>>
    BY <1>1 DEF Pipe!DifferSend, Pipe!consumers
  <2>3. CASE buffer = 0
    BY <2>1, <2>2, <2>3, DirectSendKeeps
  <2>4. CASE buffer # 0
    BY <2>1, <2>2, <2>4, BufferedSendKeeps
  <2> QED BY <2>3, <2>4
<1>2. CASE Pipe!DifferClose
  BY <1>2, DifferCloseKeeps
<1>3. ASSUME NEW k \in Pipe!StageIds, Pipe!WorkerStep(k) PROVE PipeInv'
  <2>1. CASE Pipe!WorkerReceive(k)
    BY <2>1, WorkerTakesKeeps, WorkerClosesKeeps
  <2>2. CASE Pipe!ProcessorFails(k)
    BY <2>2, ProcessorFailsKeeps
  <2>3. CASE Pipe!WorkerReport(k)
    BY <2>3, WorkerReportKeeps
  <2>4. CASE Pipe!WorkerSend(k)
    BY <2>4, WorkerSendKeeps
  <2>5. CASE Pipe!WorkerEnds(k)
    BY <2>5, WorkerEndsKeeps
  <2> QED BY <1>3, <2>1, <2>2, <2>3, <2>4, <2>5 DEF Pipe!WorkerStep
<1>4. ASSUME NEW k \in Pipe!StageIds, Pipe!MergerStep(k) PROVE PipeInv'
  <2>1. CASE Pipe!MergerReceive(k)
    BY <2>1, MergerReceiveKeeps
  <2>2. CASE Pipe!MergerDrops(k)
    BY <2>2, MergerDropsKeeps
  <2>3. CASE Pipe!MergerSend(k)
    BY <2>3, MergerSendKeeps
  <2>4. CASE Pipe!MergerEnds(k)
    BY <2>4, MergerEndsKeeps
  <2> QED BY <1>4, <2>1, <2>2, <2>3, <2>4 DEF Pipe!MergerStep
<1>5. CASE Pipe!ConsumePairs
  BY <1>5, PairsTakenKeeps, PairsClosedKeeps
<1>6. CASE Pipe!ConsumeErrs
  BY <1>6, ErrsTakenKeeps, ErrsClosedKeeps
<1>7. CASE UNCHANGED pipeVars
  BY <1>7, StutterKeeps
<1> QED BY <1>1, <1>2, <1>3, <1>4, <1>5, <1>6, <1>7
         DEF Pipe!Next, Pipe!Rest, pipeVars, Pipe!vars, Pipe!differ, Pipe!channels, Pipe!consumers

(* The invariant holds with any number of stages, any deployments and any   *)
(* buffer in front of the first stage.                                      *)
THEOREM PipeInvariance == Spec => []PipeInv
<1>1. Init => PipeInv
  BY PipeInit, PipeAssumption DEF Init
<1>2. PipeInv /\ [Next]_vars => PipeInv'
  BY PipeNext, LayerSteps, PipeAssumption
<1> QED BY <1>1, <1>2, PTL DEF Spec

----------------------------------------------------------------------------
(* The promise.                                                             *)

(* When the last Pairs is closed and empty no pair is on its way there.     *)
LEMMA PairsDone ==
    ASSUME Pipe!StagesAssumption, PipeInv, pairs[Stages] = <<>>, pairsShut[Stages]
    PROVE  /\ todo = {}
           /\ \A k \in Pipe!Channels : pairs[k] = <<>>
           /\ \A k \in Pipe!StageIds : worker[k].at = "gone"
<1>1. PairsInOrder
  BY DEF PipeInv
<1>2. worker[Stages].at = "gone" /\ Emptied(Stages)
  BY <1>1, ChannelsAre DEF PairsInOrder
<1>3. /\ \A k \in Pipe!Channels : k = Stages \/ k < Stages
      /\ \A k \in Pipe!StageIds : k = Stages \/ k < Stages
  BY DEF Pipe!Channels, Pipe!StageIds, Pipe!StagesAssumption
<1> QED BY <1>2, <1>3 DEF Emptied

(* When the last Errs is closed and empty no error is on its way there.     *)
LEMMA ErrsDone ==
    ASSUME Pipe!StagesAssumption, PipeInv, errs[Stages] = <<>>, errsShut[Stages]
    PROVE  /\ \A k \in Pipe!Channels : errs[k] = <<>>
           /\ \A k \in Pipe!StageIds : merger[k].at = "gone"
<1>1. ErrsInOrder
  BY DEF PipeInv
<1>2. merger[Stages].at = "gone" /\ Quiet(Stages)
  BY <1>1, ChannelsAre DEF ErrsInOrder, Pipe!InputsNil
<1>3. /\ \A k \in Pipe!Channels : k = Stages \/ k < Stages
      /\ \A k \in Pipe!StageIds : k = Stages \/ k < Stages
  BY DEF Pipe!Channels, Pipe!StageIds, Pipe!StagesAssumption
<1> QED BY <1>2, <1>3 DEF Quiet

(* A pair that no loop has received is in the pipeline.                     *)
LEMMA StillInside ==
    ASSUME PipeInv, NEW d \in Pairs \ (out \cup refused)
    PROVE  \/ d \in todo
           \/ \E k \in Pipe!Channels : d \in Elements(pairs[k]) \/ d \in Elements(errs[k])
           \/ \E k \in Pipe!StageIds : d \in InWorker(k) \/ d \in InMerger(k)
<1>1. PICK p \in Places : d \in In(p)
  BY DEF PipeInv, Somewhere
<1>2. CASE p \in {<<"todo", 0>>, <<"passed", 0>>, <<"failed", 0>>}
  BY <1>1, <1>2, PlacesAre
<1>3. ASSUME NEW k \in Pipe!Channels, p = <<"pairs", k>> \/ p = <<"errs", k>>
      PROVE  d \in Elements(pairs[k]) \/ d \in Elements(errs[k])
  BY <1>1, <1>3, PlacesAre
<1>4. ASSUME NEW k \in Pipe!StageIds, p = <<"worker", k>> \/ p = <<"merger", k>>
      PROVE  d \in InWorker(k) \/ d \in InMerger(k)
  BY <1>1, <1>4, PlacesAre
<1> QED BY <1>2, <1>3, <1>4, PlaceIs

(* What is left when the last Pairs is closed is on the way of the errors,  *)
LEMMA OnlyErrsLeft ==
    ASSUME Pipe!StagesAssumption, PipeInv, pairs[Stages] = <<>>, pairsShut[Stages]
    PROVE  Pairs \ (out \cup refused) \subseteq Refusable
<1>1. /\ todo = {}
      /\ \A k \in Pipe!Channels : Elements(pairs[k]) = {}
      /\ \A k \in Pipe!StageIds : InWorker(k) = {}
  BY PairsDone DEF Elements, InWorker
<1>2. /\ \A k \in Pipe!Channels : Elements(errs[k]) \subseteq Refusable
      /\ \A k \in Pipe!StageIds : InMerger(k) \subseteq Refusable
  BY DEF PipeInv, OnlyRefused
<1> QED BY <1>1, <1>2, StillInside

(* and nothing is left when the last Errs is closed too.                    *)
LEMMA NothingLeft ==
    ASSUME Pipe!StagesAssumption, PipeInv, pairs[Stages] = <<>>, pairsShut[Stages],
           errs[Stages] = <<>>, errsShut[Stages]
    PROVE  Pairs \ (out \cup refused) = {}
<1>1. /\ todo = {}
      /\ \A k \in Pipe!Channels : Elements(pairs[k]) = {}
      /\ \A k \in Pipe!StageIds : InWorker(k) = {}
  BY PairsDone DEF Elements, InWorker
<1>2. /\ \A k \in Pipe!Channels : Elements(errs[k]) = {}
      /\ \A k \in Pipe!StageIds : InMerger(k) = {}
  BY ErrsDone DEF Elements, InMerger
<1> QED BY <1>1, <1>2, StillInside

(* Every step of the pipeline is a step of the promise, or none of its.     *)
LEMMA StepKeepsPromise ==
    ASSUME Pipe!StagesAssumption, PipeInv, [Pipe!Next]_pipeVars
    PROVE  [Pipe!Stream!StreamNext]_(Pipe!Stream!streamVars)
<1> USE DEF Pipe!Stream!streamVars
<1>1. ASSUME UNCHANGED <<out, refused, outClosed, refusedClosed>>
      PROVE  UNCHANGED Pipe!Stream!streamVars
  BY <1>1
<1>2. CASE Pipe!ConsumePairs
  <2>u. UNCHANGED <<refused, refusedClosed>> /\ ~outClosed
    BY <1>2 DEF Pipe!ConsumePairs
  <2>1. CASE pairs[Stages] # <<>>
    <3> DEFINE d == Head(pairs[Stages])
    <3>1. d \in Pairs /\ d \in Elements(pairs[Stages]) /\ Stages \in Pipe!Channels
      BY <2>1, Receiving, ChannelsAre DEF PipeInv, PipeTypes, OnceEach
    <3>2. out' = out \cup {d} /\ UNCHANGED outClosed
      BY <1>2, <2>1 DEF Pipe!ConsumePairs
    <3> HIDE DEF d
    <3>3. d \in In(<<"pairs", Stages>>) /\ <<"pairs", Stages>> \in Places
      BY <3>1, PlacesAre, PlaceIs
    <3>4. OnePairPlace
      BY DEF PipeInv
    <3>5. d \notin out /\ d \notin refused
      <4>1. d \notin In(<<"passed", 0>>) /\ d \notin In(<<"failed", 0>>)
        BY <3>3, <3>4, Alone, PlaceIs
      <4> QED BY <4>1, PlacesAre
    <3>6. Pipe!Stream!Pass(d) /\ UNCHANGED Refusable
      BY <2>u, <3>1, <3>2, <3>5 DEF Pipe!Stream!Pass
    <3> QED BY <3>1, <3>6 DEF Pipe!Stream!StreamNext
  <2>2. CASE pairs[Stages] = <<>>
    <3>1. pairsShut[Stages] /\ outClosed' = TRUE /\ UNCHANGED out
      BY <1>2, <2>2 DEF Pipe!ConsumePairs
    <3>2. Pairs \ (out \cup refused) \subseteq Refusable
      BY <2>2, <3>1, OnlyErrsLeft
    <3>3. refusedClosed => Pairs \ (out \cup refused) = {}
      BY <2>2, <3>1, NothingLeft DEF PipeInv, ErrsInOrder
    <3>4. Pipe!Stream!ClosePairs
      BY <2>u, <3>1, <3>2, <3>3 DEF Pipe!Stream!ClosePairs
    <3> QED BY <3>4 DEF Pipe!Stream!StreamNext
  <2> QED BY <2>1, <2>2
<1>3. CASE Pipe!ConsumeErrs
  <2>u. UNCHANGED <<out, outClosed>> /\ ~refusedClosed
    BY <1>3 DEF Pipe!ConsumeErrs
  <2>1. CASE errs[Stages] # <<>>
    <3> DEFINE d == Head(errs[Stages])
    <3>1. d \in Pairs /\ d \in Elements(errs[Stages]) /\ Stages \in Pipe!Channels
      BY <2>1, Receiving, ChannelsAre DEF PipeInv, PipeTypes, OnceEach
    <3>2. refused' = refused \cup {d} /\ UNCHANGED refusedClosed
      BY <1>3, <2>1 DEF Pipe!ConsumeErrs
    <3> HIDE DEF d
    <3>3. d \in In(<<"errs", Stages>>) /\ <<"errs", Stages>> \in Places
      BY <3>1, PlacesAre, PlaceIs
    <3>4. OnePairPlace
      BY DEF PipeInv
    <3>5. d \notin out /\ d \notin refused /\ d \in Refusable
      <4>1. d \notin In(<<"passed", 0>>) /\ d \notin In(<<"failed", 0>>)
        BY <3>3, <3>4, Alone, PlaceIs
      <4>2. d \in Refusable
        BY <3>1 DEF PipeInv, OnlyRefused
      <4> QED BY <4>1, <4>2, PlacesAre
    <3>6. Pipe!Stream!Fail(d) /\ UNCHANGED Refusable
      BY <2>u, <3>1, <3>2, <3>5 DEF Pipe!Stream!Fail
    <3> QED BY <3>1, <3>6 DEF Pipe!Stream!StreamNext
  <2>2. CASE errs[Stages] = <<>>
    <3>1. errsShut[Stages] /\ refusedClosed' = TRUE /\ UNCHANGED refused
      BY <1>3, <2>2 DEF Pipe!ConsumeErrs
    <3>2. outClosed => Pairs \ (out \cup refused) = {}
      BY <2>2, <3>1, NothingLeft DEF PipeInv, PairsInOrder
    <3>3. Pipe!Stream!CloseErrs
      BY <2>u, <3>1, <3>2 DEF Pipe!Stream!CloseErrs
    <3> QED BY <3>3 DEF Pipe!Stream!StreamNext
  <2> QED BY <2>1, <2>2
<1>4. CASE ~Pipe!ConsumePairs /\ ~Pipe!ConsumeErrs
  <2>1. ASSUME NEW k \in Pipe!StageIds, Pipe!WorkerStep(k) \/ Pipe!MergerStep(k)
        PROVE  UNCHANGED <<out, refused, outClosed, refusedClosed>>
    BY <2>1 DEF Pipe!WorkerStep, Pipe!MergerStep, Pipe!WorkerReceive, Pipe!ProcessorFails,
       Pipe!WorkerReport,
         Pipe!WorkerSend, Pipe!WorkerEnds, Pipe!MergerReceive, Pipe!MergerDrops,
         Pipe!MergerSend, Pipe!MergerEnds, Pipe!consumers
  <2>2. ASSUME Pipe!DifferSend \/ Pipe!DifferClose \/ Pipe!Rest \/ UNCHANGED pipeVars
        PROVE  UNCHANGED <<out, refused, outClosed, refusedClosed>>
    BY <2>2 DEF Pipe!DifferSend, Pipe!DifferClose, Pipe!Rest, pipeVars, Pipe!vars,
         Pipe!differ, Pipe!channels, Pipe!consumers
  <2>3. UNCHANGED <<out, refused, outClosed, refusedClosed>>
    BY <1>4, <2>1, <2>2 DEF Pipe!Next
  <2> QED BY <1>1, <2>3
<1> QED BY <1>2, <1>3, <1>4

(* The safety of KeepsPromise, with any number of stages: whatever the      *)
(* processors refuse, and in whatever order the goroutines run and their    *)
(* channels close, each pair is received once, from Pairs or from Errs, and *)
(* when both loops of lib/resolver.go have ended every pair was.            *)
THEOREM KeepsPromiseSafety == Spec => Pipe!Stream!StreamSafety
<1>1. Init => Pipe!Stream!StreamInit
  BY PipeAssumption DEF Init, Pipe!Init, Pipe!Stream!StreamInit, Pipe!StagesAssumption
<1>2. PipeInv /\ [Next]_vars => [Pipe!Stream!StreamNext]_(Pipe!Stream!streamVars)
  BY StepKeepsPromise, LayerSteps, PipeAssumption
<1> QED
  BY <1>1, <1>2, PipeInvariance, PTL DEF Spec, Pipe!Stream!StreamSafety
=============================================================================
