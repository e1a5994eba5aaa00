------------------------- MODULE StatusPollerProofs -------------------------
(* The verdict of the status poller: what Complete and Failed rest on, for  *)
(* any number of clusters, any outcomes and any limit of errors.            *)
EXTENDS StatusPoller, TLAPS

----------------------------------------------------------------------------
(* The least and the greatest of a set of states.                           *)

(* A set of states has a greatest one: Max finds it.                        *)
LEMMA MaxOfStates ==
    ASSUME NEW S \in SUBSET (0..MAX), S # {}
    PROVE  Max(S) \in S /\ \A x \in S : Max(S) >= x
<1> USE DEF MAX
<1>1. \E m \in S : \A x \in S : m >= x
  <2> SUFFICES ASSUME \A m \in S : \E x \in S : x > m
               PROVE  FALSE
    OBVIOUS
  <2>1. S \cap 10..12 = {}
    OBVIOUS
  <2>2. S \cap 7..12 = {}
    BY <2>1
  <2>3. S \cap 4..12 = {}
    BY <2>2
  <2>4. S \cap 2..12 = {}
    BY <2>3
  <2>5. S \cap 1..12 = {}
    BY <2>4
  <2>6. PICK m \in S : TRUE
    OBVIOUS
  <2>7. PICK x \in S : x > m
    OBVIOUS
  <2> QED
    BY <2>5, <2>7
<1> QED
  BY <1>1 DEF Max

(* And a least one.                                                         *)
LEMMA MinOfStates ==
    ASSUME NEW S \in SUBSET (0..MAX), S # {}
    PROVE  Min(S) \in S /\ \A x \in S : Min(S) <= x
<1> USE DEF MAX
<1>1. \E m \in S : \A x \in S : m <= x
  <2> SUFFICES ASSUME \A m \in S : \E x \in S : x < m
               PROVE  FALSE
    OBVIOUS
  <2>1. S \cap 0..2 = {}
    OBVIOUS
  <2>2. S \cap 0..5 = {}
    BY <2>1
  <2>3. S \cap 0..8 = {}
    BY <2>2
  <2>4. S \cap 0..10 = {}
    BY <2>3
  <2>5. S \cap 0..11 = {}
    BY <2>4
  <2>6. PICK m \in S : TRUE
    OBVIOUS
  <2>7. PICK x \in S : x < m
    OBVIOUS
  <2> QED
    BY <2>5, <2>7
<1> QED
  BY <1>1 DEF Min

(* Of two states.                                                           *)
LEMMA OfTwo ==
    ASSUME NEW m \in 0..MAX, NEW n \in 0..MAX
    PROVE  /\ Min({m, n}) = IF m <= n THEN m ELSE n
           /\ Max({m, n}) = IF m >= n THEN m ELSE n
<1>1. Min({m, n}) \in {m, n} /\ Min({m, n}) <= m /\ Min({m, n}) <= n
  BY MinOfStates
<1>2. Max({m, n}) \in {m, n} /\ Max({m, n}) >= m /\ Max({m, n}) >= n
  BY MaxOfStates
<1> QED
  BY <1>1, <1>2 DEF MAX

----------------------------------------------------------------------------
(* computeStatus (status_poller.go).                                        *)

(* A result that makes the verdict Failed in a cluster's last cycle.        *)
Lost(r) == r.stat \in {NotStarted, NotVersion, Failed}

(* The verdict is Complete only if that was the result of some cluster, and *)
(* Failed only if a cluster in its last cycle has lost; and if one has, it  *)
(* is a verdict.                                                            *)
LEMMA ComputeStatusRests ==
    ASSUME NEW K \in [Clusters -> Results \cup {Unknown}], NEW L \in SUBSET Clusters
    PROVE  /\ ComputeStatus(K, L) \in 0..(MAX - 1)
           /\ ComputeStatus(K, L) = Complete => \E c \in Clusters : K[c].stat = Complete
           /\ ComputeStatus(K, L) = Failed => \E c \in L : Lost(K[c])
           /\ ComputeStatus(K, L) < TERMINALS => \A c \in L : ~Lost(K[c])
<1> DEFINE heard == {c \in Clusters : K[c] # Unknown}
           late == {K[c].stat : c \in heard \cap L}
           early == {K[c].stat : c \in heard \ L}
           max(S) == IF S = {} THEN 0 ELSE Max(S)
           min(S) == IF S = {} THEN MAX ELSE Min(S)
<1>1. late \subseteq 0..(MAX - 1) /\ early \subseteq 0..(MAX - 1)
  BY DEF Results
<1>2. \A S \in SUBSET (0..(MAX - 1)) :
        /\ max(S) \in 0..(MAX - 1) /\ min(S) \in 0..MAX
        /\ max(S) # 0 => max(S) \in S
        /\ min(S) # MAX => min(S) \in S
        /\ min(S) = MAX => S = {}
        /\ S = {} => max(S) = 0 /\ min(S) = MAX
  <2> TAKE S \in SUBSET (0..(MAX - 1))
  <2>1. CASE S = {}
    BY <2>1 DEF MAX
  <2>2. CASE S # {}
    <3>1. S \in SUBSET (0..MAX)
      BY DEF MAX
    <3>2. Max(S) \in S /\ Min(S) \in S
      BY <2>2, <3>1, MaxOfStates, MinOfStates
    <3>3. max(S) = Max(S) /\ min(S) = Min(S)
      BY <2>2
    <3>4. Max(S) \in 0..(MAX - 1) /\ Min(S) \in 0..(MAX - 1)
      BY <3>2
    <3>5. 0..(MAX - 1) \subseteq 0..MAX /\ MAX \notin 0..(MAX - 1)
      BY DEF MAX
    <3> HIDE DEF max, min
    <3> QED
      BY <2>2, <3>2, <3>3, <3>4, <3>5
  <2> QED
    BY <2>1, <2>2
<1>3. ComputeStatus(K, L) =
        IF late \cap {NotVersion, NotStarted} # {} THEN Failed
        ELSE IF max(early) = Complete /\ min(early) = Complete THEN Complete
        ELSE IF max(early) = HTTPFailed \/ max(late) = HTTPFailed THEN HTTPFailed
        ELSE IF max(late) = Failed THEN Failed
        ELSE IF max(late) = 0 /\ min(late) = MAX THEN Min({max(early), InProgress})
        ELSE IF max(early) # 0 /\ min(early) # MAX THEN InProgress
        ELSE IF max(late) = Complete /\ min(late) = Complete THEN Complete
        ELSE Max({InProgress, min(late)})
  BY DEF ComputeStatus
<1>4. Complete \in late \cup early => \E c \in Clusters : K[c].stat = Complete
  OBVIOUS
<1>l. (\E c \in L : Lost(K[c])) <=> late \cap {NotStarted, NotVersion, Failed} # {}
  <2>1. \A c \in Clusters : Lost(K[c]) => c \in heard
    BY DEF Lost, Unknown, NotPolled, NotStarted, NotVersion, Failed
  <2>2. ASSUME NEW c \in L, Lost(K[c])
        PROVE  late \cap {NotStarted, NotVersion, Failed} # {}
    <3>1. K[c].stat \in late /\ K[c].stat \in {NotStarted, NotVersion, Failed}
      BY <2>1, <2>2 DEF Lost
    <3> QED
      BY <3>1
  <2>3. ASSUME NEW x \in late, x \in {NotStarted, NotVersion, Failed}
        PROVE  \E c \in L : Lost(K[c])
    <3>1. PICK c \in heard \cap L : x = K[c].stat
      BY <2>3
    <3> QED
      BY <2>3, <3>1 DEF Lost
  <2> QED
    BY <2>2, <2>3
<1> HIDE DEF heard, late, early, max, min
<1>5. /\ max(early) \in 0..(MAX - 1) /\ min(early) \in 0..MAX
      /\ max(late) \in 0..(MAX - 1) /\ min(late) \in 0..MAX
      /\ max(early) # 0 => max(early) \in early
      /\ min(late) # MAX => min(late) \in late
      /\ max(late) # 0 => max(late) \in late
      /\ min(late) = MAX => late = {}
      /\ late = {} => max(late) = 0
      /\ Failed \in late => max(late) \in late /\ max(late) >= Failed
  <2>1. Failed \in late => max(late) = Max(late) /\ \A x \in late : Max(late) >= x
    <3> SUFFICES ASSUME Failed \in late
                 PROVE  max(late) = Max(late) /\ \A x \in late : Max(late) >= x
      OBVIOUS
    <3>1. late # {} /\ late \in SUBSET (0..MAX)
      BY <1>1 DEF MAX
    <3> QED
      BY <3>1, MaxOfStates DEF max
  <2> QED
    BY <1>1, <1>2, <2>1 DEF Failed
<1>6. /\ Min({max(early), InProgress}) \in 0..InProgress
      /\ Max({InProgress, min(late)}) = IF InProgress >= min(late) THEN InProgress
                                        ELSE min(late)
  <2>1. {max(early), InProgress, min(late)} \subseteq 0..MAX
    BY <1>5 DEF MAX, InProgress
  <2>2. Min({max(early), InProgress}) = IF max(early) <= InProgress THEN max(early)
                                        ELSE InProgress
    BY <2>1, OfTwo
  <2>3. Max({InProgress, min(late)}) = IF InProgress >= min(late) THEN InProgress
                                       ELSE min(late)
    BY <2>1, OfTwo
  <2> QED
    BY <2>2, <2>3, <1>5 DEF MAX, InProgress
<1> DEFINE result == ComputeStatus(K, L)
           bad == late \cap {NotVersion, NotStarted} # {}
<1>7. bad => result = Failed
  BY <1>3
<1>8. ~bad => /\ result \in 0..(MAX - 1)
              /\ result = Complete => Complete \in late \cup early
              /\ result = Failed => Failed \in late
              /\ Failed \in late => result >= NotIntended
  BY <1>3, <1>5, <1>6 DEF NotStarted, NotVersion, InProgress, Complete, Failed,
     HTTPFailed, MAX, NotIntended
<1>9. (\E c \in L : Lost(K[c])) <=> bad \/ Failed \in late
  BY <1>l
<1> HIDE DEF result, bad
<1>10. /\ result \in 0..(MAX - 1)
       /\ result = Complete => \E c \in Clusters : K[c].stat = Complete
       /\ result = Failed => \E c \in L : Lost(K[c])
       /\ result < TERMINALS => \A c \in L : ~Lost(K[c])
  BY <1>4, <1>7, <1>8, <1>9 DEF Complete, Failed, MAX, TERMINALS, NotIntended
<1> QED
  BY <1>10 DEF result

----------------------------------------------------------------------------
(* The protocol.                                                            *)

(* A result Complete, and whatever it was made from, is of a version that a *)
(* server has logged to be running.                                         *)
CompleteSeen ==
    /\ \A c \in Clusters : "unchanged" \in {now[c], completed[c]} => confirmed
    /\ \A c \in Clusters : known[c].stat = Complete => confirmed
    /\ status = Complete => confirmed

(* What a cluster's last result says of the cycle it was of: unless a poll  *)
(* has failed, another resolveID means that it has begun one since.         *)
Heard(c) == known[c] \notin {Unknown, First}
LastCycleSeen ==
    \A c \in Clusters :
        /\ Heard(c) /\ fresh[c] => moved[c]
        /\ Heard(c) /\ ~fresh[c] /\ ~moved[c] =>
             known[c].id = IF now[c] = "none" THEN "none" ELSE "some"
        /\ lastCycle[c] => moved[c]

(* A cluster that loses ends the poll at once, so that what the poller has  *)
(* heard of it is what it says.                                             *)
LostAtOnce ==
    /\ ~done => \A c \in Clusters : lastCycle[c] => ~Lost(known[c])
    /\ \A c \in Clusters : /\ completed[c] # "none"
                           /\ resolving[c] => now[c] # "none"

PollerInv ==
    /\ TypeOK
    /\ CompleteSeen
    /\ LastCycleSeen
    /\ LostAtOnce
    /\ FailedIsGrounded

(* A client begins with nothing heard.                                      *)
LEMMA PollerInit == Init => PollerInv
<1> SUFFICES ASSUME Init PROVE PollerInv
  OBVIOUS
<1>1. TypeOK
  <2>1. status \in 0..(MAX - 1) /\ errors \in [Clusters -> 0..(ErrorLimit + 1)]
    BY ErrorLimitAssumption DEF Init, MAX, NotPolled
  <2>2. {now, completed} \subseteq [Clusters -> Statuses]
    BY DEF Init, Statuses, Intents
  <2> QED
    BY <2>1, <2>2, Zenon DEF Init, TypeOK
<1>2. CompleteSeen
  BY DEF Init, CompleteSeen, Unknown, NotPolled, Complete, Intents
<1>3. LastCycleSeen
  BY DEF Init, LastCycleSeen, Heard
<1>4. LostAtOnce /\ FailedIsGrounded
  BY DEF Init, LostAtOnce, FailedIsGrounded
<1> QED
  BY <1>1, <1>2, <1>3, <1>4 DEF PollerInv

(* What the collector makes of a result (nextSubStatus, finished).          *)
LEMMA ReceiveKeeps ==
    ASSUME PollerInv, ~done, NEW c \in Clusters, NEW r \in Results, NEW again \in BOOLEAN,
           Receive(c, r, again)
    PROVE  /\ known' \in [Clusters -> Results \cup {Unknown}]
           /\ lastCycle' \in [Clusters -> BOOLEAN]
           /\ status' \in 0..(MAX - 1)
           /\ done' \in BOOLEAN
           /\ status' = Complete => \E d \in Clusters : known'[d].stat = Complete
           /\ status' = Failed => lastCycle'[c] /\ Lost(r)
           /\ ~done' => \A d \in Clusters : lastCycle'[d] => ~Lost(known'[d])
           /\ lastCycle'[c] => lastCycle[c] \/ (Heard(c) /\ ~again)
           /\ known'[c] = r
           /\ \A d \in Clusters : d # c => /\ known'[d] = known[d]
                                          /\ lastCycle'[d] = lastCycle[d]
<1>1. /\ known' = [known EXCEPT ![c] = r]
      /\ known \in [Clusters -> Results \cup {Unknown}]
  BY DEF PollerInv, TypeOK, Receive
<1>2. /\ lastCycle' = [lastCycle EXCEPT ![c] = @ \/ (Heard(c) /\ ~again)]
      /\ lastCycle \in [Clusters -> BOOLEAN]
  BY DEF PollerInv, TypeOK, Receive, Heard
<1>3. known' \in [Clusters -> Results \cup {Unknown}]
  BY <1>1
<1>4. lastCycle' \in [Clusters -> BOOLEAN]
  BY <1>2, Zenon
<1> DEFINE late == {d \in Clusters : lastCycle'[d]}
<1>5. status' = ComputeStatus(known', late)
  BY DEF Receive
<1>6. /\ status' \in 0..(MAX - 1)
      /\ status' = Complete => \E d \in Clusters : known'[d].stat = Complete
      /\ status' = Failed => \E d \in late : Lost(known'[d])
      /\ status' < TERMINALS => \A d \in late : ~Lost(known'[d])
  <2>1. late \in SUBSET Clusters
    OBVIOUS
  <2> HIDE DEF late
  <2> QED
    BY <1>3, <1>5, <2>1, ComputeStatusRests
<1>7. done' = (status' >= TERMINALS)
  BY DEF Receive
<1>8. /\ lastCycle'[c] => lastCycle[c] \/ (Heard(c) /\ ~again)
      /\ \A d \in Clusters : d # c => lastCycle'[d] = lastCycle[d]
  BY <1>2, Zenon
<1>9. known'[c] = r /\ \A d \in Clusters : d # c => known'[d] = known[d]
  BY <1>1
<1>10. status' = Failed => lastCycle'[c] /\ Lost(r)
  <2> SUFFICES ASSUME status' = Failed PROVE lastCycle'[c] /\ Lost(r)
    OBVIOUS
  <2>1. PICK d \in Clusters : lastCycle'[d] /\ Lost(known'[d])
    BY <1>6
  <2>2. CASE d = c
    BY <1>9, <2>1, <2>2
  <2>3. CASE d # c
    <3>1. lastCycle[d] /\ known'[d] = known[d]
      BY <1>8, <1>9, <2>1, <2>3
    <3>2. Lost(known[d])
      BY <2>1, <3>1
    <3> QED
      BY <3>1, <3>2 DEF PollerInv, LostAtOnce
  <2> QED
    BY <2>2, <2>3
<1>11. ~done' => \A d \in Clusters : lastCycle'[d] => ~Lost(known'[d])
  <2>1. ~done' => status' < TERMINALS
    <3>1. ~done' => ~(status' >= TERMINALS)
      BY <1>7, Zenon
    <3> QED
      BY <1>6, <3>1 DEF MAX, TERMINALS, NotIntended
  <2> QED
    BY <1>6, <2>1
<1> QED
  BY <1>3, <1>4, <1>6, <1>7, <1>8, <1>9, <1>10, <1>11

(* Every step preserves PollerInv.                                          *)
LEMMA PollerNext == PollerInv /\ [Next]_vars => PollerInv'
<1> SUFFICES ASSUME PollerInv, [Next]_vars PROVE PollerInv'
  OBVIOUS
<1> USE DEF server, poller
<1>0. TypeOK /\ CompleteSeen /\ LastCycleSeen /\ LostAtOnce /\ FailedIsGrounded
  BY DEF PollerInv
<1>1. ASSUME NEW c \in Clusters, BeginCycle(c) PROVE PollerInv'
  <2>1. TypeOK'
    <3>1. now' \in [Clusters -> Statuses] /\ read' \in [Clusters -> Intents]
      BY <1>0, <1>1 DEF TypeOK, BeginCycle, Statuses, Intents
    <3>2. {resolving', fresh', down', lastCycle', moved'} \subseteq [Clusters -> BOOLEAN]
      BY <1>0, <1>1 DEF TypeOK, BeginCycle
    <3> QED
      BY <1>0, <1>1, <3>1, <3>2 DEF TypeOK, BeginCycle
  <2>2. read[c] \in Intents
    BY <1>0 DEF TypeOK
  <2>3. CompleteSeen'
    BY <1>0, <1>1, <2>2 DEF TypeOK, CompleteSeen, BeginCycle, Intents
  <2>4. LastCycleSeen'
    BY <1>0, <1>1 DEF TypeOK, LastCycleSeen, BeginCycle, Heard
  <2>5. LostAtOnce' /\ FailedIsGrounded'
    BY <1>0, <1>1, <2>2 DEF TypeOK, LostAtOnce, FailedIsGrounded, BeginCycle, Intents
  <2> QED
    BY <2>1, <2>3, <2>4, <2>5 DEF PollerInv
<1>2. ASSUME NEW c \in Clusters, LogResolution(c) PROVE PollerInv'
  <2>0. PICK o \in Outcomes : /\ now' = [now EXCEPT ![c] = o]
                              /\ confirmed' = (confirmed \/ o = "unchanged")
    BY <1>2 DEF LogResolution
  <2>1. TypeOK'
    BY <1>0, <1>2, <2>0 DEF TypeOK, LogResolution, Statuses
  <2>2. CompleteSeen'
    BY <1>0, <1>2, <2>0 DEF TypeOK, CompleteSeen, LogResolution
  <2>3. now[c] = "pending" /\ o # "none"
    BY <1>2, OutcomesAssumption DEF LogResolution, Errors
  <2>4. LastCycleSeen'
    BY <1>0, <1>2, <2>0, <2>3 DEF TypeOK, LastCycleSeen, LogResolution, Heard
  <2>5. LostAtOnce' /\ FailedIsGrounded'
    BY <1>0, <1>2, <2>0, <2>3 DEF TypeOK, LostAtOnce, FailedIsGrounded, LogResolution
  <2> QED
    BY <2>1, <2>2, <2>4, <2>5 DEF PollerInv
<1>3. ASSUME NEW c \in Clusters, EndCycle(c) PROVE PollerInv'
  <2>1. TypeOK'
    BY <1>0, <1>3 DEF TypeOK, EndCycle
  <2>2. CompleteSeen'
    BY <1>0, <1>3 DEF TypeOK, CompleteSeen, EndCycle
  <2>3. LastCycleSeen'
    BY <1>0, <1>3 DEF LastCycleSeen, EndCycle, Heard
  <2>4. LostAtOnce' /\ FailedIsGrounded'
    BY <1>0, <1>3 DEF TypeOK, LostAtOnce, FailedIsGrounded, EndCycle
  <2> QED
    BY <2>1, <2>2, <2>3, <2>4 DEF PollerInv
<1>4. ASSUME NEW c \in Clusters, Outage(c) PROVE PollerInv'
  <2>1. TypeOK'
    BY <1>0, <1>4 DEF TypeOK, Outage
  <2>2. CompleteSeen' /\ LastCycleSeen'
    BY <1>0, <1>4 DEF CompleteSeen, LastCycleSeen, Outage, Heard
  <2>3. LostAtOnce' /\ FailedIsGrounded'
    BY <1>0, <1>4 DEF LostAtOnce, FailedIsGrounded, Outage
  <2> QED
    BY <2>1, <2>2, <2>3 DEF PollerInv
<1>5. ASSUME NEW c \in Clusters, Start(c) PROVE PollerInv'
  <2>1. First \in Results /\ First.stat # Complete /\ ~Lost(First) /\ ~Heard(c)
    <3>1. First \in Results /\ First.stat # Complete /\ ~Lost(First)
      BY DEF First, Results, IDs, MAX, NotPolled, Complete, Lost, NotStarted, NotVersion,
         Failed
    <3> QED
      BY <1>5, <3>1 DEF Start, Heard
  <2>2. /\ Receive(c, First, TRUE) /\ ~done
        /\ UNCHANGED <<read, now, completed, resolving, down, confirmed, fresh, errors,
                       moved>>
    BY <1>5 DEF Start
  <2>r. /\ known' \in [Clusters -> Results \cup {Unknown}]
        /\ lastCycle' \in [Clusters -> BOOLEAN]
        /\ status' \in 0..(MAX - 1)
        /\ done' \in BOOLEAN
        /\ status' = Complete => \E d \in Clusters : known'[d].stat = Complete
        /\ status' = Failed => lastCycle'[c] /\ Lost(First)
        /\ ~done' => \A d \in Clusters : lastCycle'[d] => ~Lost(known'[d])
        /\ lastCycle'[c] => lastCycle[c]
        /\ known'[c] = First
        /\ \A d \in Clusters : d # c => /\ known'[d] = known[d]
                                       /\ lastCycle'[d] = lastCycle[d]
    BY <2>1, <2>2, ReceiveKeeps
  <2>3. TypeOK'
    BY <1>0, <2>2, <2>r DEF TypeOK
  <2>4. CompleteSeen'
    BY <1>0, <2>1, <2>2, <2>r DEF CompleteSeen
  <2>5. LastCycleSeen'
    BY <1>0, <2>2, <2>r DEF LastCycleSeen, Heard
  <2>6. LostAtOnce' /\ FailedIsGrounded'
    BY <1>0, <2>1, <2>2, <2>r DEF LostAtOnce, FailedIsGrounded
  <2> QED
    BY <2>3, <2>4, <2>5, <2>6 DEF PollerInv
<1>6. ASSUME NEW c \in Clusters, PollOnce(c) PROVE PollerInv'
  <2> DEFINE id == IF now[c] = "none" THEN "none" ELSE "some"
             r == [stat |-> Stat(c), id |-> id]
             again == known[c].id = id /\ ~fresh[c]
  <2>1. /\ Stat(c) \in 0..(MAX - 1)
        /\ Stat(c) = Complete => confirmed
        /\ Stat(c) \in {NotStarted, NotVersion, Failed} =>
              \/ {now[c], completed[c]} \cap Lasting # {}
              \/ completed[c] \in {"noIntent", "otherVersion"}
    <3> DEFINE Told(s) ==
            /\ ComputeState(s) \in 0..(MAX - 1)
            /\ ComputeState(s) = Complete => s = "unchanged"
            /\ ComputeState(s) = Failed => s \in Lasting
            /\ ComputeState(s) = NotStarted => s \in {"none", "noIntent"}
            /\ ComputeState(s) = NotVersion => s = "otherVersion"
    <3>1. \A s \in Statuses : Told(s)
      BY OutcomesAssumption DEF Statuses, Intents, Errors, Lasting, ComputeState, NotStarted,
         NotVersion, PendingRequest, ErredRez, Failed, Complete, TasksStarting, InProgress,
         IsTransientResolveError, MAX
    <3>2. now[c] \in Statuses /\ completed[c] \in Statuses /\ completed[c] # "none"
      BY <1>0 DEF TypeOK, LostAtOnce
    <3>3. Told(now[c]) /\ Told(completed[c])
      BY <3>1, <3>2
    <3>4. /\ "unchanged" \in {now[c], completed[c]} => confirmed
      BY <1>0 DEF CompleteSeen
    <3> QED
      BY <3>2, <3>3, <3>4 DEF Stat, NotStarted, NotVersion, PendingRequest, Complete, Failed
  <2>2. r \in Results /\ r.id = id /\ r.stat = Stat(c) /\ again \in BOOLEAN
    BY <2>1 DEF Results, IDs
  <2>3. /\ Receive(c, r, again) /\ ~done
        /\ fresh' = [fresh EXCEPT ![c] = FALSE]
        /\ errors' = [errors EXCEPT ![c] = 0]
        /\ UNCHANGED <<read, now, completed, resolving, down, confirmed, moved>>
    BY <1>6 DEF PollOnce
  <2>4. Heard(c) /\ ~again => moved[c]
    BY <1>0 DEF LastCycleSeen
  <2>l. Lost(r) => \/ {now[c], completed[c]} \cap Lasting # {}
                   \/ completed[c] \in {"noIntent", "otherVersion"}
    BY <2>1, <2>2 DEF Lost
  <2> HIDE DEF r, again
  <2>r. /\ known' \in [Clusters -> Results \cup {Unknown}]
        /\ lastCycle' \in [Clusters -> BOOLEAN]
        /\ status' \in 0..(MAX - 1)
        /\ done' \in BOOLEAN
        /\ status' = Complete => \E d \in Clusters : known'[d].stat = Complete
        /\ status' = Failed => lastCycle'[c] /\ Lost(r)
        /\ ~done' => \A d \in Clusters : lastCycle'[d] => ~Lost(known'[d])
        /\ lastCycle'[c] => lastCycle[c] \/ (Heard(c) /\ ~again)
        /\ known'[c] = r
        /\ \A d \in Clusters : d # c => /\ known'[d] = known[d]
                                       /\ lastCycle'[d] = lastCycle[d]
    BY <2>2, <2>3, ReceiveKeeps
  <2>5. TypeOK'
    <3>1. errors' \in [Clusters -> 0..(ErrorLimit + 1)]
      BY <1>0, <2>3, ErrorLimitAssumption DEF TypeOK
    <3>2. fresh' \in [Clusters -> BOOLEAN]
      BY <1>0, <2>3 DEF TypeOK
    <3> QED
      BY <1>0, <2>3, <2>r, <3>1, <3>2 DEF TypeOK
  <2>6. CompleteSeen'
    BY <1>0, <2>1, <2>2, <2>3, <2>r DEF CompleteSeen
  <2>7. LastCycleSeen'
    <3>1. \A d \in Clusters : d # c => Heard(d)' = Heard(d) /\ fresh'[d] = fresh[d]
      BY <1>0, <2>3, <2>r DEF TypeOK, Heard
    <3>2. ~fresh'[c]
      BY <1>0, <2>3 DEF TypeOK
    <3> QED
      BY <1>0, <2>2, <2>3, <2>4, <2>r, <3>1, <3>2 DEF LastCycleSeen
  <2>8. LostAtOnce'
    BY <1>0, <2>3, <2>r DEF LostAtOnce
  <2>9. FailedIsGrounded'
    <3>1. lastCycle'[c] => moved[c]
      BY <1>0, <2>4, <2>r DEF LastCycleSeen
    <3> QED
      BY <2>3, <2>l, <2>r, <3>1 DEF FailedIsGrounded
  <2> QED
    BY <2>5, <2>6, <2>7, <2>8, <2>9 DEF PollerInv
<1>7. ASSUME NEW c \in Clusters, PollErrs(c) PROVE PollerInv'
  <2> DEFINE stat == IF errors'[c] > ErrorLimit THEN HTTPFailed ELSE ErredHTTP
             r == [stat |-> stat, id |-> "none"]
             again == known[c].id = "none"
  <2>1. r \in Results /\ r.stat # Complete /\ ~Lost(r) /\ again \in BOOLEAN
    BY DEF Results, IDs, MAX, HTTPFailed, ErredHTTP, Complete, Lost, NotStarted, NotVersion,
       Failed
  <2>2. /\ Receive(c, r, again) /\ ~done
        /\ errors' = [errors EXCEPT ![c] = Min({@, ErrorLimit}) + 1]
        /\ moved' = [moved EXCEPT ![c] = TRUE]
        /\ UNCHANGED <<read, now, completed, resolving, down, confirmed, fresh>>
    BY <1>7 DEF PollErrs
  <2> HIDE DEF r, again
  <2>r. /\ known' \in [Clusters -> Results \cup {Unknown}]
        /\ lastCycle' \in [Clusters -> BOOLEAN]
        /\ status' \in 0..(MAX - 1)
        /\ done' \in BOOLEAN
        /\ status' = Complete => \E d \in Clusters : known'[d].stat = Complete
        /\ status' = Failed => lastCycle'[c] /\ Lost(r)
        /\ ~done' => \A d \in Clusters : lastCycle'[d] => ~Lost(known'[d])
        /\ known'[c] = r
        /\ \A d \in Clusters : d # c => /\ known'[d] = known[d]
                                       /\ lastCycle'[d] = lastCycle[d]
    BY <2>1, <2>2, ReceiveKeeps
  <2>3. errors' \in [Clusters -> 0..(ErrorLimit + 1)]
    <3>1. \A n \in Nat : Min({n, ErrorLimit}) = IF n <= ErrorLimit THEN n ELSE ErrorLimit
      BY ErrorLimitAssumption DEF Min
    <3>2. errors \in [Clusters -> 0..(ErrorLimit + 1)] /\ errors[c] \in Nat
      BY <1>0, ErrorLimitAssumption DEF TypeOK
    <3>3. Min({errors[c], ErrorLimit}) + 1 \in 0..(ErrorLimit + 1)
      BY <3>1, <3>2, ErrorLimitAssumption
    <3> QED
      BY <2>2, <3>2, <3>3
  <2>4. TypeOK'
    <3>1. moved' \in [Clusters -> BOOLEAN]
      BY <1>0, <2>2 DEF TypeOK
    <3> QED
      BY <1>0, <2>2, <2>3, <2>r, <3>1 DEF TypeOK
  <2>5. CompleteSeen'
    BY <1>0, <2>1, <2>2, <2>r DEF CompleteSeen
  <2>6. LastCycleSeen'
    <3>1. \A d \in Clusters : d # c => /\ Heard(d)' = Heard(d)
                                       /\ moved'[d] = moved[d]
      BY <1>0, <2>2, <2>r DEF TypeOK, Heard
    <3>2. moved'[c]
      BY <1>0, <2>2 DEF TypeOK
    <3> QED
      BY <1>0, <2>2, <2>r, <3>1, <3>2 DEF LastCycleSeen
  <2>7. LostAtOnce' /\ FailedIsGrounded'
    BY <1>0, <2>1, <2>2, <2>r DEF LostAtOnce, FailedIsGrounded
  <2> QED
    BY <2>4, <2>5, <2>6, <2>7 DEF PollerInv
<1>8. CASE UNCHANGED vars
  <2>1. TypeOK'
    BY <1>0, <1>8 DEF TypeOK, vars
  <2>2. CompleteSeen' /\ LastCycleSeen'
    BY <1>0, <1>8 DEF CompleteSeen, LastCycleSeen, Heard, vars
  <2>3. LostAtOnce' /\ FailedIsGrounded'
    BY <1>0, <1>8 DEF LostAtOnce, FailedIsGrounded, vars
  <2> QED
    BY <2>1, <2>2, <2>3 DEF PollerInv
<1> QED
  BY <1>1, <1>2, <1>3, <1>4, <1>5, <1>6, <1>7, <1>8 DEF Next, ServerStep, SubStep

(* The inductive invariant of the poller and the servers it asks.           *)
THEOREM PollerInvariance == Spec => []PollerInv
<1> QED
  BY PollerInit, PollerNext, PTL DEF Spec

(* sous deploy -wait-stable never reports a success that no server saw:     *)
(* when the verdict is ResolveComplete, a server has logged that the        *)
(* version waited for is running.                                           *)
THEOREM CompleteIsRealAlways == Spec => []CompleteIsReal
<1>1. PollerInv => CompleteIsReal
  BY DEF PollerInv, CompleteSeen, CompleteIsReal
<1> QED
  BY <1>1, PollerInvariance, PTL

(* Nor a failure that nobody has seen: when the verdict is ResolveFailed,   *)
(* there is a cluster that has begun a resolve since its first poll, or a   *)
(* poll of it has failed, and that has logged a lasting failure, or whose   *)
(* last complete resolve was of a GDM from before the change.               *)
THEOREM FailedIsGroundedAlways == Spec => []FailedIsGrounded
<1>1. PollerInv => FailedIsGrounded
  BY DEF PollerInv
<1> QED
  BY <1>1, PollerInvariance, PTL
=============================================================================
