---------------------- MODULE RunningDeploymentsProofs ----------------------
(* What RunningDeployments returns is complete: for any requests, hosts,    *)
(* channel capacities, pool and retry limit.                                *)
EXTENDS RunningDeployments, FiniteSetTheorems, TLAPS

(* A request whose turn to be sent has still to come.                       *)
ToSend(r) == lister[Host[r]] = "get" \/ r \in unsent[Host[r]]

(* A lister sends the requests of its own Singularity, and has some only    *)
(* while it sends.                                                          *)
ListsOwn ==
    \A s \in Sings : /\ unsent[s] \subseteq {r \in Requests : Host[r] = s}
                     /\ lister[s] # "send" => unsent[s] = {}

(* A request is in one place at a time.                                     *)
OnePlace ==
    \A r \in Requests :
        /\ r \in reqCh => assembler[r] = "none" /\ r \notin depCh /\ r \notin sleeping
        /\ assembler[r] # "none" => r \notin depCh /\ r \notin sleeping
        /\ r \in depCh => r \notin sleeping
        /\ ToSend(r) => r \notin Outstanding

(* The wait group counts no more than what is outstanding, and no less      *)
(* while every list could be read.                                          *)
Counts ==
    main # "failed" =>
        /\ depWait <= Cardinality(Outstanding)
        /\ ListsRead => depWait = Cardinality(Outstanding)

(* No request of a list that was read is forgotten.                         *)
Kept ==
    ListsRead /\ main # "failed" =>
        \A r \in Requests : lister[Host[r]] \in {"send", "done"} =>
            r \in unsent[Host[r]] \cup Outstanding \cup deps \cup ignored

(* What each step of the closing goroutine has waited for.                  *)
Closing ==
    /\ closer # "sing" => \A s \in Sings : lister[s] \in {"done", "dropped"}
    /\ closer \notin {"sing", "dep"} => depWait = 0
    /\ closer \notin {"sing", "dep", "assemble"} /\ ListsRead /\ main # "failed" =>
          leaving = 0
    /\ main = "returned" => closer = "gone"

RunningInv ==
    /\ TypeOK
    /\ ListsOwn
    /\ OnePlace
    /\ Counts
    /\ Kept
    /\ Closing

----------------------------------------------------------------------------
(* Counting a set of requests as one comes or goes.                         *)
LEMMA Counting ==
    ASSUME NEW S \in SUBSET Requests
    PROVE  /\ Cardinality(S) \in Nat /\ Cardinality(S) <= Cardinality(Requests)
           /\ Cardinality(Requests) \in Nat
           /\ Cardinality(S) = 0 <=> S = {}
           /\ \A r \in Requests : r \notin S => Cardinality(S \cup {r}) = Cardinality(S) + 1
           /\ \A r \in S : Cardinality(S \ {r}) = Cardinality(S) - 1
<1>1. IsFiniteSet(S) /\ Cardinality(S) <= Cardinality(Requests)
  BY FS_Subset, RequestsAssumption
<1>2. Cardinality(S) \in Nat /\ Cardinality(Requests) \in Nat
  BY <1>1, FS_CardinalityType, RequestsAssumption
<1>3. Cardinality(S) = 0 <=> S = {}
  BY <1>1, FS_EmptySet
<1>4. \A r \in Requests : r \notin S => Cardinality(S \cup {r}) = Cardinality(S) + 1
  BY <1>1, FS_AddElement
<1>5. \A r \in S : Cardinality(S \ {r}) = Cardinality(S) - 1
  BY <1>1, FS_RemoveElement
<1> QED
  BY <1>1, <1>2, <1>3, <1>4, <1>5

(* Nothing is outstanding once the closing goroutine has waited for the     *)
(* requests.                                                                *)
LEMMA NothingOutstanding ==
    ASSUME RunningInv, ListsRead, main # "failed", closer \notin {"sing", "dep"}
    PROVE  Outstanding = {}
<1>1. Outstanding \in SUBSET Requests
  BY DEF RunningInv, TypeOK, Outstanding, Assembling
<1>2. Cardinality(Outstanding) = 0
  BY DEF RunningInv, Counts, Closing
<1> QED
  BY <1>1, <1>2, Counting

(* A collection begins with nothing listed.                                 *)
LEMMA RunningInit == Init => RunningInv
<1> SUFFICES ASSUME Init PROVE RunningInv
  OBVIOUS
<1>0. Outstanding = {} /\ {ReqCap, DepCap} \subseteq Nat /\ RetryLimit \in Nat
  BY SizesAssumption, RetryLimitAssumption DEF Init, Outstanding, Assembling
<1>1. Cardinality({}) = 0 /\ Cardinality(Requests) \in Nat
  BY FS_EmptySet, FS_CardinalityType, RequestsAssumption
<1>2. TypeOK
  BY <1>0, <1>1 DEF Init, TypeOK
<1>3. ListsOwn /\ Kept
  BY HostAssumption DEF Init, ListsOwn, Kept
<1>4. OnePlace
  BY <1>0 DEF Init, OnePlace
<1>5. Counts /\ Closing
  BY <1>0, <1>1 DEF Init, Counts, Closing
<1> QED
  BY <1>2, <1>3, <1>4, <1>5 DEF RunningInv

(* Every step of the collection preserves RunningInv.                       *)
LEMMA RunningNext == RunningInv /\ [Next]_vars => RunningInv'
<1> SUFFICES ASSUME RunningInv, [Next]_vars PROVE RunningInv'
  OBVIOUS
<1> USE DEF listing, assembly, retrying, answer
<1>0. TypeOK /\ ListsOwn /\ OnePlace /\ Counts /\ Kept /\ Closing
  BY DEF RunningInv
<1>h. Host \in [Requests -> Sings] /\ {ReqCap, DepCap} \subseteq Nat /\ RetryLimit \in Nat
  BY HostAssumption, SizesAssumption, RetryLimitAssumption
<1>o. Outstanding \in SUBSET Requests
  BY <1>0 DEF TypeOK, Outstanding, Assembling
<1>c. /\ Cardinality(Outstanding) \in Nat
      /\ Cardinality(Outstanding) <= Cardinality(Requests)
      /\ Cardinality(Requests) \in Nat
      /\ Cardinality(Outstanding) = 0 <=> Outstanding = {}
      /\ \A r \in Requests : r \notin Outstanding =>
            Cardinality(Outstanding \cup {r}) = Cardinality(Outstanding) + 1
      /\ \A r \in Outstanding :
            Cardinality(Outstanding \ {r}) = Cardinality(Outstanding) - 1
  BY <1>o, Counting
<1>q. /\ reqCh \in SUBSET Requests /\ depCh \in SUBSET Requests
      /\ Cardinality(reqCh) \in Nat /\ Cardinality(depCh) \in Nat
      /\ \A r \in Requests :
            /\ Cardinality(reqCh \cup {r}) \in 0..(Cardinality(reqCh) + 1)
            /\ Cardinality(depCh \cup {r}) \in 0..(Cardinality(depCh) + 1)
      /\ \A r \in reqCh : Cardinality(reqCh \ {r}) = Cardinality(reqCh) - 1
      /\ \A r \in depCh : Cardinality(depCh \ {r}) = Cardinality(depCh) - 1
  <2>1. reqCh \in SUBSET Requests /\ depCh \in SUBSET Requests
    BY <1>0 DEF TypeOK
  <2>2. \A S \in SUBSET Requests : \A r \in Requests :
          Cardinality(S \cup {r}) \in 0..(Cardinality(S) + 1) /\ Cardinality(S) \in Nat
    <3> TAKE S \in SUBSET Requests
    <3> TAKE r \in Requests
    <3>1. CASE r \in S
      <4>1. S \cup {r} = S
        BY <3>1
      <4>2. Cardinality(S) \in Nat
        BY Counting
      <4>3. Cardinality(S \cup {r}) = Cardinality(S)
        BY <4>1, Zenon
      <4> QED
        BY <4>2, <4>3
    <3>2. CASE r \notin S
      BY <3>2, Counting
    <3> QED
      BY <3>1, <3>2
  <2> QED
    BY <2>1, <2>2, Counting
<1>n. ListsRead /\ main # "failed" /\ closer \notin {"sing", "dep"} => Outstanding = {}
  BY NothingOutstanding
<1>1. ASSUME NEW s \in Sings, main = "loop", GetRequests(s)
      PROVE  RunningInv'
  <2>1. TypeOK'
    BY <1>0, <1>h, <1>q, <1>c, <1>1 DEF TypeOK, GetRequests
  <2>2. UNCHANGED Outstanding
    BY <1>0, <1>1 DEF TypeOK, OnePlace, Outstanding, Assembling, GetRequests
  <2>4. ListsOwn'
    BY <1>0, <1>1, <1>h DEF TypeOK, ListsOwn, GetRequests
  <2>5. OnePlace'
    BY <1>0, <1>h, <1>1, <2>2, <2>4 DEF TypeOK, OnePlace, ToSend, Outstanding,
       Assembling, GetRequests, ListsOwn
  <2>6. Counts'
    BY <1>0, <1>c, <1>n, <1>1, <2>2 DEF TypeOK, Counts, GetRequests, ListsRead
  <2>7. Kept'
    BY <1>0, <1>h, <1>n, <1>1, <2>2, <2>4 DEF TypeOK, Kept, GetRequests, ListsRead
  <2>8. Closing'
    BY <1>0, <1>c, <1>n, <1>1 DEF TypeOK, Closing, GetRequests, ListsRead
  <2> QED
    BY <2>1, <2>2, <2>4, <2>5, <2>6, <2>7, <2>8 DEF RunningInv
<1>2. ASSUME NEW s \in Sings, main = "loop", SendRequest(s)
      PROVE  RunningInv'
  <2>p. PICK r \in unsent[s] : /\ unsent' = [unsent EXCEPT ![s] = @ \ {r}]
                              /\ reqCh' = reqCh \cup {r}
    BY <1>2 DEF SendRequest
  <2>x. /\ r \in unsent[s] /\ unsent' = [unsent EXCEPT ![s] = @ \ {r}]
        /\ reqCh' = reqCh \cup {r} /\ r \in Requests /\ Host[r] = s
        /\ r \notin Outstanding /\ closer = "sing"
    BY <1>0, <1>2, <2>p DEF TypeOK, ListsOwn, OnePlace, ToSend, Closing, SendRequest
  <2>t. reqCh' \subseteq Requests /\ Cardinality(reqCh') <= ReqCap
    <3>1. reqCh' = reqCh \cup {r} /\ Cardinality(reqCh) < ReqCap
      BY <1>2, <2>x DEF SendRequest
    <3>2. Cardinality(reqCh') \in 0..(Cardinality(reqCh) + 1)
      BY <1>q, <2>x, <3>1
    <3> QED
      BY <1>h, <1>q, <2>x, <3>1, <3>2
  <2>w. depWait' \in 0..Cardinality(Requests)
    <3>1. Outstanding \cup {r} \in SUBSET Requests
      BY <1>o, <2>x
    <3>2. Cardinality(Outstanding) + 1 <= Cardinality(Requests)
      BY <1>c, <2>x, <3>1, Counting
    <3>3. depWait \in Nat /\ depWait <= Cardinality(Outstanding) /\ depWait' = depWait + 1
      BY <1>0, <1>c, <1>2 DEF TypeOK, Counts, SendRequest
    <3> QED
      BY <1>c, <3>2, <3>3
  <2>1. TypeOK'
    BY <1>0, <1>h, <1>q, <1>c, <1>2, <2>x, <2>t, <2>w DEF TypeOK, SendRequest
  <2>2. Outstanding' = Outstanding \cup {r}
    BY <1>0, <1>2, <2>x DEF TypeOK, OnePlace, Outstanding, Assembling, SendRequest
  <2>4. ListsOwn'
    BY <1>0, <1>2, <2>x, <1>h DEF TypeOK, ListsOwn, SendRequest
  <2>5. OnePlace'
    BY <1>0, <1>h, <1>2, <2>2, <2>x, <2>4 DEF TypeOK, OnePlace, ToSend, Outstanding,
       Assembling, SendRequest, ListsOwn
  <2>6. Counts'
    BY <1>0, <1>c, <1>n, <1>2, <2>2, <2>x DEF TypeOK, Counts, SendRequest, ListsRead
  <2>7. Kept'
    BY <1>0, <1>h, <1>n, <1>2, <2>2, <2>x, <2>4 DEF TypeOK, Kept, SendRequest,
       ListsRead
  <2>8. Closing'
    BY <1>0, <1>c, <1>n, <1>2, <2>x DEF TypeOK, Closing, SendRequest, ListsRead
  <2> QED
    BY <2>1, <2>2, <2>4, <2>5, <2>6, <2>7, <2>8 DEF RunningInv
<1>3. ASSUME NEW s \in Sings, main = "loop", ListerEnds(s)
      PROVE  RunningInv'
  <2>1. TypeOK'
    BY <1>0, <1>h, <1>q, <1>c, <1>3 DEF TypeOK, ListerEnds
  <2>2. UNCHANGED Outstanding
    BY <1>0, <1>3 DEF TypeOK, OnePlace, Outstanding, Assembling, ListerEnds
  <2>4. ListsOwn'
    BY <1>0, <1>3, <1>h DEF TypeOK, ListsOwn, ListerEnds
  <2>5. OnePlace'
    BY <1>0, <1>h, <1>3, <2>2, <2>4 DEF TypeOK, OnePlace, ToSend, Outstanding,
       Assembling, ListerEnds, ListsOwn
  <2>6. Counts'
    BY <1>0, <1>c, <1>n, <1>3, <2>2 DEF TypeOK, Counts, ListerEnds, ListsRead
  <2>7. Kept'
    BY <1>0, <1>h, <1>n, <1>3, <2>2, <2>4 DEF TypeOK, Kept, ListerEnds, ListsRead
  <2>8. Closing'
    BY <1>0, <1>c, <1>n, <1>3 DEF TypeOK, Closing, ListerEnds, ListsRead
  <2> QED
    BY <2>1, <2>2, <2>4, <2>5, <2>6, <2>7, <2>8 DEF RunningInv
<1>4. ASSUME main = "loop", Dispatch
      PROVE  RunningInv'
  <2>p. PICK r \in reqCh : /\ reqCh' = reqCh \ {r}
                         /\ assembler' = [assembler EXCEPT ![r] = "pool"]
    BY <1>4 DEF Dispatch
  <2>x. /\ r \in reqCh /\ r \in Requests /\ reqCh' = reqCh \ {r}
        /\ assembler' = [assembler EXCEPT ![r] = "pool"] /\ r \in Outstanding
    BY <1>0, <2>p DEF TypeOK, Outstanding
  <2>1. TypeOK'
    BY <1>0, <1>h, <1>q, <1>c, <1>4, <2>x DEF TypeOK, Dispatch
  <2>2. UNCHANGED Outstanding
    BY <1>0, <1>4, <2>x DEF TypeOK, OnePlace, Outstanding, Assembling, Dispatch
  <2>3. UNCHANGED <<ListsRead, lister, unsent>>
    BY <1>4, <2>x DEF ListsRead, Dispatch
  <2>4. ListsOwn'
    BY <1>0, <1>4, <2>x, <2>3 DEF TypeOK, ListsOwn
  <2>5. OnePlace'
    BY <1>0, <1>h, <1>4, <2>2, <2>x, <2>3 DEF TypeOK, OnePlace, ToSend, Outstanding,
       Assembling, Dispatch
  <2>6. Counts'
    BY <1>0, <1>c, <1>n, <1>4, <2>2, <2>x, <2>3 DEF TypeOK, Counts, Dispatch
  <2>7. Kept'
    BY <1>0, <1>h, <1>n, <1>4, <2>2, <2>x, <2>3 DEF TypeOK, Kept, Dispatch
  <2>8. Closing'
    BY <1>0, <1>c, <1>n, <1>4, <2>x, <2>3 DEF TypeOK, Closing, Dispatch
  <2> QED
    BY <2>1, <2>2, <2>4, <2>5, <2>6, <2>7, <2>8 DEF RunningInv
<1>5. ASSUME NEW r \in Requests, main = "loop", EnterPool(r)
      PROVE  RunningInv'
  <2>x. r \in Outstanding
    BY <1>5 DEF EnterPool, Outstanding, Assembling, Errors
  <2>1. TypeOK'
    BY <1>0, <1>h, <1>q, <1>c, <1>5, <2>x DEF TypeOK, EnterPool
  <2>2. UNCHANGED Outstanding
    BY <1>0, <1>5, <2>x DEF TypeOK, OnePlace, Outstanding, Assembling, EnterPool
  <2>3. UNCHANGED <<ListsRead, lister, unsent>>
    BY <1>5, <2>x DEF ListsRead, EnterPool
  <2>4. ListsOwn'
    BY <1>0, <1>5, <2>x, <2>3 DEF TypeOK, ListsOwn
  <2>5. OnePlace'
    BY <1>0, <1>h, <1>5, <2>2, <2>x, <2>3 DEF TypeOK, OnePlace, ToSend, Outstanding,
       Assembling, EnterPool
  <2>6. Counts'
    BY <1>0, <1>c, <1>n, <1>5, <2>2, <2>x, <2>3 DEF TypeOK, Counts, EnterPool
  <2>7. Kept'
    BY <1>0, <1>h, <1>n, <1>5, <2>2, <2>x, <2>3 DEF TypeOK, Kept, EnterPool
  <2>8. Closing'
    BY <1>0, <1>c, <1>n, <1>5, <2>x, <2>3 DEF TypeOK, Closing, EnterPool
  <2> QED
    BY <2>1, <2>2, <2>4, <2>5, <2>6, <2>7, <2>8 DEF RunningInv
<1>6. ASSUME NEW r \in Requests, main = "loop", AssembleDeployState(r)
      PROVE  RunningInv'
  <2>p. PICK x \in {"dep"} \cup Errors : assembler' = [assembler EXCEPT ![r] = x]
    BY <1>6 DEF AssembleDeployState
  <2>x. /\ x \in {"dep"} \cup Errors /\ assembler' = [assembler EXCEPT ![r] = x]
        /\ r \in Outstanding
    BY <1>6, <2>p DEF AssembleDeployState, Outstanding, Assembling
  <2>1. TypeOK'
    BY <1>0, <1>h, <1>q, <1>c, <1>6, <2>x DEF TypeOK, AssembleDeployState, Errors
  <2>2. UNCHANGED Outstanding
    BY <1>0, <1>6, <2>x DEF TypeOK, OnePlace, Outstanding, Assembling,
       AssembleDeployState, Errors
  <2>3. UNCHANGED <<ListsRead, lister, unsent>>
    BY <1>6, <2>x DEF ListsRead, AssembleDeployState, Errors
  <2>4. ListsOwn'
    BY <1>0, <1>6, <2>x, <2>3 DEF TypeOK, ListsOwn
  <2>5. OnePlace'
    BY <1>0, <1>h, <1>6, <2>2, <2>x, <2>3 DEF TypeOK, OnePlace, ToSend, Outstanding,
       Assembling, AssembleDeployState, Errors
  <2>6. Counts'
    BY <1>0, <1>c, <1>n, <1>6, <2>2, <2>x, <2>3 DEF TypeOK, Counts,
       AssembleDeployState, Errors
  <2>7. Kept'
    BY <1>0, <1>h, <1>n, <1>6, <2>2, <2>x, <2>3 DEF TypeOK, Kept, AssembleDeployState,
       Errors
  <2>8. Closing'
    BY <1>0, <1>c, <1>n, <1>6, <2>x, <2>3 DEF TypeOK, Closing, AssembleDeployState,
       Errors
  <2> QED
    BY <2>1, <2>2, <2>4, <2>5, <2>6, <2>7, <2>8 DEF RunningInv
<1>7. ASSUME NEW r \in Requests, main = "loop", SendDep(r)
      PROVE  RunningInv'
  <2>x. r \in Outstanding
    BY <1>7 DEF SendDep, Outstanding, Assembling, Errors
  <2>t. depCh' \subseteq Requests /\ Cardinality(depCh') <= DepCap
    <3>1. depCh' = depCh \cup {r} /\ Cardinality(depCh) < DepCap
      BY <1>7, <2>x DEF SendDep
    <3>2. Cardinality(depCh') \in 0..(Cardinality(depCh) + 1)
      BY <1>q, <2>x, <3>1
    <3> QED
      BY <1>h, <1>q, <2>x, <3>1, <3>2
  <2>1. TypeOK'
    BY <1>0, <1>h, <1>q, <1>c, <1>7, <2>x, <2>t DEF TypeOK, SendDep, Sent
  <2>2. UNCHANGED Outstanding
    BY <1>0, <1>7, <2>x DEF TypeOK, OnePlace, Outstanding, Assembling, SendDep, Sent
  <2>3. UNCHANGED <<ListsRead, lister, unsent>>
    BY <1>7, <2>x DEF ListsRead, SendDep, Sent
  <2>4. ListsOwn'
    BY <1>0, <1>7, <2>x, <2>3 DEF TypeOK, ListsOwn
  <2>5. OnePlace'
    BY <1>0, <1>h, <1>7, <2>2, <2>x, <2>3 DEF TypeOK, OnePlace, ToSend, Outstanding,
       Assembling, SendDep, Sent
  <2>6. Counts'
    BY <1>0, <1>c, <1>n, <1>7, <2>2, <2>x, <2>3 DEF TypeOK, Counts, SendDep, Sent
  <2>7. Kept'
    BY <1>0, <1>h, <1>n, <1>7, <2>2, <2>x, <2>3 DEF TypeOK, Kept, SendDep, Sent
  <2>8. Closing'
    BY <1>0, <1>c, <1>n, <1>7, <2>x, <2>3 DEF TypeOK, Closing, SendDep, Sent
  <2> QED
    BY <2>1, <2>2, <2>4, <2>5, <2>6, <2>7, <2>8 DEF RunningInv
<1>8. ASSUME main = "loop", AssemblerEnds
      PROVE  RunningInv'
  <2>1. TypeOK'
    BY <1>0, <1>h, <1>q, <1>c, <1>8 DEF TypeOK, AssemblerEnds
  <2>2. UNCHANGED Outstanding
    BY <1>0, <1>8 DEF TypeOK, OnePlace, Outstanding, Assembling, AssemblerEnds
  <2>3. UNCHANGED <<ListsRead, lister, unsent>>
    BY <1>8 DEF ListsRead, AssemblerEnds
  <2>4. ListsOwn'
    BY <1>0, <1>8, <2>3 DEF TypeOK, ListsOwn
  <2>5. OnePlace'
    BY <1>0, <1>h, <1>8, <2>2, <2>3 DEF TypeOK, OnePlace, ToSend, Outstanding,
       Assembling, AssemblerEnds
  <2>6. Counts'
    BY <1>0, <1>c, <1>n, <1>8, <2>2, <2>3 DEF TypeOK, Counts, AssemblerEnds
  <2>7. Kept'
    BY <1>0, <1>h, <1>n, <1>8, <2>2, <2>3 DEF TypeOK, Kept, AssemblerEnds
  <2>8. Closing'
    BY <1>0, <1>c, <1>n, <1>8, <2>3 DEF TypeOK, Closing, AssemblerEnds
  <2> QED
    BY <2>1, <2>2, <2>4, <2>5, <2>6, <2>7, <2>8 DEF RunningInv
<1>9. ASSUME main = "loop", ReceiveDep
      PROVE  RunningInv'
  <2>p. PICK r \in depCh : depCh' = depCh \ {r} /\ deps' = deps \cup {r}
    BY <1>9 DEF ReceiveDep
  <2>x. /\ r \in depCh /\ r \in Requests /\ depCh' = depCh \ {r} /\ deps' = deps \cup {r}
        /\ r \in Outstanding
    BY <1>0, <2>p DEF TypeOK, Outstanding
  <2>1. TypeOK'
    BY <1>0, <1>h, <1>q, <1>c, <1>9, <2>x DEF TypeOK, ReceiveDep, Done
  <2>2. Outstanding' = Outstanding \ {r}
    BY <1>0, <1>9, <2>x DEF TypeOK, OnePlace, Outstanding, Assembling, ReceiveDep,
       Done
  <2>3. UNCHANGED <<ListsRead, lister, unsent>>
    BY <1>9, <2>x DEF ListsRead, ReceiveDep, Done
  <2>4. ListsOwn'
    BY <1>0, <1>9, <2>x, <2>3 DEF TypeOK, ListsOwn
  <2>5. OnePlace'
    BY <1>0, <1>h, <1>9, <2>2, <2>x, <2>3 DEF TypeOK, OnePlace, ToSend, Outstanding,
       Assembling, ReceiveDep, Done
  <2>6. Counts'
    BY <1>0, <1>c, <1>n, <1>9, <2>2, <2>x, <2>3 DEF TypeOK, Counts, ReceiveDep, Done
  <2>7. Kept'
    BY <1>0, <1>h, <1>n, <1>9, <2>2, <2>x, <2>3 DEF TypeOK, Kept, ReceiveDep, Done
  <2>8. Closing'
    BY <1>0, <1>c, <1>n, <1>9, <2>x, <2>3 DEF TypeOK, Closing, ReceiveDep, Done
  <2> QED
    BY <2>1, <2>2, <2>4, <2>5, <2>6, <2>7, <2>8 DEF RunningInv
<1>10. ASSUME NEW r \in Requests, main = "loop", ReceiveMalformed(r)
      PROVE  RunningInv'
  <2>x. r \in Outstanding
    BY <1>10 DEF ReceiveMalformed, Outstanding, Assembling, Errors
  <2>1. TypeOK'
    BY <1>0, <1>h, <1>q, <1>c, <1>10, <2>x DEF TypeOK, ReceiveMalformed, Sent, Done
  <2>2. Outstanding' = Outstanding \ {r}
    BY <1>0, <1>10, <2>x DEF TypeOK, OnePlace, Outstanding, Assembling,
       ReceiveMalformed, Sent, Done
  <2>3. UNCHANGED <<ListsRead, lister, unsent>>
    BY <1>10, <2>x DEF ListsRead, ReceiveMalformed, Sent, Done
  <2>4. ListsOwn'
    BY <1>0, <1>10, <2>x, <2>3 DEF TypeOK, ListsOwn
  <2>5. OnePlace'
    BY <1>0, <1>h, <1>10, <2>2, <2>x, <2>3 DEF TypeOK, OnePlace, ToSend, Outstanding,
       Assembling, ReceiveMalformed, Sent, Done
  <2>6. Counts'
    BY <1>0, <1>c, <1>n, <1>10, <2>2, <2>x, <2>3 DEF TypeOK, Counts, ReceiveMalformed,
       Sent, Done
  <2>7. Kept'
    BY <1>0, <1>h, <1>n, <1>10, <2>2, <2>x, <2>3 DEF TypeOK, Kept, ReceiveMalformed,
       Sent, Done
  <2>8. Closing'
    BY <1>0, <1>c, <1>n, <1>10, <2>x, <2>3 DEF TypeOK, Closing, ReceiveMalformed,
       Sent, Done
  <2> QED
    BY <2>1, <2>2, <2>4, <2>5, <2>6, <2>7, <2>8 DEF RunningInv
<1>11. ASSUME NEW r \in Requests, main = "loop", ReceiveRetry(r)
      PROVE  RunningInv'
  <2>x. r \in Outstanding
    BY <1>11 DEF ReceiveRetry, Outstanding, Assembling, Errors
  <2>1. TypeOK'
    BY <1>0, <1>h, <1>q, <1>c, <1>11, <2>x DEF TypeOK, ReceiveRetry, Sent, MayRetry
  <2>2. IF MayRetry(r) THEN UNCHANGED Outstanding ELSE main' = "failed"
    BY <1>0, <1>11, <2>x DEF TypeOK, OnePlace, Outstanding, Assembling, ReceiveRetry,
       Sent, MayRetry
  <2>3. UNCHANGED <<ListsRead, lister, unsent>>
    BY <1>11, <2>x DEF ListsRead, ReceiveRetry, Sent, MayRetry
  <2>4. ListsOwn'
    BY <1>0, <1>11, <2>x, <2>3 DEF TypeOK, ListsOwn
  <2>5. OnePlace'
    BY <1>0, <1>h, <1>11, <2>2, <2>x, <2>3 DEF TypeOK, OnePlace, ToSend, Outstanding,
       Assembling, ReceiveRetry, Sent, MayRetry
  <2>6. Counts'
    BY <1>0, <1>c, <1>n, <1>11, <2>2, <2>x, <2>3 DEF TypeOK, Counts, ReceiveRetry,
       Sent, MayRetry
  <2>7. Kept'
    BY <1>0, <1>h, <1>n, <1>11, <2>2, <2>x, <2>3 DEF TypeOK, Kept, ReceiveRetry, Sent,
       MayRetry
  <2>8. Closing'
    BY <1>0, <1>c, <1>n, <1>11, <2>x, <2>3 DEF TypeOK, Closing, ReceiveRetry, Sent,
       MayRetry
  <2> QED
    BY <2>1, <2>2, <2>4, <2>5, <2>6, <2>7, <2>8 DEF RunningInv
<1>12. ASSUME NEW r \in Requests, main = "loop", ReceiveFatal(r)
      PROVE  RunningInv'
  <2>x. r \in Outstanding
    BY <1>12 DEF ReceiveFatal, Outstanding, Assembling, Errors
  <2>1. TypeOK'
    BY <1>0, <1>h, <1>q, <1>c, <1>12, <2>x DEF TypeOK, ReceiveFatal, Sent
  <2>2. main' = "failed"
    BY <1>0, <1>12, <2>x DEF TypeOK, OnePlace, Outstanding, Assembling, ReceiveFatal,
       Sent
  <2>3. UNCHANGED <<ListsRead, lister, unsent>>
    BY <1>12, <2>x DEF ListsRead, ReceiveFatal, Sent
  <2>4. ListsOwn'
    BY <1>0, <1>12, <2>x, <2>3 DEF TypeOK, ListsOwn
  <2>5. OnePlace'
    BY <1>0, <1>h, <1>12, <2>2, <2>x, <2>3 DEF TypeOK, OnePlace, ToSend, Outstanding,
       Assembling, ReceiveFatal, Sent
  <2>6. Counts'
    BY <1>0, <1>c, <1>n, <1>12, <2>2, <2>x, <2>3 DEF TypeOK, Counts, ReceiveFatal,
       Sent
  <2>7. Kept'
    BY <1>0, <1>h, <1>n, <1>12, <2>2, <2>x, <2>3 DEF TypeOK, Kept, ReceiveFatal, Sent
  <2>8. Closing'
    BY <1>0, <1>c, <1>n, <1>12, <2>x, <2>3 DEF TypeOK, Closing, ReceiveFatal, Sent
  <2> QED
    BY <2>1, <2>2, <2>4, <2>5, <2>6, <2>7, <2>8 DEF RunningInv
<1>13. ASSUME NEW s \in Sings, main = "loop", ReceiveListError(s)
      PROVE  RunningInv'
  <2>1. TypeOK'
    BY <1>0, <1>h, <1>q, <1>c, <1>13 DEF TypeOK, ReceiveListError, Done
  <2>2. UNCHANGED Outstanding
    BY <1>0, <1>13 DEF TypeOK, OnePlace, Outstanding, Assembling, ReceiveListError,
       Done
  <2>4. ListsOwn'
    BY <1>0, <1>13, <1>h DEF TypeOK, ListsOwn, ReceiveListError, Done
  <2>5. OnePlace'
    BY <1>0, <1>h, <1>13, <2>2, <2>4 DEF TypeOK, OnePlace, ToSend, Outstanding,
       Assembling, ReceiveListError, Done, ListsOwn
  <2>6. Counts'
    BY <1>0, <1>c, <1>n, <1>13, <2>2 DEF TypeOK, Counts, ReceiveListError, Done,
       ListsRead
  <2>7. Kept'
    BY <1>0, <1>h, <1>n, <1>13, <2>2, <2>4 DEF TypeOK, Kept, ReceiveListError, Done,
       ListsRead
  <2>8. Closing'
    BY <1>0, <1>c, <1>n, <1>13 DEF TypeOK, Closing, ReceiveListError, Done, ListsRead
  <2> QED
    BY <2>1, <2>2, <2>4, <2>5, <2>6, <2>7, <2>8 DEF RunningInv
<1>14. ASSUME main = "loop", Return
      PROVE  RunningInv'
  <2>1. TypeOK'
    BY <1>0, <1>h, <1>q, <1>c, <1>14 DEF TypeOK, Return, ErrsClosed
  <2>2. UNCHANGED Outstanding
    BY <1>0, <1>14 DEF TypeOK, OnePlace, Outstanding, Assembling, Return, ErrsClosed
  <2>3. UNCHANGED <<ListsRead, lister, unsent>>
    BY <1>14 DEF ListsRead, Return, ErrsClosed
  <2>4. ListsOwn'
    BY <1>0, <1>14, <2>3 DEF TypeOK, ListsOwn
  <2>5. OnePlace'
    BY <1>0, <1>h, <1>14, <2>2, <2>3 DEF TypeOK, OnePlace, ToSend, Outstanding,
       Assembling, Return, ErrsClosed
  <2>6. Counts'
    BY <1>0, <1>c, <1>n, <1>14, <2>2, <2>3 DEF TypeOK, Counts, Return, ErrsClosed
  <2>7. Kept'
    BY <1>0, <1>h, <1>n, <1>14, <2>2, <2>3 DEF TypeOK, Kept, Return, ErrsClosed
  <2>8. Closing'
    BY <1>0, <1>c, <1>n, <1>14, <2>3 DEF TypeOK, Closing, Return, ErrsClosed
  <2> QED
    BY <2>1, <2>2, <2>4, <2>5, <2>6, <2>7, <2>8 DEF RunningInv
<1>15. ASSUME NEW r \in Requests, main = "loop", Retry(r)
      PROVE  RunningInv'
  <2>x. r \in Outstanding
    BY <1>15 DEF Retry, Outstanding
  <2>t. reqCh' \subseteq Requests /\ Cardinality(reqCh') <= ReqCap
    <3>1. CASE ReqsClosed
      BY <1>0, <1>15, <3>1 DEF TypeOK, Retry
    <3>2. CASE ~ReqsClosed
      <4>1. reqCh' = reqCh \cup {r} /\ Cardinality(reqCh) < ReqCap
        BY <1>15, <3>2 DEF Retry
      <4>2. Cardinality(reqCh') \in 0..(Cardinality(reqCh) + 1)
        BY <1>q, <2>x, <4>1
      <4> QED
        BY <1>h, <1>q, <2>x, <4>1, <4>2
    <3> QED
      BY <3>1, <3>2
  <2>1. TypeOK'
    BY <1>0, <1>h, <1>q, <1>c, <1>15, <2>x, <2>t DEF TypeOK, Retry, ReqsClosed
  <2>2. IF ReqsClosed THEN Outstanding' = Outstanding \ {r} ELSE UNCHANGED Outstanding
    BY <1>0, <1>15, <2>x DEF TypeOK, OnePlace, Outstanding, Assembling, Retry,
       ReqsClosed
  <2>3. UNCHANGED <<ListsRead, lister, unsent>>
    BY <1>15, <2>x DEF ListsRead, Retry, ReqsClosed
  <2>4. ListsOwn'
    BY <1>0, <1>15, <2>x, <2>3 DEF TypeOK, ListsOwn
  <2>5. OnePlace'
    BY <1>0, <1>h, <1>15, <2>2, <2>x, <2>3 DEF TypeOK, OnePlace, ToSend, Outstanding,
       Assembling, Retry, ReqsClosed
  <2>6. Counts'
    BY <1>0, <1>c, <1>n, <1>15, <2>2, <2>x, <2>3 DEF TypeOK, Counts, Retry,
       ReqsClosed, Closing
  <2>7. Kept'
    BY <1>0, <1>h, <1>n, <1>15, <2>2, <2>x, <2>3 DEF TypeOK, Kept, Retry, ReqsClosed,
       Closing
  <2>8. Closing'
    BY <1>0, <1>c, <1>n, <1>15, <2>x, <2>3 DEF TypeOK, Closing, Retry, ReqsClosed
  <2> QED
    BY <2>1, <2>2, <2>4, <2>5, <2>6, <2>7, <2>8 DEF RunningInv
<1>16. ASSUME NEW r \in Requests, main = "loop", SendErrorClosed(r)
      PROVE  RunningInv'
  <2>x. r \in Outstanding
    BY <1>16 DEF SendErrorClosed, Outstanding, Assembling, Errors
  <2>1. TypeOK'
    BY <1>0, <1>h, <1>q, <1>c, <1>16, <2>x DEF TypeOK, SendErrorClosed, Sent,
       ErrsClosed, Errors
  <2>2. Outstanding' = Outstanding \ {r}
    BY <1>0, <1>16, <2>x DEF TypeOK, OnePlace, Outstanding, Assembling,
       SendErrorClosed, Sent, ErrsClosed, Errors
  <2>3. UNCHANGED <<ListsRead, lister, unsent>>
    BY <1>16, <2>x DEF ListsRead, SendErrorClosed, Sent, ErrsClosed, Errors
  <2>4. ListsOwn'
    BY <1>0, <1>16, <2>x, <2>3 DEF TypeOK, ListsOwn
  <2>5. OnePlace'
    BY <1>0, <1>h, <1>16, <2>2, <2>x, <2>3 DEF TypeOK, OnePlace, ToSend, Outstanding,
       Assembling, SendErrorClosed, Sent, ErrsClosed, Errors
  <2>6. Counts'
    BY <1>0, <1>c, <1>n, <1>16, <2>2, <2>x, <2>3 DEF TypeOK, Counts, SendErrorClosed,
       Sent, ErrsClosed, Errors, Closing
  <2>7. Kept'
    BY <1>0, <1>h, <1>n, <1>16, <2>2, <2>x, <2>3 DEF TypeOK, Kept, SendErrorClosed,
       Sent, ErrsClosed, Errors, Closing
  <2>8. Closing'
    BY <1>0, <1>c, <1>n, <1>16, <2>x, <2>3 DEF TypeOK, Closing, SendErrorClosed, Sent,
       ErrsClosed, Errors
  <2> QED
    BY <2>1, <2>2, <2>4, <2>5, <2>6, <2>7, <2>8 DEF RunningInv
<1>17. ASSUME main = "loop", CloserStep
      PROVE  RunningInv'
  <2>1. TypeOK'
    BY <1>0, <1>h, <1>q, <1>c, <1>17 DEF TypeOK, CloserStep, DepsDone, AssemblersDone
  <2>2. UNCHANGED Outstanding
    BY <1>0, <1>17 DEF TypeOK, OnePlace, Outstanding, Assembling, CloserStep,
       DepsDone, AssemblersDone
  <2>3. UNCHANGED <<ListsRead, lister, unsent>>
    BY <1>17 DEF ListsRead, CloserStep, DepsDone, AssemblersDone
  <2>4. ListsOwn'
    BY <1>0, <1>17, <2>3 DEF TypeOK, ListsOwn
  <2>5. OnePlace'
    BY <1>0, <1>h, <1>17, <2>2, <2>3 DEF TypeOK, OnePlace, ToSend, Outstanding,
       Assembling, CloserStep, DepsDone, AssemblersDone
  <2>6. Counts'
    BY <1>0, <1>c, <1>n, <1>17, <2>2, <2>3 DEF TypeOK, Counts, CloserStep, DepsDone,
       AssemblersDone
  <2>7. Kept'
    BY <1>0, <1>h, <1>n, <1>17, <2>2, <2>3 DEF TypeOK, Kept, CloserStep, DepsDone,
       AssemblersDone
  <2>8. Closing'
    BY <1>0, <1>c, <1>n, <1>17, <2>3 DEF TypeOK, Closing, CloserStep, DepsDone,
       AssemblersDone
  <2> QED
    BY <2>1, <2>2, <2>4, <2>5, <2>6, <2>7, <2>8 DEF RunningInv
<1>18. CASE UNCHANGED vars
  <2>1. TypeOK'
    BY <1>0, <1>18 DEF TypeOK, vars
  <2>2. UNCHANGED <<Outstanding, ListsRead>>
    BY <1>18 DEF Outstanding, Assembling, ListsRead, vars
  <2>3. ListsOwn' /\ OnePlace' /\ Counts' /\ Kept' /\ Closing'
    BY <1>0, <1>18, <2>2 DEF ListsOwn, OnePlace, Counts, Kept, Closing, ToSend, vars
  <2> QED
    BY <2>1, <2>3 DEF RunningInv
<1> QED
  BY <1>1, <1>2, <1>3, <1>4, <1>5, <1>6, <1>7, <1>8, <1>9, <1>10, <1>11, <1>12, <1>13,
     <1>14, <1>15, <1>16, <1>17, <1>18 DEF Next, ListerStep, AssemblerStep, MainStep

(* The inductive invariant of a collection.                                 *)
THEOREM RunningInvariance == Spec => []RunningInv
<1> QED
  BY RunningInit, RunningNext, PTL DEF Spec

(* Type correctness: depWait never goes below zero or above the number of   *)
(* requests, and the channels keep to their capacities.                     *)
THEOREM TypeCorrect == Spec => []TypeOK
<1>1. RunningInv => TypeOK
  BY DEF RunningInv
<1> QED
  BY <1>1, RunningInvariance, PTL

(* A partial answer of the Singularities does not pass for a full one: if   *)
(* every list could be read, what RunningDeployments returns without an     *)
(* error has every deployment but those malformed or not ours, and no       *)
(* goroutine is left behind.                                                *)
THEOREM AllCollectedAlways == Spec => []AllCollected
<1>1. ASSUME RunningInv PROVE AllCollected
  <2>1. CountsOutstanding
    BY <1>1 DEF RunningInv, Counts, CountsOutstanding
  <2>2. ASSUME ListsRead, main = "returned"
        PROVE  /\ deps \cup ignored = Requests
               /\ Outstanding = {} /\ leaving = 0 /\ \A s \in Sings : lister[s] = "done"
    <3>1. closer = "gone" /\ main # "failed"
      BY <1>1, <2>2 DEF RunningInv, Closing
    <3>2. Outstanding = {}
      BY <1>1, <2>2, <3>1, NothingOutstanding
    <3>3. leaving = 0 /\ \A s \in Sings : lister[s] = "done"
      BY <1>1, <2>2, <3>1 DEF RunningInv, Closing, ListsRead
    <3>4. \A s \in Sings : unsent[s] = {}
      BY <1>1, <3>3 DEF RunningInv, ListsOwn
    <3>5. \A r \in Requests : r \in deps \cup ignored
      BY <1>1, <2>2, <3>1, <3>2, <3>3, <3>4, HostAssumption DEF RunningInv, Kept
    <3>6. deps \cup ignored \subseteq Requests
      BY <1>1 DEF RunningInv, TypeOK
    <3> QED
      BY <3>2, <3>3, <3>5, <3>6
  <2> QED
    BY <2>1, <2>2 DEF AllCollected
<1> QED
  BY <1>1, RunningInvariance, PTL
=============================================================================
