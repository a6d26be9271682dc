-------------------------- MODULE EoqQueue_proofs --------------------------
(***************************************************************************)
(* Theorems about EoqQueue for every number of workers, items, EOQs and    *)
(* failures; nothing is assumed about fairness or about the hash.          *)
(***************************************************************************)
EXTENDS EoqQueue, RedisStore_proofs, FiniteSetTheorems

LEMMA CountNat == Count \in Nat /\ Count >= 1
BY PublisherAssumption

(* EOQ is a payload of its own. *)
LEMMA EoqIsItem == Eoq \in Item /\ Eoq # NoItem /\ \A n \in 1 .. Count : n < Count => n \in Item /\ n # Eoq
<1>1. \A n \in 1 .. Count : n < Count => n \in 1 .. (Count - 1)
  BY CountNat
<1> QED
  BY <1>1, EoqAssumption, PublisherAssumption, WorkerAssumption

(* What a step of the surroundings leaves alone. *)
LEMMA QuietSteps ==
  ASSUME \/ PublisherFails \/ Terminated \/ UNCHANGED vars
         \/ \E k \in LeaseKey : LeaseExpires(k)
         \/ PublisherRuns /\ PubExit
  PROVE  UNCHANGED <<mainQ, procQ, workerVars>>
BY DEF PublisherFails, PubCrash, Terminated, vars, LeaseExpires, Expire, Del, PublisherRuns,
       PubExit, storeVars

(* The steps that push leave the rest of the store and the workers alone.  *)
LEMMA PushSteps ==
  ASSUME SendEoq \/ (PublisherRuns /\ Publish)
  PROVE  UNCHANGED <<procQ, leases, workerVars>>
BY DEF SendEoq, PublisherRuns, Publish, RPush

-----------------------------------------------------------------------------
(* Types.  As for the other queues, a worker that sets a lease or          *)
(* completes has an item to do so for.                                     *)

HasItem ==
  \A w \in Worker :
    pc[w] \in {"lease_set", "work", "complete_rem", "complete_del"} => item[w] \in Item

TypeInv == TypeOK /\ HasItem

LEMMA TypeInit == Init => TypeInv
BY CountNat DEF Init, StoreInit, PubInit, WorkerInit, PC, TypeInv, TypeOK, StoreTypeOK, PubTypeOK,
   WorkerTypeOK, HasItem

LEMMA TypeStep == TypeInv /\ [Next]_vars => TypeInv'
<1> SUFFICES ASSUME TypeInv, [Next]_vars PROVE TypeInv'
  OBVIOUS
<1> USE DEF TypeInv, TypeOK
<1>1. ASSUME SendEoq \/ (PublisherRuns /\ Publish) PROVE TypeInv'
  <2>1. WorkerTypeOK' /\ HasItem'
    BY <1>1, PushSteps DEF workerVars, WorkerTypeOK, HasItem
  <2>2. StoreTypeOK(Worker \X Nat)' /\ PubTypeOK' /\ eoqs' \in Nat
    <3>1. CASE SendEoq
      BY <3>1, EoqIsItem DEF SendEoq, RPush, pubVars, StoreTypeOK, PubTypeOK
    <3>2. CASE PublisherRuns /\ Publish
      <4>1. pubIdx \in Item /\ eoqs' = eoqs
        BY <3>2, EoqIsItem DEF PublisherRuns, Publish, PubTypeOK
      <4> QED
        BY <3>2, <4>1, CountNat DEF Publish, RPush, StoreTypeOK, PubTypeOK
    <3> QED
      BY <1>1, <3>1, <3>2
  <2> QED
    BY <2>1, <2>2
<1>2. ASSUME NEW w \in Worker, WorkerRun(w) PROVE TypeInv'
  <2>1. PubTypeOK' /\ eoqs' \in Nat
    BY <1>2 DEF WorkerRun, pubVars, PubTypeOK
  <2>2. CASE Turn(w) \/ LeaseTimeout(w) \/ Break(w)
    <3>1. StoreTypeOK(Worker \X Nat)'
      BY <2>2 DEF Turn, LeaseTimeout, Break, storeVars, StoreTypeOK
    <3>2. WorkerTypeOK' /\ HasItem'
      BY <2>2 DEF Turn, LeaseTimeout, Break, Goto, PC, WorkerTypeOK, HasItem
    <3> QED
      BY <2>1, <3>1, <3>2
  <2>3. CASE LeasePop(w)
    <3>1. StoreTypeOK(Worker \X Nat)' /\ Rightmost \in Item
      BY <2>3, RPopLPushEffect DEF LeasePop
    <3>2. WorkerTypeOK' /\ HasItem'
      BY <2>3, <3>1 DEF LeasePop, Goto, PC, WorkerTypeOK, HasItem
    <3> QED
      BY <2>1, <3>1, <3>2
  <2>4. CASE LeaseSet(w) \/ Work(w) \/ CompleteRem(w) \/ CompleteDel(w)
    <3>1. item[w] \in Item /\ Session(w) \in Worker \X Nat
      BY <2>4 DEF LeaseSet, Work, CompleteRem, CompleteDel, HasItem, Session, WorkerTypeOK
    <3>2. StoreTypeOK(Worker \X Nat)'
      BY <2>4, <3>1 DEF LeaseSet, Work, CompleteRem, CompleteDel, SetEx, LRemAll, Del,
                        storeVars, StoreTypeOK
    <3>3. WorkerTypeOK' /\ HasItem'
      BY <2>4, <3>1 DEF LeaseSet, Work, CompleteRem, CompleteDel, Goto, PC, WorkerTypeOK, HasItem
    <3> QED
      BY <2>1, <3>2, <3>3
  <2> QED
    BY <1>2, <2>2, <2>3, <2>4 DEF WorkerRun, WorkerStep, Lease, WorkItem, Complete
<1>3. ASSUME NEW w \in Worker, WorkerFails(w) PROVE TypeInv'
  <2>1. StoreTypeOK(Worker \X Nat)' /\ PubTypeOK' /\ eoqs' \in Nat
    BY <1>3 DEF WorkerFails, Crash, storeVars, pubVars, StoreTypeOK, PubTypeOK
  <2>2. WorkerTypeOK' /\ HasItem'
    BY <1>3 DEF WorkerFails, Crash, Goto, PC, WorkerTypeOK, HasItem
  <2> QED
    BY <2>1, <2>2
<1>4. ASSUME \/ PublisherFails \/ Terminated \/ UNCHANGED vars
             \/ \E k \in LeaseKey : LeaseExpires(k)
             \/ PublisherRuns /\ PubExit
      PROVE  TypeInv'
  <2>1. WorkerTypeOK' /\ HasItem'
    BY <1>4, QuietSteps DEF workerVars, WorkerTypeOK, HasItem
  <2>2. StoreTypeOK(Worker \X Nat)' /\ PubTypeOK' /\ eoqs' \in Nat
    BY <1>4, CountNat DEF PublisherFails, PubCrash, Terminated, vars, LeaseExpires, Expire, Del,
       PublisherRuns, PubExit, storeVars, pubVars, StoreTypeOK, PubTypeOK
  <2> QED
    BY <2>1, <2>2
<1> QED
  BY <1>1, <1>2, <1>3, <1>4 DEF Next, PublisherRuns, PubStep

(* Every variable keeps its type. *)
THEOREM EoqTypeCorrect == Spec => []TypeOK
<1>1. TypeInv => TypeOK
  BY DEF TypeInv
<1> QED
  BY <1>1, TypeInit, TypeStep, PTL DEF Spec

-----------------------------------------------------------------------------
(* The workers an EOQ was handed to never get beyond the top of the loop's *)
(* body, so that they are told by their item for good.                     *)

Stopped == {w \in Worker : item[w] = Eoq}

EoqInv ==
  /\ procQ[Eoq] = Cardinality(Stopped)
  /\ \A w \in Worker : item[w] = Eoq => pc[w] \in {"lease_set", "work", "exited", "down"}
  /\ \A w \in Worker : pc[w] = "exited" => item[w] = Eoq
  /\ Eoq \notin worked

LEMMA EoqInit == Init => EoqInv
<1> SUFFICES ASSUME Init PROVE EoqInv
  OBVIOUS
<1>1. Stopped = {}
  BY EoqIsItem DEF Init, WorkerInit, Stopped
<1> QED
  BY <1>1, FS_EmptySet, EoqIsItem DEF Init, StoreInit, WorkerInit, EoqInv

LEMMA StoppedFinite == IsFiniteSet(Stopped) /\ Cardinality(Stopped) \in Nat
<1>1. Stopped \in SUBSET Worker
  BY DEF Stopped
<1> QED
  BY <1>1, EoqAssumption, FS_Subset, FS_CardinalityType

LEMMA EoqStep == TypeInv /\ EoqInv /\ [Next]_vars => EoqInv'
<1> SUFFICES ASSUME TypeInv, EoqInv, [Next]_vars PROVE EoqInv'
  OBVIOUS
<1> USE DEF EoqInv
<1>0. /\ pc \in [Worker -> PC] /\ item \in [Worker -> Item \cup {NoItem}]
      /\ procQ \in [Item -> Nat] /\ HasItem /\ Eoq \in Item /\ Eoq # NoItem
  BY EoqIsItem DEF TypeInv, TypeOK, StoreTypeOK, WorkerTypeOK
<1>1. ASSUME UNCHANGED <<procQ, workerVars>> PROVE EoqInv'
  BY <1>1 DEF workerVars, Stopped
<1>2. ASSUME NEW w \in Worker, WorkerRun(w) PROVE EoqInv'
  <2>1. CASE Turn(w) \/ LeaseSet(w) \/ Break(w) \/ CompleteDel(w)
    <3>1. UNCHANGED <<procQ, item, worked>> /\ Stopped' = Stopped
      BY <2>1 DEF Turn, LeaseSet, Break, CompleteDel, SetEx, Del, storeVars, Stopped
    <3>2. /\ \A v \in Worker : item[v] = Eoq => pc'[v] \in {"lease_set", "work", "exited", "down"}
          /\ \A v \in Worker : pc'[v] = "exited" => item[v] = Eoq
      BY <1>0, <2>1 DEF Turn, LeaseSet, Break, CompleteDel, Goto
    <3> QED
      BY <3>1, <3>2
  <2>2. CASE LeaseTimeout(w)
    <3>1. /\ item' = [item EXCEPT ![w] = NoItem] /\ item[w] # Eoq
          /\ pc' = [pc EXCEPT ![w] = "check_main"]
          /\ UNCHANGED <<procQ, worked>>
      BY <2>2 DEF LeaseTimeout, Goto, storeVars
    <3>2. Stopped' = Stopped
      BY <1>0, <3>1 DEF Stopped
    <3> QED
      BY <1>0, <3>1, <3>2
  <2>3. CASE LeasePop(w)
    <3>0. PICK r \in Item : r = Rightmost
      BY <2>3, RPopLPushEffect DEF LeasePop, TypeInv, TypeOK
    <3>1. /\ item' = [item EXCEPT ![w] = r] /\ w \notin Stopped
          /\ pc' = [pc EXCEPT ![w] = "lease_set"]
          /\ procQ' = [procQ EXCEPT ![r] = @ + 1] /\ worked' = worked
      BY <2>3, <3>0 DEF LeasePop, RPopLPush, Goto, Stopped
    <3>2. /\ \A v \in Worker : item'[v] = Eoq => pc'[v] \in {"lease_set", "work", "exited", "down"}
          /\ \A v \in Worker : pc'[v] = "exited" => item'[v] = Eoq
      BY <1>0, <3>1
    <3>3. CASE r = Eoq
      <4>1. Stopped' = Stopped \cup {w}
        BY <1>0, <3>1, <3>3 DEF Stopped
      <4>2. Cardinality(Stopped') = Cardinality(Stopped) + 1
        BY <3>1, <4>1, StoppedFinite, FS_AddElement
      <4> QED
        BY <1>0, <3>1, <3>2, <3>3, <4>2
    <3>4. CASE r # Eoq
      <4>1. Stopped' = Stopped
        BY <1>0, <3>1, <3>4 DEF Stopped
      <4> QED
        BY <1>0, <3>1, <3>2, <3>4, <4>1
    <3> QED
      BY <3>3, <3>4
  <2>4. CASE WorkItem(w)
    <3>1. UNCHANGED <<procQ, item>> /\ Stopped' = Stopped /\ Eoq \notin worked'
      BY <2>4 DEF WorkItem, Work, storeVars, Stopped
    <3>2. /\ \A v \in Worker : item[v] = Eoq => pc'[v] \in {"lease_set", "work", "exited", "down"}
          /\ \A v \in Worker : pc'[v] = "exited" => item[v] = Eoq
      BY <1>0, <2>4 DEF WorkItem, Work, Goto
    <3> QED
      BY <3>1, <3>2
  <2>5. CASE CompleteRem(w)
    <3>1. /\ item[w] # Eoq /\ item[w] \in Item /\ procQ' = [procQ EXCEPT ![item[w]] = 0]
          /\ UNCHANGED <<item, worked>> /\ Stopped' = Stopped
      BY <1>0, <2>5 DEF CompleteRem, LRemAll, HasItem, Stopped
    <3>2. procQ'[Eoq] = procQ[Eoq]
      BY <1>0, <3>1
    <3>3. /\ \A v \in Worker : item[v] = Eoq => pc'[v] \in {"lease_set", "work", "exited", "down"}
          /\ \A v \in Worker : pc'[v] = "exited" => item[v] = Eoq
      BY <1>0, <2>5 DEF CompleteRem, Goto
    <3> QED
      BY <3>1, <3>2, <3>3
  <2> QED
    BY <1>2, <2>1, <2>2, <2>3, <2>4, <2>5 DEF WorkerRun, WorkerStep, Lease, Complete
<1>3. ASSUME NEW w \in Worker, WorkerFails(w) PROVE EoqInv'
  <2>1. UNCHANGED <<procQ, item, worked>> /\ Stopped' = Stopped
    BY <1>3 DEF WorkerFails, Crash, storeVars, Stopped
  <2>2. /\ \A v \in Worker : item[v] = Eoq => pc'[v] \in {"lease_set", "work", "exited", "down"}
        /\ \A v \in Worker : pc'[v] = "exited" => item[v] = Eoq
    BY <1>0, <1>3 DEF WorkerFails, Crash, Goto
  <2> QED
    BY <2>1, <2>2
<1> QED
  BY <1>1, <1>2, <1>3, QuietSteps, PushSteps DEF Next, PublisherRuns, PubStep

(* Every EOQ that was taken stays, and stops the worker that took it and   *)
(* nobody else.                                                            *)
THEOREM EoqStopsOne == Spec => []OneEoqPerWorker
<1>1. EoqInv => OneEoqPerWorker
  BY DEF EoqInv, OneEoqPerWorker, Stopped
<1> QED
  BY <1>1, TypeInit, TypeStep, EoqInit, EoqStep, PTL DEF Spec

-----------------------------------------------------------------------------
(* Counting: every EOQ that was sent is a place of the main list or is in  *)
(* the processing list, and every failure is a worker that is down.        *)

EoqPlaces == {n \in 1 .. Len(mainQ) : mainQ[n] = Eoq}

Failed == {w \in Worker : pc[w] = "down"}

CountInv ==
  /\ eoqs = procQ[Eoq] + Cardinality(EoqPlaces)
  /\ crashes = Cardinality(Failed)

LEMMA CountInit == Init => CountInv
<1> SUFFICES ASSUME Init PROVE CountInv
  OBVIOUS
<1>1. EoqPlaces = {} /\ Failed = {}
  BY DEF Init, StoreInit, WorkerInit, EoqPlaces, Failed
<1> QED
  BY <1>1, FS_EmptySet, EoqIsItem DEF Init, StoreInit, WorkerInit, CountInv

LEMMA PlacesFinite ==
  ASSUME StoreTypeOK(Worker \X Nat)
  PROVE  IsFiniteSet(EoqPlaces) /\ Cardinality(EoqPlaces) \in Nat
<1>1. Len(mainQ) \in Int /\ EoqPlaces \in SUBSET (1 .. Len(mainQ))
  BY DEF StoreTypeOK, EoqPlaces
<1>2. IsFiniteSet(1 .. Len(mainQ))
  BY <1>1, FS_Interval
<1> QED
  BY <1>1, <1>2, FS_Subset, FS_CardinalityType

LEMMA FailedFinite == IsFiniteSet(Failed) /\ Cardinality(Failed) \in Nat
<1>1. Failed \in SUBSET Worker
  BY DEF Failed
<1> QED
  BY <1>1, EoqAssumption, FS_Subset, FS_CardinalityType

(* A push adds a place at the end, a pop takes the last one away. *)
LEMMA PlacesAfterPush ==
  ASSUME StoreTypeOK(Worker \X Nat), NEW j \in Item, mainQ' = Append(mainQ, j)
  PROVE  Cardinality(EoqPlaces') = Cardinality(EoqPlaces) + (IF j = Eoq THEN 1 ELSE 0)
<1> DEFINE last == Len(mainQ) + 1
<1>1. /\ Len(mainQ) \in Nat /\ Len(mainQ') = last /\ mainQ'[last] = j
      /\ \A n \in 1 .. Len(mainQ) : mainQ'[n] = mainQ[n]
  BY DEF StoreTypeOK
<1>2. 1 .. last = (1 .. Len(mainQ)) \cup {last} /\ last \notin 1 .. Len(mainQ)
  BY <1>1
<1> HIDE DEF last
<1>3. EoqPlaces' = IF j = Eoq THEN EoqPlaces \cup {last} ELSE EoqPlaces
  BY <1>1, <1>2 DEF EoqPlaces
<1>4. last \notin EoqPlaces
  BY <1>2 DEF EoqPlaces
<1>5. CASE j = Eoq
  BY <1>3, <1>4, <1>5, PlacesFinite, FS_AddElement
<1>6. CASE j # Eoq
  BY <1>3, <1>6, PlacesFinite
<1> QED
  BY <1>5, <1>6

LEMMA PlacesAfterPop ==
  ASSUME StoreTypeOK(Worker \X Nat), RPopLPush, NEW r \in Item, r = Rightmost
  PROVE  /\ Cardinality(EoqPlaces') \in Nat
         /\ Cardinality(EoqPlaces) = Cardinality(EoqPlaces') + (IF r = Eoq THEN 1 ELSE 0)
<1> DEFINE last == Len(mainQ)
<1>1. /\ last \in 1 .. last /\ Len(mainQ') = last - 1 /\ mainQ[last] = r
      /\ \A n \in 1 .. (last - 1) : mainQ'[n] = mainQ[n]
      /\ StoreTypeOK(Worker \X Nat)'
  BY RPopLPushEffect
<1>2. 1 .. last = (1 .. (last - 1)) \cup {last} /\ last \notin 1 .. (last - 1)
  BY <1>1
<1>3. EoqPlaces = {n \in 1 .. last : mainQ[n] = Eoq}
  BY DEF EoqPlaces
<1>4. EoqPlaces' = {n \in 1 .. (last - 1) : mainQ[n] = Eoq}
  BY <1>1 DEF EoqPlaces
<1> HIDE DEF last
<1>5. EoqPlaces = IF r = Eoq THEN EoqPlaces' \cup {last} ELSE EoqPlaces'
  BY <1>1, <1>2, <1>3, <1>4
<1>6. last \notin EoqPlaces' /\ IsFiniteSet(EoqPlaces)
  BY <1>2, <1>4, PlacesFinite
<1>7. IsFiniteSet(EoqPlaces') /\ Cardinality(EoqPlaces') \in Nat
  <2>1. EoqPlaces' \in SUBSET EoqPlaces
    BY <1>5
  <2> QED
    BY <1>6, <2>1, FS_Subset, FS_CardinalityType
<1>8. CASE r = Eoq
  BY <1>5, <1>6, <1>7, <1>8, FS_AddElement
<1>9. CASE r # Eoq
  BY <1>5, <1>7, <1>9
<1> QED
  BY <1>7, <1>8, <1>9

LEMMA CountStep == TypeInv /\ EoqInv /\ CountInv /\ [Next]_vars => CountInv'
<1> SUFFICES ASSUME TypeInv, EoqInv, CountInv, [Next]_vars PROVE CountInv'
  OBVIOUS
<1> USE DEF CountInv
<1>0. /\ pc \in [Worker -> PC] /\ item \in [Worker -> Item \cup {NoItem}]
      /\ procQ \in [Item -> Nat] /\ HasItem /\ Eoq \in Item
      /\ StoreTypeOK(Worker \X Nat) /\ eoqs \in Nat /\ crashes \in Nat
  BY EoqIsItem DEF TypeInv, TypeOK, StoreTypeOK, WorkerTypeOK
<1>1. ASSUME UNCHANGED <<mainQ, procQ, pc, crashes, eoqs>> PROVE CountInv'
  BY <1>1 DEF EoqPlaces, Failed
<1>2. ASSUME SendEoq PROVE CountInv'
  <2>1. mainQ' = Append(mainQ, Eoq) /\ eoqs' = eoqs + 1 /\ UNCHANGED <<procQ, pc, crashes>>
    BY <1>2 DEF SendEoq, RPush, workerVars
  <2>2. Cardinality(EoqPlaces') = Cardinality(EoqPlaces) + 1 /\ Failed' = Failed
    BY <1>0, <2>1, PlacesAfterPush DEF Failed
  <2> QED
    BY <1>0, <2>1, <2>2, PlacesFinite
<1>3. ASSUME PublisherRuns /\ Publish PROVE CountInv'
  <2>1. /\ pubIdx \in Item /\ pubIdx # Eoq /\ mainQ' = Append(mainQ, pubIdx)
        /\ UNCHANGED <<procQ, pc, crashes, eoqs>>
    BY <1>3, EoqIsItem DEF PublisherRuns, Publish, RPush, workerVars, TypeInv, TypeOK, PubTypeOK
  <2>2. Cardinality(EoqPlaces') = Cardinality(EoqPlaces) /\ Failed' = Failed
    BY <1>0, <2>1, PlacesAfterPush, PlacesFinite DEF Failed
  <2> QED
    BY <2>1, <2>2
<1>4. ASSUME NEW w \in Worker, WorkerRun(w) PROVE CountInv'
  <2>1. crashes' = crashes /\ eoqs' = eoqs
    BY <1>4 DEF WorkerRun, WorkerStep, Turn, Lease, LeasePop, LeaseTimeout, LeaseSet, Break,
                WorkItem, Work, Complete, CompleteRem, CompleteDel
  <2>2. Failed' = Failed
    <3>1. pc[w] # "down" /\ \E label \in PC \ {"down"} : pc' = [pc EXCEPT ![w] = label]
      BY <1>4 DEF WorkerRun, WorkerStep, Turn, Lease, LeasePop, LeaseTimeout, LeaseSet, Break,
                  WorkItem, Work, Complete, CompleteRem, CompleteDel, Goto, PC
    <3> QED
      BY <1>0, <3>1 DEF Failed
  <2>3. CASE Turn(w) \/ LeaseTimeout(w) \/ LeaseSet(w) \/ Break(w) \/ WorkItem(w) \/ CompleteDel(w)
    <3>1. UNCHANGED <<mainQ, procQ>>
      BY <2>3 DEF Turn, LeaseTimeout, LeaseSet, Break, WorkItem, Work, CompleteDel, SetEx, Del,
                  storeVars
    <3> QED
      BY <2>1, <2>2, <3>1 DEF EoqPlaces
  <2>4. CASE LeasePop(w)
    <3>1. PICK r \in Item : r = Rightmost
      BY <1>0, <2>4, RPopLPushEffect DEF LeasePop
    <3>2. RPopLPush /\ procQ'[Eoq] = procQ[Eoq] + (IF r = Eoq THEN 1 ELSE 0)
      BY <1>0, <2>4, <3>1 DEF LeasePop, RPopLPush
    <3>3. /\ Cardinality(EoqPlaces') \in Nat
          /\ Cardinality(EoqPlaces) = Cardinality(EoqPlaces') + (IF r = Eoq THEN 1 ELSE 0)
      BY <1>0, <3>1, <3>2, PlacesAfterPop
    <3> QED
      BY <1>0, <2>1, <2>2, <3>2, <3>3
  <2>5. CASE CompleteRem(w)
    <3>1. /\ item[w] # Eoq /\ item[w] \in Item /\ procQ' = [procQ EXCEPT ![item[w]] = 0]
          /\ mainQ' = mainQ
      BY <1>0, <2>5 DEF CompleteRem, LRemAll, HasItem, EoqInv
    <3>2. procQ'[Eoq] = procQ[Eoq]
      BY <1>0, <3>1
    <3> QED
      BY <2>1, <2>2, <3>1, <3>2 DEF EoqPlaces
  <2> QED
    BY <1>4, <2>3, <2>4, <2>5 DEF WorkerRun, WorkerStep, Lease, Complete
<1>5. ASSUME NEW w \in Worker, WorkerFails(w) PROVE CountInv'
  <2>1. /\ pc[w] # "down" /\ pc' = [pc EXCEPT ![w] = "down"] /\ crashes' = crashes + 1
        /\ UNCHANGED <<mainQ, procQ, eoqs>>
    BY <1>5 DEF WorkerFails, Crash, Goto, storeVars
  <2>2. Failed' = Failed \cup {w} /\ w \notin Failed
    BY <1>0, <2>1 DEF Failed
  <2>3. Cardinality(Failed') = Cardinality(Failed) + 1
    BY <2>2, FailedFinite, FS_AddElement
  <2> QED
    BY <2>1, <2>3 DEF EoqPlaces
<1>6. ASSUME \/ PublisherFails \/ Terminated \/ UNCHANGED vars
             \/ \E k \in LeaseKey : LeaseExpires(k)
             \/ PublisherRuns /\ PubExit
      PROVE  CountInv'
  <2>1. UNCHANGED <<mainQ, procQ, workerVars>> /\ eoqs' = eoqs
    BY <1>6, QuietSteps DEF PublisherFails, Terminated, vars, LeaseExpires, PublisherRuns
  <2> QED
    BY <1>1, <2>1 DEF workerVars
<1> QED
  BY <1>2, <1>3, <1>4, <1>5, <1>6 DEF Next, PublisherRuns, PubStep

(* Nobody stops by himself: it takes an EOQ or a failure for each worker   *)
(* to stop them all.                                                       *)
THEOREM OneForEach == Spec => []StoppedByEach
<1>1. TypeInv /\ EoqInv /\ CountInv => StoppedByEach
  <2> SUFFICES ASSUME TypeInv, EoqInv, CountInv, NobodyLeft
               PROVE  eoqs + crashes >= Cardinality(Worker)
    BY DEF StoppedByEach
  <2>1. Worker = Stopped \cup Failed
    BY DEF NobodyLeft, EoqInv, Stopped, Failed
  <2>2. IsFiniteSet(Stopped \cap Failed) /\ Cardinality(Stopped \cap Failed) \in Nat
    <3>1. Stopped \cap Failed \in SUBSET Stopped
      OBVIOUS
    <3> QED
      BY <3>1, StoppedFinite, FS_Subset, FS_CardinalityType
  <2>3. Cardinality(Worker) <= Cardinality(Stopped) + Cardinality(Failed)
    <3>1. Cardinality(Stopped \cup Failed)
            = Cardinality(Stopped) + Cardinality(Failed) - Cardinality(Stopped \cap Failed)
      BY StoppedFinite, FailedFinite, FS_Union
    <3> QED
      BY <2>1, <2>2, <3>1, StoppedFinite, FailedFinite
  <2>4. /\ Cardinality(EoqPlaces) \in Nat /\ Cardinality(Stopped) \in Nat
        /\ Cardinality(Failed) \in Nat /\ Cardinality(Worker) \in Nat
    BY PlacesFinite, StoppedFinite, FailedFinite, EoqAssumption, FS_CardinalityType
    DEF TypeInv, TypeOK
  <2>5. /\ eoqs = Cardinality(Stopped) + Cardinality(EoqPlaces)
        /\ crashes = Cardinality(Failed)
    BY DEF EoqInv, CountInv
  <2> QED
    BY <2>3, <2>4, <2>5
<1> QED
  BY <1>1, TypeInit, TypeStep, EoqInit, EoqStep, CountInit, CountStep, PTL DEF Spec

-----------------------------------------------------------------------------
(* The queue implements TaskPool, as the queue that came after it does.    *)

ProgressInv ==
  \A w \in Worker :
    /\ \A i \in Item : Holds(w, i) => procQ[i] > 0 \/ i \in worked
    /\ pc[w] = "complete_rem" => item[w] \in worked

LEMMA ProgressInit == Init => ProgressInv
BY DEF Init, WorkerInit, ProgressInv, Holds

LEMMA ProgressStep == TypeInv /\ ProgressInv /\ [Next]_vars => ProgressInv'
<1> SUFFICES ASSUME TypeInv, ProgressInv, [Next]_vars PROVE ProgressInv'
  OBVIOUS
<1> USE DEF ProgressInv, Holds
<1>0. /\ pc \in [Worker -> PC] /\ item \in [Worker -> Item \cup {NoItem}]
      /\ procQ \in [Item -> Nat] /\ HasItem
  BY DEF TypeInv, TypeOK, StoreTypeOK, WorkerTypeOK
<1>1. ASSUME UNCHANGED <<procQ, workerVars>> PROVE ProgressInv'
  BY <1>1 DEF workerVars
<1>2. ASSUME NEW w \in Worker, WorkerRun(w) PROVE ProgressInv'
  <2>1. CASE Turn(w) \/ LeaseTimeout(w) \/ LeaseSet(w) \/ Break(w) \/ Work(w) \/ CompleteDel(w)
    BY <1>0, <2>1 DEF Turn, LeaseTimeout, LeaseSet, Break, Work, CompleteDel, SetEx, Del, Goto,
                      storeVars
  <2>2. CASE LeasePop(w)
    <3>0. PICK r \in Item : r = Rightmost
      BY <2>2, RPopLPushEffect DEF LeasePop, TypeInv, TypeOK
    <3>1. /\ item' = [item EXCEPT ![w] = r] /\ pc' = [pc EXCEPT ![w] = "lease_set"]
          /\ procQ' = [procQ EXCEPT ![r] = @ + 1] /\ worked' = worked
      BY <2>2, <3>0 DEF LeasePop, RPopLPush, Goto
    <3>2. \A i \in Item : procQ'[i] = IF i = r THEN procQ[i] + 1 ELSE procQ[i]
      BY <1>0, <3>1
    <3> QED
      BY <1>0, <3>1, <3>2
  <2>3. CASE CompleteRem(w)
    <3>1. /\ item[w] \in Item /\ item[w] \in worked /\ procQ' = [procQ EXCEPT ![item[w]] = 0]
          /\ pc' = [pc EXCEPT ![w] = "complete_del"] /\ UNCHANGED <<item, worked>>
      BY <1>0, <2>3 DEF CompleteRem, LRemAll, HasItem, Goto
    <3> QED
      BY <1>0, <3>1
  <2> QED
    BY <1>2, <2>1, <2>2, <2>3 DEF WorkerRun, WorkerStep, Lease, WorkItem, Complete
<1>3. ASSUME NEW w \in Worker, WorkerFails(w) PROVE ProgressInv'
  BY <1>0, <1>3 DEF WorkerFails, Crash, Goto, storeVars
<1> QED
  BY <1>1, <1>2, <1>3, QuietSteps, PushSteps DEF Next, PublisherRuns, PubStep

LEMMA PoolFrame ==
  ASSUME UNCHANGED <<mainQ, procQ, worked>>
  PROVE  UNCHANGED Pool!poolVars
BY DEF Pool!poolVars, Waiting, InProgress, InMain

LEMMA PoolStep == TypeInv /\ ProgressInv /\ [Next]_vars => [Pool!PoolNext]_Pool!poolVars
<1> SUFFICES ASSUME TypeInv, ProgressInv, [Next]_vars
             PROVE  Pool!PoolNext \/ UNCHANGED Pool!poolVars
  OBVIOUS
<1>0. procQ \in [Item -> Nat] /\ HasItem /\ StoreTypeOK(Worker \X Nat)
  BY DEF TypeInv, TypeOK, StoreTypeOK
<1>1. ASSUME UNCHANGED <<mainQ, procQ, workerVars>> PROVE UNCHANGED Pool!poolVars
  BY <1>1, PoolFrame DEF workerVars
<1>2. ASSUME SendEoq \/ (PublisherRuns /\ Publish) PROVE Pool!PoolNext
  <2>1. PICK j \in Item : mainQ' = Append(mainQ, j)
    <3>1. CASE SendEoq
      BY <3>1, EoqIsItem DEF SendEoq, RPush
    <3>2. CASE PublisherRuns /\ Publish
      BY <3>2, EoqIsItem DEF Publish, RPush, TypeInv, TypeOK, PubTypeOK
    <3> QED
      BY <1>2, <3>1, <3>2
  <2>2. Pool!Offer(j)
    BY <1>0, <1>2, <2>1, PushSteps, WaitingAfterPush DEF Pool!Offer, InProgress, workerVars
  <2> QED
    BY <2>2 DEF Pool!PoolNext
<1>3. ASSUME NEW w \in Worker, WorkerRun(w) PROVE Pool!PoolNext \/ UNCHANGED Pool!poolVars
  <2>1. CASE Turn(w) \/ LeaseTimeout(w) \/ LeaseSet(w) \/ Break(w) \/ CompleteDel(w)
    BY <2>1, PoolFrame DEF Turn, LeaseTimeout, LeaseSet, Break, CompleteDel, SetEx, Del, storeVars
  <2>2. CASE LeasePop(w)
    <3>1. Rightmost \in Item
      BY <1>0, <2>2, RPopLPushEffect DEF LeasePop
    <3>2. Pool!Take(Rightmost)
      BY <1>0, <2>2, WaitingAfterPop DEF LeasePop, Pool!Take
    <3> QED
      BY <3>1, <3>2 DEF Pool!PoolNext
  <2>3. CASE Work(w)
    <3>1. /\ item[w] \in Item /\ worked' = worked \cup {item[w]}
          /\ procQ[item[w]] > 0 \/ item[w] \in worked
          /\ UNCHANGED <<mainQ, procQ>>
      BY <1>0, <2>3 DEF Work, HasItem, ProgressInv, Holds, storeVars
    <3>2. CASE item[w] \in worked
      BY <3>1, <3>2, PoolFrame
    <3>3. CASE procQ[item[w]] > 0
      <4>1. Pool!Finish(item[w])
        BY <3>1, <3>3 DEF Pool!Finish, Waiting, InProgress, InMain
      <4> QED
        BY <3>1, <4>1 DEF Pool!PoolNext
    <3> QED
      BY <3>1, <3>2, <3>3
  <2>4. CASE CompleteRem(w)
    <3>1. PICK t \in Item : t = item[w] /\ t \in worked
      BY <1>0, <2>4 DEF CompleteRem, HasItem, ProgressInv
    <3>2. procQ' = [procQ EXCEPT ![t] = 0] /\ UNCHANGED <<mainQ, worked>>
      BY <2>4, <3>1 DEF CompleteRem, LRemAll
    <3>3. InProgress' = InProgress \ {t}
      BY <1>0, <3>2 DEF InProgress
    <3>4. Pool!Report(t)
      BY <3>1, <3>2, <3>3 DEF Pool!Report, Waiting, InMain
    <3> QED
      BY <3>4 DEF Pool!PoolNext
  <2> QED
    BY <1>3, <2>1, <2>2, <2>3, <2>4 DEF WorkerRun, WorkerStep, Lease, WorkItem, Complete
<1>4. ASSUME NEW w \in Worker, WorkerFails(w) PROVE UNCHANGED Pool!poolVars
  BY <1>4, PoolFrame DEF WorkerFails, Crash, storeVars
<1> QED
  BY <1>1, <1>2, <1>3, <1>4, QuietSteps DEF Next, PublisherRuns, PubStep

(* No item leaves the queue undone. *)
THEOREM EoqIsPool == Spec => ImplementsPool
<1>1. Init => Pool!PoolInit
  BY DEF Init, StoreInit, WorkerInit, Waiting, InProgress, InMain, Pool!PoolInit
<1> QED
  BY <1>1, TypeInit, TypeStep, ProgressInit, ProgressStep, PoolStep, PTL
  DEF Spec, ImplementsPool, Pool!PoolSpec

=============================================================================
