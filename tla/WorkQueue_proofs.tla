-------------------------- MODULE WorkQueue_proofs --------------------------
(***************************************************************************)
(* Theorems about WorkQueue for every number of workers, items and         *)
(* failures, and every way of looking whether the queue is empty.  The     *)
(* assumptions are those on the constants in Publisher and LeaseWorker;    *)
(* nothing is assumed about fairness.                                      *)
(***************************************************************************)
EXTENDS WorkQueue, RedisStore_proofs

(* The constants and derived sets, as the proofs use them. *)
LEMMA CountNat == Count \in Nat /\ Count >= 1
BY PublisherAssumption

LEMMA Published == \A n \in 1 .. Count : n < Count => n \in Item
BY PublisherAssumption, CountNat

(* A step of the publisher leaves the workers alone; all but Publish leave *)
(* the store alone too.                                                    *)
LEMMA PublisherCases ==
  ASSUME PublisherNext
  PROVE  /\ UNCHANGED <<workerVars, serverVars>>
         /\ \/ Publish
            \/ (PubExit \/ PubCrash \/ PubRestart) /\ UNCHANGED storeVars
BY DEF PublisherNext, PublisherRuns, PublisherFails, PublisherRestarts, PubStep, PubExit,
       PubCrash, PubRestart

-----------------------------------------------------------------------------
(* Every variable keeps its type: in particular a worker that sets a lease *)
(* or completes has an item to do so for.  The type invariant alone is not *)
(* inductive: SETEX and LREM want an item, so HasItem comes with it.       *)

HasItem ==
  \A w \in Worker :
    pc[w] \in {"lease_set", "work", "complete_rem", "complete_del"} =>
      item[w] \in Item

TypeInv == QueueTypeOK /\ HasItem

LEMMA TypeInit == QueueInit => TypeInv
<1> SUFFICES ASSUME QueueInit PROVE TypeInv
  OBVIOUS
<1>1. StoreTypeOK(Worker \X Nat)
  BY DEF QueueInit, StoreInit, StoreTypeOK
<1>2. PubTypeOK
  BY CountNat DEF QueueInit, PubInit, PubTypeOK
<1>3. WorkerTypeOK
  BY DEF QueueInit, WorkerInit, WorkerTypeOK, PC
<1>4. HasItem
  BY DEF QueueInit, WorkerInit, HasItem
<1>5. ServerTypeOK
  BY DEF QueueInit, ServerTypeOK
<1> QED
  BY <1>1, <1>2, <1>3, <1>4, <1>5 DEF TypeInv, QueueTypeOK

(* All steps but ServerRestarts leave the history of the server alone. *)
LEMMA ServerStep == ServerTypeOK /\ [QueueNext]_queueVars => ServerTypeOK'
<1> SUFFICES ASSUME ServerTypeOK, [QueueNext]_queueVars PROVE ServerTypeOK'
  OBVIOUS
<1>1. CASE ServerRestarts
  BY <1>1 DEF ServerRestarts, ServerTypeOK, Waiting, InProgress
<1>2. CASE ~ ServerRestarts
  <2>1. UNCHANGED serverVars
    BY <1>2, PublisherCases DEF QueueNext, Surroundings, WorkerFails, WorkerRestarts,
       LeaseExpires, WorkerActs, queueVars
  <2> QED
    BY <2>1 DEF serverVars, ServerTypeOK
<1> QED
  BY <1>1, <1>2

LEMMA TypeStep == TypeInv /\ [QueueNext]_queueVars => TypeInv'
<1> SUFFICES ASSUME TypeInv, [QueueNext]_queueVars PROVE TypeInv'
  OBVIOUS
<1> USE DEF TypeInv, QueueTypeOK
<1> ServerTypeOK'
  BY ServerStep
<1>1. CASE PublisherNext
  <2>1. WorkerTypeOK' /\ HasItem'
    BY <1>1, PublisherCases DEF workerVars, WorkerTypeOK, HasItem
  <2>2. CASE Publish
    <3>1. pubIdx \in Item
      BY <2>2, Published DEF Publish, PubTypeOK
    <3>2. StoreTypeOK(Worker \X Nat)'
      BY <2>2, <3>1 DEF Publish, RPush, StoreTypeOK
    <3>3. PubTypeOK'
      BY <2>2, CountNat DEF Publish, PubTypeOK
    <3> QED
      BY <2>1, <3>2, <3>3
  <2>3. CASE PubExit \/ PubCrash \/ PubRestart
    <3>1. StoreTypeOK(Worker \X Nat)'
      BY <2>3 DEF PubExit, PubCrash, PubRestart, storeVars, StoreTypeOK
    <3>2. PubTypeOK'
      BY <2>3, CountNat DEF PubExit, PubCrash, PubRestart, PubTypeOK
    <3> QED
      BY <2>1, <3>1, <3>2
  <2> QED
    BY <1>1, <2>2, <2>3, PublisherCases
<1>2. ASSUME NEW w \in Worker, WorkerActs(w) PROVE TypeInv'
  <2>1. PubTypeOK'
    BY <1>2 DEF WorkerActs, pubVars, PubTypeOK, PubDone
  <2>2. CASE Look(w) \/ LeaseTimeout(w)
    <3>1. StoreTypeOK(Worker \X Nat)'
      BY <2>2 DEF Look, LeaseTimeout, storeVars, StoreTypeOK
    <3>2. WorkerTypeOK' /\ HasItem'
      BY <2>2 DEF Look, LeaseTimeout, Goto, PC, WorkerTypeOK, HasItem
    <3> QED
      BY <2>1, <3>1, <3>2
  <2>3. CASE LeasePop(w)
    <3>1. StoreTypeOK(Worker \X Nat)' /\ Rightmost \in Item
      BY <2>3, RPopLPushEffect DEF LeasePop
    <3>2. WorkerTypeOK' /\ HasItem'
      BY <2>3, <3>1 DEF LeasePop, Goto, PC, WorkerTypeOK, HasItem
    <3> QED
      BY <2>1, <3>1, <3>2
  <2>4. CASE LeaseSet(w) \/ Work(w) \/ CompleteRem(w) \/ CompleteDel(w)
    <3>1. item[w] \in Item
      BY <2>4 DEF LeaseSet, Work, CompleteRem, CompleteDel, HasItem
    <3>2. Session(w) \in Worker \X Nat
      BY DEF Session, WorkerTypeOK
    <3>3. StoreTypeOK(Worker \X Nat)'
      BY <2>4, <3>2 DEF LeaseSet, Work, CompleteRem, CompleteDel, SetEx, LRemAll,
                        Del, storeVars, StoreTypeOK
    <3>4. WorkerTypeOK' /\ HasItem'
      BY <2>4, <3>1 DEF LeaseSet, Work, CompleteRem, CompleteDel, Goto, PC,
                        WorkerTypeOK, HasItem
    <3> QED
      BY <2>1, <3>3, <3>4
  <2> QED
    BY <1>2, <2>2, <2>3, <2>4 DEF WorkerActs, LeasingStep
<1>3. ASSUME NEW w \in Worker, WorkerFails(w) \/ WorkerRestarts(w) PROVE TypeInv'
  <2>1. StoreTypeOK(Worker \X Nat)' /\ PubTypeOK'
    BY <1>3 DEF WorkerFails, WorkerRestarts, Crash, Restart, storeVars, pubVars,
                StoreTypeOK, PubTypeOK
  <2>2. WorkerTypeOK' /\ HasItem'
    BY <1>3 DEF WorkerFails, WorkerRestarts, Crash, Restart, Goto, PC, WorkerTypeOK, HasItem
  <2> QED
    BY <2>1, <2>2
<1>4. ASSUME NEW k \in LeaseKey, LeaseExpires(k) PROVE TypeInv'
  BY <1>4 DEF LeaseExpires, Expire, Del, pubVars, workerVars, StoreTypeOK, PubTypeOK,
              WorkerTypeOK, HasItem
<1>5. CASE ServerRestarts
  BY <1>5 DEF ServerRestarts, Wipe, pubVars, workerVars, StoreTypeOK, PubTypeOK,
              WorkerTypeOK, HasItem
<1>6. CASE UNCHANGED queueVars
  BY <1>6 DEF queueVars, storeVars, pubVars, workerVars, StoreTypeOK, PubTypeOK,
              WorkerTypeOK, HasItem
<1> QED
  BY <1>1, <1>2, <1>3, <1>4, <1>5, <1>6 DEF QueueNext, Surroundings

THEOREM TypeCorrect == QueueSpec => []QueueTypeOK
<1>1. TypeInv => QueueTypeOK
  BY DEF TypeInv
<1> QED
  BY <1>1, TypeInit, TypeStep, PTL DEF QueueSpec

-----------------------------------------------------------------------------
(* What is in progress.  A second worker that holds an item of the same    *)
(* payload loses its copy in the processing list to the LREM of the first: *)
(* then the work must have been done already, which WorkedBeforeRem says.  *)

WorkedBeforeRem == \A w \in Worker : pc[w] = "complete_rem" => item[w] \in worked

ProgressInv == InProgressAccounted /\ WorkedBeforeRem

LEMMA ProgressInit == QueueInit => ProgressInv
BY DEF QueueInit, StoreInit, WorkerInit, ProgressInv, InProgressAccounted, WorkedBeforeRem, Holds

(* The frame: a step that leaves these variables alone. *)
LEMMA ProgressFrame ==
  ASSUME ProgressInv, UNCHANGED <<pc, item, procQ, worked, orphans, lost>>
  PROVE  ProgressInv'
BY DEF ProgressInv, InProgressAccounted, WorkedBeforeRem, Holds

LEMMA ProgressStep == TypeInv /\ ProgressInv /\ [QueueNext]_queueVars => ProgressInv'
<1> SUFFICES ASSUME TypeInv, ProgressInv, [QueueNext]_queueVars PROVE ProgressInv'
  OBVIOUS
<1> USE DEF ProgressInv, InProgressAccounted, WorkedBeforeRem, Holds
<1>1. ASSUME NEW w \in Worker, WorkerActs(w) PROVE ProgressInv'
  <2> UNCHANGED lost
    BY <1>1 DEF WorkerActs, serverVars
  <2> pc \in [Worker -> PC] /\ item \in [Worker -> Item \cup {NoItem}]
      /\ procQ \in [Item -> Nat] /\ worked \subseteq Item
    BY DEF TypeInv, QueueTypeOK, StoreTypeOK, WorkerTypeOK
  <2>1. CASE Look(w) \/ LeaseTimeout(w)
    BY <2>1 DEF Look, LeaseTimeout, Goto, storeVars
  <2>2. CASE LeasePop(w)
    <3>1. Rightmost \in Item
      BY <2>2, RPopLPushEffect DEF LeasePop, TypeInv, QueueTypeOK
    <3>2. /\ procQ' = [procQ EXCEPT ![Rightmost] = @ + 1]
          /\ pc' = [pc EXCEPT ![w] = "lease_set"]
          /\ item' = [item EXCEPT ![w] = Rightmost]
          /\ worked' = worked /\ orphans' = orphans
          /\ pc[w] = "lease_pop"
      BY <2>2 DEF LeasePop, RPopLPush, Goto
    <3>3. \A i \in Item : procQ'[i] = IF i = Rightmost THEN procQ[i] + 1 ELSE procQ[i]
      BY <3>1, <3>2
    <3>4. \A v \in Worker, i \in Item : Holds(v, i)' <=> IF v = w THEN i = Rightmost ELSE Holds(v, i)
      BY <3>2
    <3>5. InProgressAccounted'
      BY <3>1, <3>2, <3>3, <3>4
    <3>6. WorkedBeforeRem'
      BY <3>2
    <3> QED
      BY <3>5, <3>6
  <2>3. CASE LeaseSet(w)
    BY <2>3 DEF LeaseSet, SetEx, Goto
  <2>4. CASE Work(w)
    BY <2>4 DEF Work, Goto, storeVars
  <2>5. CASE CompleteRem(w)
    <3>1. item[w] \in Item /\ item[w] \in worked
      BY <2>5 DEF CompleteRem, TypeInv, HasItem
    <3>2. /\ procQ' = [procQ EXCEPT ![item[w]] = 0]
          /\ pc' = [pc EXCEPT ![w] = "complete_del"]
          /\ UNCHANGED <<item, worked, orphans>>
      BY <2>5 DEF CompleteRem, LRemAll, Goto
    <3>3. InProgressAccounted'
      BY <3>1, <3>2
    <3>4. WorkedBeforeRem'
      BY <3>2
    <3> QED
      BY <3>3, <3>4
  <2>6. CASE CompleteDel(w)
    BY <2>6 DEF CompleteDel, Del, Goto
  <2> QED
    BY <1>1, <2>1, <2>2, <2>3, <2>4, <2>5, <2>6 DEF WorkerActs, LeasingStep
<1>2. ASSUME NEW w \in Worker, WorkerFails(w) \/ WorkerRestarts(w) PROVE ProgressInv'
  BY <1>2 DEF WorkerFails, WorkerRestarts, Crash, Restart, Goto, storeVars, serverVars,
              TypeInv, QueueTypeOK, WorkerTypeOK
<1>3. CASE PublisherNext
  BY <1>3, PublisherCases, ProgressFrame DEF Publish, RPush, storeVars, workerVars, serverVars
<1>4. ASSUME NEW k \in LeaseKey, LeaseExpires(k) PROVE ProgressInv'
  BY <1>4, ProgressFrame DEF LeaseExpires, Expire, Del, workerVars, serverVars
<1>5. CASE ServerRestarts
  <2>1. /\ procQ' = [i \in Item |-> 0] /\ UNCHANGED <<pc, item, worked, orphans>>
        /\ lost' = lost \cup Waiting \cup InProgress
    BY <1>5 DEF ServerRestarts, Wipe, workerVars
  <2>2. \A i \in Item : procQ[i] > 0 \/ i \in lost => i \in lost'
    BY <2>1 DEF InProgress
  <2> QED
    BY <2>1, <2>2
<1>6. CASE UNCHANGED queueVars
  BY <1>6, ProgressFrame DEF queueVars, storeVars, workerVars, serverVars
<1> QED
  BY <1>1, <1>2, <1>3, <1>4, <1>5, <1>6 DEF QueueNext, Surroundings

(* What the server counts as in progress and what the workers hold agree,  *)
(* whatever dies and whenever.                                             *)
THEOREM ProgressCorrect == QueueSpec => []InProgressAccounted
<1>1. ProgressInv => InProgressAccounted
  BY DEF ProgressInv
<1> QED
  BY <1>1, TypeInit, TypeStep, ProgressInit, ProgressStep, PTL DEF QueueSpec

-----------------------------------------------------------------------------
(* Nothing vanishes.  An item leaves the main list only for the processing *)
(* list, and that only when it was worked on: WorkedBeforeRem again.  Of   *)
(* the publisher it matters that it is done only at the end of its range.  *)

VanishInv ==
  /\ NothingVanishes
  /\ PubDone => pubIdx = Count

LEMMA VanishInit == QueueInit => VanishInv
BY DEF QueueInit, PubInit, VanishInv, NothingVanishes, PubDone

LEMMA VanishStep ==
  TypeInv /\ ProgressInv /\ VanishInv /\ [QueueNext]_queueVars => VanishInv'
<1> SUFFICES ASSUME TypeInv, ProgressInv, VanishInv, [QueueNext]_queueVars PROVE VanishInv'
  OBVIOUS
<1> USE DEF VanishInv, NothingVanishes, PubDone
<1>0. procQ \in [Item -> Nat] /\ HasItem /\ pubIdx \in 1 .. Count /\ Count \in Nat
  BY CountNat DEF TypeInv, QueueTypeOK, StoreTypeOK, PubTypeOK
(* The frame: steps that only add to the four sets. *)
<1>1. ASSUME UNCHANGED <<pubPc, pubIdx>>,
             Waiting \cup InProgress \cup worked \cup lost
               \subseteq (Waiting \cup InProgress \cup worked \cup lost)'
      PROVE  VanishInv'
  BY <1>1
<1>2. CASE PublisherNext
  <2>1. UNCHANGED <<worked, lost>>
    BY <1>2, PublisherCases DEF workerVars, serverVars
  <2>2. CASE Publish
    <3>1. /\ pubIdx \in Item /\ mainQ' = Append(mainQ, pubIdx) /\ pubIdx' = pubIdx + 1
          /\ UNCHANGED <<procQ, pubPc>> /\ pubPc = "publishing"
      BY <2>2, Published, CountNat DEF Publish, RPush, TypeInv, QueueTypeOK, PubTypeOK
    <3>2. Waiting' = Waiting \cup {pubIdx} /\ InProgress' = InProgress
      BY <3>1, WaitingAfterPush DEF InProgress, TypeInv, QueueTypeOK
    <3>3. 1 .. (pubIdx' - 1) = (1 .. (pubIdx - 1)) \cup {pubIdx}
      BY <1>0, <3>1
    <3> QED
      BY <2>1, <3>1, <3>2, <3>3
  <2>3. CASE PubExit \/ PubCrash
    <3>1. UNCHANGED <<Waiting, InProgress>>
      BY <2>3 DEF PubExit, PubCrash, storeVars, Waiting, InProgress, InMain
    <3> QED
      BY <2>1, <2>3, <3>1 DEF PubExit, PubCrash
  <2>4. CASE PubRestart
    BY <2>4 DEF PubRestart
  <2> QED
    BY <1>2, <2>2, <2>3, <2>4, PublisherCases
<1>3. ASSUME NEW w \in Worker, WorkerActs(w) PROVE VanishInv'
  <2>0. UNCHANGED <<pubPc, pubIdx, lost>>
    BY <1>3 DEF WorkerActs, pubVars, serverVars
  <2>1. CASE Look(w) \/ LeaseTimeout(w) \/ LeaseSet(w) \/ CompleteDel(w)
    <3>1. UNCHANGED <<Waiting, InProgress, worked>>
      BY <2>1 DEF Look, LeaseTimeout, LeaseSet, CompleteDel, SetEx, Del, storeVars,
                  Waiting, InProgress, InMain
    <3> QED
      BY <2>0, <3>1, <1>1
  <2>2. CASE LeasePop(w)
    BY <2>0, <2>2, <1>1, WaitingAfterPop DEF LeasePop, TypeInv, QueueTypeOK
  <2>3. CASE Work(w)
    <3>1. UNCHANGED <<Waiting, InProgress>> /\ worked \subseteq worked'
      BY <2>3 DEF Work, storeVars, Waiting, InProgress, InMain
    <3> QED
      BY <2>0, <3>1, <1>1
  <2>4. CASE CompleteRem(w)
    <3>1. /\ item[w] \in Item /\ item[w] \in worked
          /\ procQ' = [procQ EXCEPT ![item[w]] = 0]
          /\ UNCHANGED <<mainQ, worked>>
      BY <1>0, <2>4 DEF CompleteRem, LRemAll, HasItem, ProgressInv, WorkedBeforeRem
    <3>2. InProgress \subseteq InProgress' \cup {item[w]} /\ Waiting' = Waiting
      BY <1>0, <3>1 DEF InProgress, Waiting, InMain
    <3> QED
      BY <2>0, <3>1, <3>2, <1>1
  <2> QED
    BY <1>3, <2>1, <2>2, <2>3, <2>4 DEF WorkerActs, LeasingStep
<1>4. CASE \/ \E w \in Worker : WorkerFails(w) \/ WorkerRestarts(w)
           \/ \E k \in LeaseKey : LeaseExpires(k)
           \/ UNCHANGED queueVars
  <2>1. UNCHANGED <<mainQ, procQ, worked, lost, pubPc, pubIdx>>
    BY <1>4 DEF WorkerFails, WorkerRestarts, Crash, Restart, LeaseExpires, Expire, Del,
                queueVars, storeVars, pubVars, workerVars, serverVars
  <2>2. UNCHANGED <<Waiting, InProgress>>
    BY <2>1 DEF Waiting, InProgress, InMain
  <2> QED
    BY <2>1, <2>2, <1>1
<1>5. CASE ServerRestarts
  BY <1>5, <1>1 DEF ServerRestarts, pubVars, workerVars
<1> QED
  BY <1>2, <1>3, <1>4, <1>5 DEF QueueNext, Surroundings

(* Whatever was pushed waits, is in progress, was worked on, or was in the *)
(* lists of a server that was restarted, in every leasing queue.           *)
THEOREM NothingVanishesCorrect == QueueSpec => []NothingVanishes
<1>1. VanishInv => NothingVanishes
  BY DEF VanishInv
<1> QED
  BY <1>1, TypeInit, TypeStep, ProgressInit, ProgressStep, VanishInit, VanishStep, PTL
     DEF QueueSpec

-----------------------------------------------------------------------------
(* Leases.  A session number that is in the store was given to a process   *)
(* of that pod: a restarted pod never meets its new session there.         *)

SessionsAreOld ==
  \A w \in Worker, n \in Nat, k \in LeaseKey : leases[k] = <<w, n>> => n <= life[w]

LeaseInv == LeasesNameHolders /\ SessionsAreOld

LEMMA SessionIsLease == \A w \in Worker, n \in Nat : <<w, n>> # NoLease
<1> SUFFICES ASSUME NEW w \in Worker, NEW n \in Nat PROVE <<w, n>> # NoLease
  OBVIOUS
<1>1. <<w, n>> \in Worker \X Nat
  OBVIOUS
<1> QED
  BY <1>1, WorkerAssumption

LEMMA LeaseInit == QueueInit => LeaseInv
BY WorkerAssumption DEF QueueInit, StoreInit, WorkerInit, LeaseInv, LeasesNameHolders,
                        SessionsAreOld, Session

LEMMA LeaseFrame ==
  ASSUME LeaseInv, UNCHANGED <<pc, item, life, leases>>
  PROVE  LeaseInv'
BY DEF LeaseInv, LeasesNameHolders, SessionsAreOld, Session, ItemKey

LEMMA LeaseStep == TypeInv /\ LeaseInv /\ [QueueNext]_queueVars => LeaseInv'
<1> SUFFICES ASSUME TypeInv, LeaseInv, [QueueNext]_queueVars PROVE LeaseInv'
  OBVIOUS
<1> USE WorkerAssumption DEF LeaseInv, LeasesNameHolders, SessionsAreOld, Session, ItemKey
<1>0. /\ pc \in [Worker -> PC] /\ item \in [Worker -> Item \cup {NoItem}]
      /\ life \in [Worker -> Nat] /\ HasItem
      /\ leases \in [LeaseKey -> (Worker \X Nat) \cup {NoLease}]
  BY DEF TypeInv, QueueTypeOK, StoreTypeOK, WorkerTypeOK
<1>1. ASSUME NEW w \in Worker, WorkerActs(w) PROVE LeaseInv'
  <2>1. CASE Look(w) \/ LeaseTimeout(w)
    BY <2>1, <1>0 DEF Look, LeaseTimeout, Goto, storeVars
  <2>2. CASE LeasePop(w)
    BY <2>2, <1>0 DEF LeasePop, RPopLPush, Goto
  <2>3. CASE LeaseSet(w)
    <3>1. item[w] \in Item /\ KeyOf[item[w]] \in LeaseKey
      BY <2>3, <1>0 DEF LeaseSet, HasItem
    <3>2. /\ leases' = [leases EXCEPT ![KeyOf[item[w]]] = <<w, life[w]>>]
          /\ pc' = [pc EXCEPT ![w] = "work"] /\ pc[w] = "lease_set"
          /\ UNCHANGED <<item, life>>
      BY <2>3 DEF LeaseSet, SetEx, Goto
    <3>3. LeasesNameHolders'
      BY <1>0, <3>1, <3>2
    <3>4. SessionsAreOld'
      BY <1>0, <3>1, <3>2
    <3> QED
      BY <3>3, <3>4
  <2>4. CASE Work(w)
    BY <2>4, <1>0 DEF Work, Goto, storeVars
  <2>5. CASE CompleteRem(w)
    BY <2>5, <1>0 DEF CompleteRem, LRemAll, Goto
  <2>6. CASE CompleteDel(w)
    <3>1. item[w] \in Item /\ KeyOf[item[w]] \in LeaseKey
      BY <2>6, <1>0 DEF CompleteDel, HasItem
    <3>2. /\ leases' = [leases EXCEPT ![KeyOf[item[w]]] = NoLease]
          /\ pc' = [pc EXCEPT ![w] = "check_main"] /\ pc[w] = "complete_del"
          /\ UNCHANGED <<item, life>>
      BY <2>6 DEF CompleteDel, Del, Goto
    <3>3. ASSUME NEW v \in Worker, NEW n \in Nat, NEW k \in LeaseKey,
                 leases'[k] = <<v, n>>
          PROVE  k # KeyOf[item[w]] /\ leases[k] = <<v, n>>
      <4>1. <<v, n>> # NoLease
        BY SessionIsLease
      <4>2. leases'[k] = IF k = KeyOf[item[w]] THEN NoLease ELSE leases[k]
        BY <1>0, <3>1, <3>2
      <4> QED
        BY <3>3, <4>1, <4>2
    <3>4. LeasesNameHolders'
      BY <1>0, <3>1, <3>2, <3>3
    <3>5. SessionsAreOld'
      BY <1>0, <3>2, <3>3
    <3> QED
      BY <3>4, <3>5
  <2> QED
    BY <1>1, <2>1, <2>2, <2>3, <2>4, <2>5, <2>6 DEF WorkerActs, LeasingStep
<1>2. ASSUME NEW w \in Worker, WorkerFails(w) PROVE LeaseInv'
  BY <1>2, <1>0 DEF WorkerFails, Crash, Goto, storeVars
<1>3. ASSUME NEW w \in Worker, WorkerRestarts(w) PROVE LeaseInv'
  <2>1. /\ pc' = [pc EXCEPT ![w] = "check_main"]
        /\ item' = [item EXCEPT ![w] = NoItem]
        /\ life' = [life EXCEPT ![w] = @ + 1]
        /\ UNCHANGED leases
    BY <1>3 DEF WorkerRestarts, Restart, Goto, storeVars
  <2>2. \A v \in Worker : life'[v] = IF v = w THEN life[w] + 1 ELSE life[v]
    BY <1>0, <2>1
  <2>3. \A k \in LeaseKey : leases[k] # <<w, life[w] + 1>>
    BY <1>0
  <2>4. LeasesNameHolders'
    BY <1>0, <2>1, <2>2, <2>3
  <2>5. SessionsAreOld'
    BY <1>0, <2>1, <2>2
  <2> QED
    BY <2>4, <2>5
<1>4. CASE PublisherNext
  BY <1>4, PublisherCases, LeaseFrame DEF Publish, RPush, storeVars, workerVars
<1>5. ASSUME NEW k \in LeaseKey, LeaseExpires(k) PROVE LeaseInv'
  <2>1. /\ leases' = [leases EXCEPT ![k] = NoLease]
        /\ UNCHANGED <<pc, item, life>>
    BY <1>5 DEF LeaseExpires, Expire, Del, workerVars
  <2>2. ASSUME NEW v \in Worker, NEW n \in Nat, NEW l \in LeaseKey, leases'[l] = <<v, n>>
        PROVE  leases[l] = <<v, n>>
    <3>1. <<v, n>> # NoLease
      BY SessionIsLease
    <3>2. leases'[l] = IF l = k THEN NoLease ELSE leases[l]
      BY <1>0, <2>1
    <3> QED
      BY <2>2, <3>1, <3>2
  <2>3. LeasesNameHolders'
    BY <1>0, <2>1, <2>2
  <2>4. SessionsAreOld'
    BY <1>0, <2>1, <2>2
  <2> QED
    BY <2>3, <2>4
<1>6. CASE ServerRestarts
  <2>1. (\A k \in LeaseKey : leases'[k] = NoLease) /\ UNCHANGED <<pc, item, life>>
    BY <1>6 DEF ServerRestarts, Wipe, workerVars
  <2>2. LeasesNameHolders'
    BY <1>0, <2>1, SessionIsLease
  <2>3. SessionsAreOld'
    BY <1>0, <2>1, SessionIsLease
  <2> QED
    BY <2>2, <2>3
<1>7. CASE UNCHANGED queueVars
  BY <1>7, LeaseFrame DEF queueVars, storeVars, workerVars
<1> QED
  BY <1>1, <1>2, <1>3, <1>4, <1>5, <1>6, <1>7 DEF QueueNext, Surroundings

(* A lease in the store that bears the session of a running worker is one  *)
(* for the item it works on.                                               *)
THEOREM LeasesCorrect == QueueSpec => []LeasesNameHolders
<1>1. LeaseInv => LeasesNameHolders
  BY DEF LeaseInv
<1> QED
  BY <1>1, TypeInit, TypeStep, LeaseInit, LeaseStep, PTL DEF QueueSpec

-----------------------------------------------------------------------------
(* Single delivery.  As long as the publisher was not started again, an    *)
(* item is in the main list once, before anything else happens to it; when *)
(* it has left the list there is one copy and one worker of it.            *)

(* w has i in its hands, the DEL of complete() included. *)
Handles(w, i) ==
  /\ pc[w] \in {"lease_set", "work", "complete_rem", "complete_del"}
  /\ item[w] = i

(* Something happened to i after it was taken from the main list. *)
Touched(i) ==
  \/ procQ[i] > 0
  \/ i \in worked
  \/ \E w \in Worker : Handles(w, i)

OnceInMain ==
  /\ \A m, n \in 1 .. Len(mainQ) : mainQ[m] = mainQ[n] => m = n
  /\ \A n \in 1 .. Len(mainQ) : mainQ[n] \in 1 .. (pubIdx - 1) /\ ~ Touched(mainQ[n])

OnceTaken ==
  \A i \in Item :
    /\ Touched(i) => i \in 1 .. (pubIdx - 1)
    /\ procQ[i] <= 1
    /\ \A v, w \in Worker : Handles(v, i) /\ Handles(w, i) => v = w

DeliveryInv ==
  /\ pubPc = "down" => pubRestarts > 0
  /\ FirstRun => OnceInMain /\ OnceTaken

LEMMA DeliveryInit == QueueInit => DeliveryInv
BY WorkerAssumption DEF QueueInit, StoreInit, PubInit, WorkerInit, DeliveryInv, OnceInMain,
                        OnceTaken, Touched, Handles, ItemKey, FirstRun

(* Every step but Publish and LeasePop only takes away: what was not       *)
(* touched stays so, and copies and workers of an item become fewer.       *)
LEMMA DeliveryShrinks ==
  ASSUME TypeInv, DeliveryInv,
         UNCHANGED <<mainQ, pubPc, pubIdx, pubRestarts>>,
         \A i \in Item : Touched(i)' => Touched(i),
         \A i \in Item : procQ[i] <= 1 => procQ'[i] <= 1,
         \A i \in Item, w \in Worker : Handles(w, i)' => Handles(w, i)
  PROVE  DeliveryInv'
<1>1. \A n \in 1 .. Len(mainQ) : mainQ[n] \in Item
  BY DEF TypeInv, QueueTypeOK, StoreTypeOK
<1>2. OnceInMain => OnceInMain'
  BY <1>1 DEF OnceInMain
<1>3. OnceTaken => OnceTaken'
  <2> SUFFICES ASSUME OnceTaken PROVE OnceTaken'
    OBVIOUS
  <2>1. ASSUME NEW i \in Item PROVE Touched(i)' => i \in 1 .. (pubIdx' - 1)
    BY DEF OnceTaken
  <2>2. ASSUME NEW i \in Item PROVE procQ'[i] <= 1
    BY DEF OnceTaken
  <2>3. ASSUME NEW i \in Item, NEW v \in Worker, NEW w \in Worker,
               Handles(v, i)', Handles(w, i)'
        PROVE  v = w
    BY <2>3 DEF OnceTaken
  <2> QED
    BY <2>1, <2>2, <2>3 DEF OnceTaken
<1> QED
  BY <1>2, <1>3 DEF DeliveryInv, FirstRun

LEMMA DeliveryPublish ==
  ASSUME TypeInv, DeliveryInv, Publish, UNCHANGED workerVars
  PROVE  DeliveryInv'
<1> SUFFICES ASSUME FirstRun PROVE OnceInMain' /\ OnceTaken'
  BY DEF DeliveryInv, FirstRun, Publish
<1>1. OnceInMain /\ OnceTaken
  BY DEF DeliveryInv
<1>2. /\ pubIdx \in Item /\ pubIdx \in Nat \ {0} /\ mainQ \in Seq(Item)
      /\ pubIdx' = pubIdx + 1 /\ mainQ' = Append(mainQ, pubIdx)
      /\ UNCHANGED <<procQ, leases, pc, item, life, worked>>
  BY Published, CountNat DEF Publish, RPush, TypeInv, QueueTypeOK, StoreTypeOK, PubTypeOK, workerVars
<1>3. ~ Touched(pubIdx)
  BY <1>1, <1>2 DEF OnceTaken
<1>4. \A i \in Item : Touched(i)' <=> Touched(i)
  BY <1>2 DEF Touched, Handles
<1>5. OnceTaken'
  <2>1. ASSUME NEW i \in Item PROVE Touched(i)' => i \in 1 .. (pubIdx' - 1)
    BY <1>1, <1>2, <1>4 DEF OnceTaken
  <2>2. ASSUME NEW i \in Item PROVE procQ'[i] <= 1
    BY <1>1, <1>2 DEF OnceTaken
  <2>3. ASSUME NEW i \in Item, NEW v \in Worker, NEW w \in Worker,
               Handles(v, i)', Handles(w, i)'
        PROVE  v = w
    <3>1. Handles(v, i) /\ Handles(w, i)
      BY <1>2, <2>3 DEF Handles
    <3> QED
      BY <1>1, <3>1 DEF OnceTaken
  <2> QED
    BY <2>1, <2>2, <2>3 DEF OnceTaken
<1>6. /\ Len(mainQ') = Len(mainQ) + 1
      /\ mainQ'[Len(mainQ) + 1] = pubIdx
      /\ \A n \in 1 .. Len(mainQ) : mainQ'[n] = mainQ[n] /\ mainQ[n] \in Item
  BY <1>2
<1>7. \A n \in 1 .. Len(mainQ) : mainQ[n] # pubIdx
  BY <1>1, <1>2 DEF OnceInMain
<1>8. ASSUME NEW n \in 1 .. Len(mainQ'), NEW i \in Item, mainQ'[n] = i
      PROVE  i \in 1 .. (pubIdx' - 1) /\ ~ Touched(i)'
  <2>1. CASE n = Len(mainQ) + 1
    <3>1. i = pubIdx
      BY <2>1, <1>6, <1>8
    <3>2. ~ Touched(i)
      BY <3>1, <1>3
    <3> QED
      BY <3>1, <3>2, <1>2, <1>4
  <2>2. CASE n \in 1 .. Len(mainQ)
    <3>1. mainQ[n] = i
      BY <2>2, <1>6, <1>8
    <3>2. mainQ[n] \in 1 .. (pubIdx - 1) /\ ~ Touched(mainQ[n])
      BY <2>2, <1>1 DEF OnceInMain
    <3>3. i \in 1 .. (pubIdx - 1) /\ ~ Touched(i)
      BY <3>1, <3>2
    <3> QED
      BY <3>3, <1>2, <1>4
  <2> QED
    BY <2>1, <2>2, <1>2, <1>6
<1>9. \A m, n \in 1 .. Len(mainQ') : mainQ'[m] = mainQ'[n] => m = n
  BY <1>1, <1>2, <1>6, <1>7 DEF OnceInMain
<1>10. \A n \in 1 .. Len(mainQ') : mainQ'[n] \in Item
  BY <1>2, <1>6
<1> QED
  BY <1>5, <1>8, <1>9, <1>10 DEF OnceInMain

LEMMA DeliveryPop ==
  ASSUME TypeInv, DeliveryInv, NEW w \in Worker, LeasePop(w), UNCHANGED pubVars
  PROVE  DeliveryInv'
<1> SUFFICES ASSUME FirstRun PROVE OnceInMain' /\ OnceTaken'
  BY DEF DeliveryInv, FirstRun, pubVars
<1> DEFINE r == Rightmost
<1>1. OnceInMain /\ OnceTaken
  BY DEF DeliveryInv
<1>2. r \in Item
  BY RPopLPushEffect DEF LeasePop, TypeInv, QueueTypeOK
<1>3. /\ mainQ \in Seq(Item) /\ mainQ # <<>> /\ Len(mainQ) \in 1 .. Len(mainQ)
      /\ r = mainQ[Len(mainQ)]
      /\ procQ \in [Item -> Nat]
      /\ pc \in [Worker -> PC] /\ item \in [Worker -> Item \cup {NoItem}]
  BY DEF LeasePop, RPopLPush, MainEmpty, Rightmost, TypeInv, QueueTypeOK, StoreTypeOK, WorkerTypeOK
<1>4. /\ mainQ' = SubSeq(mainQ, 1, Len(mainQ) - 1)
      /\ procQ' = [procQ EXCEPT ![r] = @ + 1]
      /\ pc' = [pc EXCEPT ![w] = "lease_set"]
      /\ item' = [item EXCEPT ![w] = r]
      /\ pc[w] = "lease_pop"
      /\ UNCHANGED <<leases, life, worked, pubIdx>>
  BY DEF LeasePop, RPopLPush, Goto, pubVars
<1>5. r \in 1 .. (pubIdx - 1) /\ ~ Touched(r)
  <2>1. mainQ[Len(mainQ)] \in 1 .. (pubIdx - 1) /\ ~ Touched(mainQ[Len(mainQ)])
    BY <1>1, <1>3 DEF OnceInMain
  <2> HIDE DEF r
  <2> QED
    BY <2>1, <1>3
<1> HIDE DEF r
<1>6. procQ[r] = 0 /\ \A v \in Worker : ~ Handles(v, r)
  BY <1>2, <1>3, <1>5 DEF Touched
<1>7. \A v \in Worker, i \in Item :
        Handles(v, i)' <=> IF v = w THEN i = r ELSE Handles(v, i)
  BY <1>3, <1>4 DEF Handles
<1>8. \A i \in Item : procQ'[i] = IF i = r THEN 1 ELSE procQ[i]
  BY <1>2, <1>3, <1>4, <1>6
<1>9. \A i \in Item : i # r => (Touched(i)' => Touched(i))
  <2> SUFFICES ASSUME NEW i \in Item, i # r, Touched(i)' PROVE Touched(i)
    OBVIOUS
  <2>1. CASE procQ'[i] > 0
    BY <2>1, <1>8 DEF Touched
  <2>2. CASE \E v \in Worker : Handles(v, i)'
    BY <2>2, <1>7 DEF Touched
  <2>3. CASE i \in worked'
    BY <2>3, <1>4 DEF Touched
  <2> QED
    BY <2>1, <2>2, <2>3 DEF Touched
<1>10. OnceTaken'
  <2>1. ASSUME NEW i \in Item PROVE Touched(i)' => i \in 1 .. (pubIdx' - 1)
    BY <1>1, <1>4, <1>5, <1>9 DEF OnceTaken
  <2>2. ASSUME NEW i \in Item PROVE procQ'[i] <= 1
    BY <1>1, <1>8 DEF OnceTaken
  <2>3. ASSUME NEW i \in Item, NEW u \in Worker, NEW v \in Worker,
               Handles(u, i)', Handles(v, i)'
        PROVE  u = v
    BY <2>3, <1>1, <1>6, <1>7 DEF OnceTaken
  <2> QED
    BY <2>1, <2>2, <2>3 DEF OnceTaken
<1>11. OnceInMain'
  <2>1. /\ Len(mainQ') = Len(mainQ) - 1
        /\ \A n \in 1 .. Len(mainQ') : mainQ'[n] = mainQ[n] /\ n \in 1 .. Len(mainQ) /\ n # Len(mainQ)
    BY <1>3, RPopLPushEffect DEF LeasePop, TypeInv, QueueTypeOK
  <2>2. \A m, n \in 1 .. Len(mainQ') : mainQ'[m] = mainQ'[n] => m = n
    BY <2>1, <1>1 DEF OnceInMain
  <2>3. ASSUME NEW n \in 1 .. Len(mainQ'), NEW i \in Item, mainQ'[n] = i
        PROVE  i \in 1 .. (pubIdx' - 1) /\ ~ Touched(i)'
    <3>1. mainQ[n] = i /\ i # r
      BY <2>1, <2>3, <1>1, <1>3 DEF OnceInMain
    <3>2. mainQ[n] \in 1 .. (pubIdx - 1) /\ ~ Touched(mainQ[n])
      BY <2>1, <1>1 DEF OnceInMain
    <3>3. i \in 1 .. (pubIdx - 1) /\ ~ Touched(i)
      BY <3>1, <3>2
    <3> QED
      BY <3>1, <3>3, <1>4, <1>9
  <2>4. \A n \in 1 .. Len(mainQ') : mainQ'[n] \in Item
    BY <2>1, <1>3
  <2> QED
    BY <2>2, <2>3, <2>4 DEF OnceInMain
<1> QED
  BY <1>10, <1>11

(* When the first run of the publisher is over, it is over for good.       *)
LEMMA FirstRunBefore ==
  ASSUME TypeInv, DeliveryInv, [QueueNext]_queueVars, FirstRun' PROVE FirstRun
<1>1. pubRestarts \in Nat
  BY DEF TypeInv, QueueTypeOK, PubTypeOK
<1>2. CASE PublisherNext
  BY <1>1, <1>2, PublisherCases
  DEF Publish, PubExit, PubCrash, PubRestart, DeliveryInv, FirstRun
<1>3. CASE UNCHANGED <<pubPc, pubRestarts>>
  BY <1>3 DEF FirstRun
<1> QED
  BY <1>2, <1>3 DEF QueueNext, Surroundings, WorkerActs, WorkerFails, WorkerRestarts,
     LeaseExpires, ServerRestarts, pubVars, queueVars

LEMMA DeliveryStep == TypeInv /\ DeliveryInv /\ [QueueNext]_queueVars => DeliveryInv'
<1> SUFFICES ASSUME TypeInv, DeliveryInv, [QueueNext]_queueVars PROVE DeliveryInv'
  OBVIOUS
<1>0. /\ pc \in [Worker -> PC] /\ item \in [Worker -> Item \cup {NoItem}]
      /\ procQ \in [Item -> Nat] /\ HasItem
  BY DEF TypeInv, QueueTypeOK, StoreTypeOK, WorkerTypeOK
<1>1. CASE PublisherNext
  <2>1. CASE PubExit \/ PubCrash \/ PubRestart
    <3>1. /\ UNCHANGED <<mainQ, procQ, pc, item, worked>>
          /\ FirstRun' => FirstRun /\ pubIdx' = pubIdx
          /\ pubPc' = "down" => pubRestarts' > 0
      BY <1>1, <2>1, PublisherCases
      DEF Publish, PubExit, PubCrash, PubRestart, storeVars, workerVars, TypeInv, QueueTypeOK,
          PubTypeOK, DeliveryInv, FirstRun
    <3>2. FirstRun' => OnceInMain' /\ OnceTaken'
      BY <3>1 DEF DeliveryInv, OnceInMain, OnceTaken, Touched, Handles
    <3> QED
      BY <3>1, <3>2 DEF DeliveryInv
  <2> QED
    BY <1>1, <2>1, PublisherCases, DeliveryPublish
<1>2. ASSUME NEW w \in Worker, WorkerActs(w) PROVE DeliveryInv'
  <2>0. UNCHANGED <<pubPc, pubIdx, pubRestarts>>
    BY <1>2 DEF WorkerActs, pubVars
  <2>1. CASE Look(w) \/ LeaseTimeout(w) \/ LeaseSet(w) \/ CompleteDel(w)
    <3>1. UNCHANGED <<mainQ, procQ, worked>>
      BY <2>1 DEF Look, LeaseTimeout, LeaseSet, CompleteDel, SetEx, Del, storeVars
    <3>2. \A v \in Worker, i \in Item : Handles(v, i)' => Handles(v, i)
      BY <1>0, <2>1 DEF Look, LeaseTimeout, LeaseSet, CompleteDel, Goto, Handles
    <3> QED
      BY <2>0, <3>1, <3>2, DeliveryShrinks DEF Touched
  <2>2. CASE LeasePop(w)
    BY <2>2, <1>2, DeliveryPop DEF WorkerActs
  <2>3. CASE Work(w)
    <3>1. UNCHANGED <<mainQ, procQ>> /\ worked' = worked \cup {item[w]}
      BY <2>3 DEF Work, storeVars
    <3>2. \A v \in Worker, i \in Item : Handles(v, i)' <=> Handles(v, i)
      BY <1>0, <2>3 DEF Work, Goto, Handles
    <3>3. item[w] \in Item /\ Handles(w, item[w])
      BY <1>0, <2>3 DEF Work, Handles, HasItem
    <3>4. \A i \in Item : Touched(i)' => Touched(i)
      BY <3>1, <3>2, <3>3 DEF Touched
    <3> QED
      BY <2>0, <3>1, <3>2, <3>4, DeliveryShrinks
  <2>4. CASE CompleteRem(w)
    <3>1. UNCHANGED <<mainQ, worked>> /\ procQ' = [procQ EXCEPT ![item[w]] = 0]
      BY <2>4 DEF CompleteRem, LRemAll
    <3>2. \A v \in Worker, i \in Item : Handles(v, i)' <=> Handles(v, i)
      BY <1>0, <2>4 DEF CompleteRem, Goto, Handles
    <3>3. \A i \in Item : procQ'[i] \in {0, procQ[i]}
      BY <1>0, <3>1
    <3>4. \A i \in Item : Touched(i)' => Touched(i)
      BY <3>1, <3>2, <3>3 DEF Touched
    <3> QED
      BY <2>0, <3>1, <3>2, <3>3, <3>4, DeliveryShrinks
  <2> QED
    BY <1>2, <2>1, <2>2, <2>3, <2>4 DEF WorkerActs, LeasingStep
<1>3. ASSUME NEW w \in Worker, WorkerFails(w) \/ WorkerRestarts(w) PROVE DeliveryInv'
  <2>1. UNCHANGED <<mainQ, procQ, worked, pubPc, pubIdx, pubRestarts>>
    BY <1>3 DEF WorkerFails, WorkerRestarts, Crash, Restart, storeVars, pubVars
  <2>2. \A v \in Worker, i \in Item : Handles(v, i)' => Handles(v, i)
    BY <1>0, <1>3 DEF WorkerFails, WorkerRestarts, Crash, Restart, Goto, Handles
  <2> QED
    BY <2>1, <2>2, DeliveryShrinks DEF Touched
<1>4. ASSUME NEW k \in LeaseKey, LeaseExpires(k) PROVE DeliveryInv'
  BY <1>4, DeliveryShrinks DEF LeaseExpires, Expire, Del, pubVars, workerVars, Touched, Handles
<1>5. CASE ServerRestarts
  <2>1. /\ Len(mainQ') = 0 /\ procQ' = [i \in Item |-> 0]
        /\ UNCHANGED <<pc, item, worked, pubPc, pubIdx, pubRestarts>>
    BY <1>5 DEF ServerRestarts, Wipe, pubVars, workerVars
  <2>2. OnceInMain'
    BY <2>1 DEF OnceInMain
  <2>3. \A i \in Item : Touched(i)' => Touched(i)
    BY <2>1 DEF Touched, Handles
  <2>4. OnceTaken => OnceTaken'
    BY <2>1, <2>3 DEF OnceTaken, Handles
  <2> QED
    BY <2>1, <2>2, <2>4 DEF DeliveryInv, FirstRun
<1>6. CASE UNCHANGED queueVars
  BY <1>6, DeliveryShrinks DEF queueVars, storeVars, pubVars, workerVars, Touched, Handles
<1> QED
  BY <1>1, <1>2, <1>3, <1>4, <1>5, <1>6 DEF QueueNext, Surroundings

(* Whatever the workers do and however they die, no item is handed out     *)
(* twice while the publisher was not started again.                        *)
THEOREM DeliveredOnce == QueueSpec => []SingleDelivery
<1>1. TypeInv /\ DeliveryInv => SingleDelivery
  <2> SUFFICES ASSUME TypeInv, DeliveryInv, FirstRun, NEW i \in Item
               PROVE  /\ InMain(i) => procQ[i] = 0 /\ i \notin worked
                      /\ procQ[i] <= 1
                      /\ \A v, w \in Worker : Holds(v, i) /\ Holds(w, i) => v = w
    BY DEF SingleDelivery
  <2>1. procQ[i] \in Nat
    BY DEF TypeInv, QueueTypeOK, StoreTypeOK
  <2>2. ASSUME NEW n \in 1 .. Len(mainQ), mainQ[n] = i PROVE ~ Touched(i)
    <3>1. ~ Touched(mainQ[n])
      BY DEF DeliveryInv, OnceInMain
    <3> QED
      BY <2>2, <3>1
  <2>3. InMain(i) => procQ[i] = 0 /\ i \notin worked
    BY <2>1, <2>2 DEF InMain, Touched
  <2> QED
    BY <2>3 DEF DeliveryInv, OnceTaken, Handles, Holds
<1> QED
  BY <1>1, TypeInit, TypeStep, DeliveryInit, DeliveryStep, PTL DEF QueueSpec

-----------------------------------------------------------------------------
(* The queue implements TaskPool: Publish offers, LeasePop takes, Work     *)
(* finishes and CompleteRem reports; every other step leaves the pool as   *)
(* it was.  Work finishes a task that is in progress because of            *)
(* InProgressAccounted, CompleteRem reports a finished one because of      *)
(* WorkedBeforeRem.                                                        *)

LEMMA PoolInitially == QueueInit => Pool!PoolInit
BY DEF QueueInit, StoreInit, WorkerInit, Waiting, InProgress, InMain, Pool!PoolInit

LEMMA PoolFrame ==
  ASSUME UNCHANGED <<mainQ, procQ, worked, lost>>
  PROVE  UNCHANGED Pool!poolVars
BY DEF Pool!poolVars, Waiting, InProgress, InMain

LEMMA PublishOffers ==
  ASSUME TypeInv, Publish, UNCHANGED <<workerVars, serverVars>>
  PROVE  Pool!PoolNext
<1>1. /\ pubIdx \in Item /\ mainQ' = Append(mainQ, pubIdx)
      /\ UNCHANGED <<procQ, worked, lost>>
  BY Published, CountNat DEF Publish, RPush, TypeInv, QueueTypeOK, PubTypeOK, workerVars,
     serverVars
<1>2. Pool!Offer(pubIdx)
  BY <1>1, WaitingAfterPush DEF Pool!Offer, InProgress, TypeInv, QueueTypeOK
<1> QED
  BY <1>1, <1>2 DEF Pool!PoolNext

LEMMA PopTakes ==
  ASSUME TypeInv, NEW w \in Worker, LeasePop(w), UNCHANGED lost
  PROVE  Pool!PoolNext
<1>1. Pool!Take(Rightmost)
  BY WaitingAfterPop DEF LeasePop, Pool!Take, TypeInv, QueueTypeOK
<1>2. Rightmost \in Item
  BY RPopLPushEffect DEF LeasePop, TypeInv, QueueTypeOK
<1> QED
  BY <1>1, <1>2 DEF Pool!PoolNext

LEMMA PoolStep ==
  TypeInv /\ ProgressInv /\ [QueueNext]_queueVars => [Pool!PoolNext]_Pool!poolVars
<1> SUFFICES ASSUME TypeInv, ProgressInv, [QueueNext]_queueVars
             PROVE  Pool!PoolNext \/ UNCHANGED Pool!poolVars
  OBVIOUS
<1>0. procQ \in [Item -> Nat] /\ HasItem /\ ProgressInv
  BY DEF TypeInv, QueueTypeOK, StoreTypeOK
<1>1. CASE PublisherNext
  <2>1. CASE PubExit \/ PubCrash \/ PubRestart
    BY <1>1, <2>1, PublisherCases, PoolFrame
    DEF Publish, PubExit, PubCrash, PubRestart, storeVars, workerVars, serverVars
  <2> QED
    BY <1>1, <2>1, PublisherCases, PublishOffers
<1>2. ASSUME NEW w \in Worker, WorkerActs(w)
      PROVE  Pool!PoolNext \/ UNCHANGED Pool!poolVars
  <2>0. UNCHANGED lost
    BY <1>2 DEF WorkerActs, serverVars
  <2>1. CASE Look(w) \/ LeaseTimeout(w) \/ LeaseSet(w) \/ CompleteDel(w)
    BY <2>0, <2>1, PoolFrame DEF Look, LeaseTimeout, LeaseSet, CompleteDel, SetEx,
                           Del, storeVars
  <2>2. CASE LeasePop(w)
    BY <2>0, <2>2, PopTakes
  <2>3. CASE Work(w)
    <3>1. /\ item[w] \in Item /\ worked' = worked \cup {item[w]}
          /\ procQ[item[w]] > 0 \/ item[w] \in worked \cup lost
          /\ UNCHANGED <<mainQ, procQ>>
      BY <1>0, <2>3 DEF Work, HasItem, ProgressInv, InProgressAccounted, Holds, storeVars
    <3>2. CASE item[w] \in worked
      BY <2>0, <3>1, <3>2, PoolFrame
    <3>3. CASE procQ[item[w]] > 0 \/ item[w] \in lost
      <4>1. Pool!Finish(item[w])
        BY <2>0, <3>1, <3>3 DEF Pool!Finish, Waiting, InProgress, InMain
      <4> QED
        BY <3>1, <4>1 DEF Pool!PoolNext
    <3> QED
      BY <3>1, <3>2, <3>3
  <2>4. CASE CompleteRem(w)
    <3>1. /\ item[w] \in Item /\ item[w] \in worked
          /\ procQ' = [procQ EXCEPT ![item[w]] = 0]
          /\ UNCHANGED <<mainQ, worked>>
      BY <1>0, <2>4 DEF CompleteRem, LRemAll, HasItem, ProgressInv, WorkedBeforeRem
    <3>2. PICK t \in Item : t = item[w]
      BY <3>1
    <3>3. InProgress' = InProgress \ {t}
      BY <1>0, <3>1, <3>2 DEF InProgress
    <3>4. Pool!Report(t)
      BY <2>0, <3>1, <3>2, <3>3 DEF Pool!Report, Waiting, InMain
    <3> QED
      BY <3>4 DEF Pool!PoolNext
  <2> QED
    BY <1>2, <2>1, <2>2, <2>3, <2>4 DEF WorkerActs, LeasingStep
<1>3. ASSUME NEW w \in Worker, WorkerFails(w) \/ WorkerRestarts(w)
      PROVE  UNCHANGED Pool!poolVars
  BY <1>3, PoolFrame DEF WorkerFails, WorkerRestarts, Crash, Restart, storeVars, serverVars
<1>4. ASSUME NEW k \in LeaseKey, LeaseExpires(k) PROVE UNCHANGED Pool!poolVars
  BY <1>4, PoolFrame DEF LeaseExpires, Expire, Del, workerVars, serverVars
<1>5. CASE ServerRestarts
  <2>1. Waiting' = {} /\ InProgress' = {}
    BY <1>5 DEF ServerRestarts, Wipe, Waiting, InProgress, InMain
  <2>2. Pool!Lose
    BY <1>5, <2>1 DEF ServerRestarts, workerVars, Pool!Lose
  <2> QED
    BY <2>2 DEF Pool!PoolNext
<1>6. CASE UNCHANGED queueVars
  BY <1>6, PoolFrame DEF queueVars, storeVars, workerVars, serverVars
<1> QED
  BY <1>1, <1>2, <1>3, <1>4, <1>5, <1>6 DEF QueueNext, Surroundings

(* No item leaves the queue undone but in a restart of the server: every   *)
(* behaviour of the publisher, the workers and the server, failures        *)
(* included, is one of the task pool.                                      *)
THEOREM QueueIsPool == QueueSpec => ImplementsPool
BY TypeInit, TypeStep, ProgressInit, ProgressStep, PoolInitially, PoolStep, PTL
   DEF QueueSpec, ImplementsPool, Pool!PoolSpec

-----------------------------------------------------------------------------
(* What becomes of an item whose worker died.  It is stranded: in the      *)
(* processing list, in nobody's hands and not waiting.                     *)

Stranded(i) ==
  /\ procQ[i] > 0
  /\ i \in 1 .. (pubIdx - 1) /\ ~ InMain(i)
  /\ \A w \in Worker : ~ Holds(w, i)

(* While the publisher was not restarted, a worker that dies strands its   *)
(* item, unless it had finished the work or the server was restarted.      *)
DeathStrands ==
  [][\A w \in Worker :
       FirstRun /\ WorkerFails(w) =>
         \A i \in Item : Holds(w, i) => Stranded(i)' \/ i \in worked \cup lost]_queueVars

(* And a stranded item stays so, its lease expired or not: nobody gives it *)
(* back, only a publisher or a server that starts again changes that.      *)
StrandedStays ==
  [][pubIdx' >= pubIdx /\ wipes' = wipes =>
       \A i \in Item : Stranded(i) => Stranded(i)']_queueVars

LEMMA DeathStep ==
  ASSUME TypeInv, ProgressInv, DeliveryInv, NEW w \in Worker, WorkerFails(w), FirstRun,
         NEW i \in Item, Holds(w, i), i \notin worked \cup lost
  PROVE  Stranded(i)'
<1>1. procQ[i] > 0 /\ procQ[i] \in Nat
  BY DEF ProgressInv, InProgressAccounted, TypeInv, QueueTypeOK, StoreTypeOK
<1>2. Touched(i) /\ OnceInMain /\ OnceTaken
  BY <1>1 DEF Touched, DeliveryInv
<1>3. i \in 1 .. (pubIdx - 1)
  BY <1>2 DEF OnceTaken
<1>4. ~ InMain(i)
  <2> SUFFICES ASSUME NEW n \in 1 .. Len(mainQ), mainQ[n] = i PROVE FALSE
    BY DEF InMain
  <2>1. ~ Touched(mainQ[n])
    BY <1>2 DEF OnceInMain
  <2> QED
    BY <1>2, <2>1
<1>5. \A v \in Worker : v # w => ~ Holds(v, i)
  BY <1>2 DEF OnceTaken, Handles, Holds
<1>6. UNCHANGED <<mainQ, procQ, pubIdx, item>> /\ pc' = [pc EXCEPT ![w] = "down"]
  BY DEF WorkerFails, Crash, Goto, storeVars, pubVars
<1>7. \A v \in Worker : ~ Holds(v, i)'
  BY <1>5, <1>6 DEF Holds, TypeInv, QueueTypeOK, WorkerTypeOK
<1> QED
  BY <1>1, <1>3, <1>4, <1>6, <1>7 DEF Stranded, InMain

LEMMA StrandedFrame ==
  ASSUME NEW i, Stranded(i), UNCHANGED <<mainQ, procQ, pubIdx>>,
         \A w \in Worker : Holds(w, i)' => Holds(w, i)
  PROVE  Stranded(i)'
BY DEF Stranded, InMain

LEMMA StrandedStep ==
  ASSUME TypeInv, [QueueNext]_queueVars, pubIdx' >= pubIdx, wipes' = wipes,
         NEW i \in Item, Stranded(i)
  PROVE  Stranded(i)'
<1>0. /\ pc \in [Worker -> PC] /\ item \in [Worker -> Item \cup {NoItem}]
      /\ procQ \in [Item -> Nat] /\ HasItem /\ pubIdx \in 1 .. Count /\ Count \in Nat
      /\ wipes \in Nat
  BY CountNat DEF TypeInv, QueueTypeOK, StoreTypeOK, WorkerTypeOK, PubTypeOK, ServerTypeOK
<1>1. CASE PublisherNext
  <2>1. UNCHANGED workerVars
    BY <1>1, PublisherCases
  <2>2. CASE Publish
    <3>1. /\ pubIdx \in Item /\ mainQ' = Append(mainQ, pubIdx) /\ pubIdx' = pubIdx + 1
          /\ UNCHANGED procQ
      BY <2>2, Published, CountNat DEF Publish, RPush, TypeInv, QueueTypeOK, PubTypeOK
    <3>2. Waiting' = Waiting \cup {pubIdx}
      BY <3>1, WaitingAfterPush DEF TypeInv, QueueTypeOK
    <3>3. i # pubIdx /\ i \in 1 .. (pubIdx' - 1)
      BY <1>0, <3>1 DEF Stranded
    <3>4. ~ InMain(i)'
      BY <3>2, <3>3 DEF Waiting, Stranded
    <3> QED
      BY <2>1, <3>1, <3>3, <3>4 DEF Stranded, Holds, workerVars
  <2>3. CASE PubExit \/ PubCrash
    BY <2>1, <2>3, StrandedFrame DEF PubExit, PubCrash, storeVars, Holds, workerVars
  <2>4. CASE PubRestart
    <3>1. pubIdx = 1
      BY <1>0, <2>4 DEF PubRestart
    <3> QED
      BY <3>1 DEF Stranded
  <2> QED
    BY <1>1, <2>2, <2>3, <2>4, PublisherCases
<1>2. ASSUME NEW w \in Worker, WorkerActs(w) PROVE Stranded(i)'
  <2>0. UNCHANGED pubIdx
    BY <1>2 DEF WorkerActs, pubVars
  <2>1. CASE Look(w) \/ LeaseTimeout(w) \/ LeaseSet(w) \/ Work(w) \/ CompleteDel(w)
    <3>1. UNCHANGED <<mainQ, procQ>>
      BY <2>1 DEF Look, LeaseTimeout, LeaseSet, Work, CompleteDel, SetEx, Del, storeVars
    <3>2. \A v \in Worker : Holds(v, i)' => Holds(v, i)
      BY <1>0, <2>1 DEF Look, LeaseTimeout, LeaseSet, Work, CompleteDel, Goto, Holds
    <3> QED
      BY <2>0, <3>1, <3>2, StrandedFrame
  <2>2. CASE LeasePop(w)
    <3>1. /\ RPopLPush
          /\ pc' = [pc EXCEPT ![w] = "lease_set"]
          /\ item' = [item EXCEPT ![w] = Rightmost]
      BY <2>2 DEF LeasePop, Goto
    <3>2. /\ Rightmost \in Waiting /\ Waiting' \subseteq Waiting
          /\ Rightmost \in Item
          /\ \A j \in Item : procQ'[j] = IF j = Rightmost THEN procQ[j] + 1 ELSE procQ[j]
      BY <3>1, WaitingAfterPop, RPopLPushEffect DEF TypeInv, QueueTypeOK
    <3>3. i # Rightmost /\ ~ InMain(i)'
      BY <3>2 DEF Waiting, Stranded
    <3>4. \A v \in Worker : ~ Holds(v, i)'
      BY <1>0, <3>1, <3>3 DEF Holds, Stranded
    <3> QED
      BY <2>0, <3>2, <3>3, <3>4 DEF Stranded
  <2>3. CASE CompleteRem(w)
    <3>1. /\ procQ' = [procQ EXCEPT ![item[w]] = 0] /\ Holds(w, item[w])
          /\ pc' = [pc EXCEPT ![w] = "complete_del"]
          /\ UNCHANGED <<mainQ, item>>
      BY <2>3 DEF CompleteRem, LRemAll, Goto, Holds
    <3>2. procQ'[i] = procQ[i]
      BY <1>0, <3>1 DEF Stranded
    <3>3. \A v \in Worker : Holds(v, i)' => Holds(v, i)
      BY <1>0, <3>1 DEF Holds
    <3> QED
      BY <2>0, <3>1, <3>2, <3>3 DEF Stranded, InMain
  <2> QED
    BY <1>2, <2>1, <2>2, <2>3 DEF WorkerActs, LeasingStep
<1>3. ASSUME NEW w \in Worker, WorkerFails(w) \/ WorkerRestarts(w) PROVE Stranded(i)'
  <2>1. UNCHANGED <<mainQ, procQ, pubIdx>>
    BY <1>3 DEF WorkerFails, WorkerRestarts, Crash, Restart, storeVars, pubVars
  <2>2. \A v \in Worker : Holds(v, i)' => Holds(v, i)
    BY <1>0, <1>3 DEF WorkerFails, WorkerRestarts, Crash, Restart, Goto, Holds
  <2> QED
    BY <2>1, <2>2, StrandedFrame
<1>4. ASSUME NEW k \in LeaseKey, LeaseExpires(k) PROVE Stranded(i)'
  BY <1>4, StrandedFrame DEF LeaseExpires, Expire, Del, pubVars, workerVars, Holds
<1>5. ~ ServerRestarts
  BY <1>0 DEF ServerRestarts
<1>6. CASE UNCHANGED queueVars
  BY <1>6, StrandedFrame DEF queueVars, storeVars, pubVars, workerVars, Holds
<1> QED
  BY <1>1, <1>2, <1>3, <1>4, <1>5, <1>6 DEF QueueNext, Surroundings

(* A worker that dies with an unfinished item strands it, in every leasing *)
(* queue.                                                                  *)
THEOREM DeathStrandsCorrect == QueueSpec => DeathStrands
<1>1. TypeInv /\ ProgressInv /\ DeliveryInv =>
        \A w \in Worker :
          FirstRun /\ WorkerFails(w) =>
            \A i \in Item : Holds(w, i) => Stranded(i)' \/ i \in worked \cup lost
  BY DeathStep
<1> QED
  BY <1>1, TypeInit, TypeStep, ProgressInit, ProgressStep, DeliveryInit, DeliveryStep, PTL
     DEF QueueSpec, DeathStrands

(* A stranded item stays where it is for good, in every leasing queue.     *)
THEOREM StrandedForGood == QueueSpec => StrandedStays
<1>1. TypeInv /\ [QueueNext]_queueVars =>
        (pubIdx' >= pubIdx /\ wipes' = wipes =>
           \A i \in Item : Stranded(i) => Stranded(i)')
  BY StrandedStep
<1> QED
  BY <1>1, TypeInit, TypeStep, PTL DEF QueueSpec, StrandedStays

=============================================================================
