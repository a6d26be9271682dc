------------------------- MODULE PyWorkQueue_proofs -------------------------
(***************************************************************************)
(* The Python worker in its two surroundings: gpu_workload_v2              *)
(* (PyWorkQueue), where everything that fails is started again, and the    *)
(* containers of the testbed (ComposeQueue), where nothing is.  Each is a  *)
(* queue in the sense of WorkQueue, so what WorkQueue_proofs shows holds   *)
(* of it; what depends on empty() and on the digest is proved here.        *)
(***************************************************************************)
EXTENDS PyWorkQueue, ComposeQueue, WorkQueue_proofs

(* Both readings of empty() are a look, lease() and complete() are the     *)
(* steps of every leasing worker.                                          *)
LEMMA WorkerStepIsQueueStep ==
  ASSUME NEW w \in Worker, WorkerStep(w)
  PROVE  Look(w) \/ LeasingStep(w)
<1>1. CheckMain(w) \/ CheckProc(w) => Look(w)
  BY DEF CheckMain, CheckProc, Look, Goto
<1> QED
  BY <1>1 DEF WorkerStep, Lease, Complete, LeasingStep

LEMMA StepIsQueueStep == [Next]_vars => [QueueNext]_queueVars
<1> SUFFICES ASSUME Next PROVE [QueueNext]_queueVars
  BY DEF vars
<1>1. ASSUME NEW w \in Worker, WorkerRun(w) PROVE WorkerActs(w)
  BY <1>1, WorkerStepIsQueueStep DEF WorkerRun, WorkerActs
<1> QED
  BY <1>1 DEF Next, Terminated, QueueNext, vars

(* Every behaviour of the application is one of the queue. *)
THEOREM PyIsQueue == Spec => QueueSpec
<1>1. Init => QueueInit
  BY DEF Init
<1> QED
  BY <1>1, StepIsQueueStep, PTL DEF Spec, QueueSpec

LooksOK == sawDone \in [Worker -> BOOLEAN] /\ sawIdx \in [Worker -> 1 .. Count]

(* What a worker's own step does to its two readings. *)
LEMMA Remembered ==
  ASSUME LooksOK, NEW w \in Worker, WorkerRun(w)
  PROVE  /\ \A v \in Worker :
              sawDone'[v] => sawDone[v] \/ (v = w /\ pc[w] = "check_main" /\ PubDone)
         /\ \A v \in Worker : v # w => sawIdx'[v] = sawIdx[v]
         /\ pc[w] = "check_main" => sawIdx'[w] \in {1, pubIdx}
         /\ pc[w] # "check_main" => sawIdx'[w] \in {1, sawIdx[w]}
BY DEF LooksOK, WorkerRun, Remember

LEMMA LooksStep == TypeInv /\ LooksOK /\ [Next]_vars => LooksOK'
<1> SUFFICES ASSUME TypeInv, LooksOK, [Next]_vars PROVE LooksOK'
  OBVIOUS
<1>0. pubIdx \in 1 .. Count /\ 1 \in 1 .. Count
  BY CountNat DEF TypeInv, QueueTypeOK, PubTypeOK
<1>1. ASSUME NEW w \in Worker, WorkerRun(w) PROVE LooksOK'
  <2>1. sawDone' \in [Worker -> BOOLEAN]
    BY <1>1 DEF LooksOK, WorkerRun, Remember, PubDone
  <2>2. PICK n \in 1 .. Count : sawIdx' = [sawIdx EXCEPT ![w] = n]
    BY <1>0, <1>1 DEF LooksOK, WorkerRun, Remember
  <2> QED
    BY <2>1, <2>2 DEF LooksOK
<1> QED
  BY <1>1 DEF LooksOK, Next, Terminated, vars, looks

(* Type correctness. *)
THEOREM PyTypeCorrect == Spec => []TypeOK
<1>1. Init => TypeInv /\ LooksOK
  BY TypeInit, CountNat DEF Init, LooksOK
<1>2. QueueTypeOK /\ LooksOK => TypeOK
  BY DEF TypeOK, LooksOK
<1> QED
  BY <1>1, <1>2, LooksStep, TypeStep, StepIsQueueStep, PyIsQueue, TypeCorrect, PTL DEF Spec

(* What the server counts as in progress and what the workers hold agree,  *)
(* whatever dies and whenever.                                             *)
THEOREM PyProgressCorrect == Spec => []InProgressAccounted
BY PyIsQueue, ProgressCorrect, PTL

(* A lease in the store that bears the session of a running worker is one  *)
(* for the item it works on.                                               *)
THEOREM PyLeasesCorrect == Spec => []LeasesNameHolders
BY PyIsQueue, LeasesCorrect, PTL

(* No item is handed out twice while the publisher was not started again.  *)
THEOREM PyDeliveredOnce == Spec => []SingleDelivery
BY PyIsQueue, DeliveredOnce, PTL

(* No item leaves the queue undone. *)
THEOREM PyIsPool == Spec => ImplementsPool
BY PyIsQueue, QueueIsPool, PTL

-----------------------------------------------------------------------------
(* Leaving the loop.  What v's two readings of empty() found stays true    *)
(* once nobody pushes any more: an item enters the processing list only    *)
(* from the main list.                                                     *)

FoundEmpty(v) ==
  /\ pc[v] \in {"check_proc", "exited"} => MainEmpty
  /\ pc[v] = "exited" => ProcEmpty

LEMMA FoundFrame ==
  ASSUME NEW v, FoundEmpty(v), UNCHANGED <<mainQ, procQ>>,
         pc'[v] \in {"check_proc", "exited"} => pc'[v] = pc[v]
  PROVE  FoundEmpty(v)'
BY DEF FoundEmpty, MainEmpty, ProcEmpty

(* Whichever worker takes a step, and whatever it found if it is v's own.  *)
LEMMA FoundStep ==
  ASSUME TypeInv, NEW v \in Worker, NEW w \in Worker, WorkerStep(w),
         FoundEmpty(v) \/ (v = w /\ pc[w] = "check_main")
  PROVE  FoundEmpty(v)'
<1>0. /\ pc \in [Worker -> PC] /\ procQ \in [Item -> Nat]
  BY DEF TypeInv, QueueTypeOK, StoreTypeOK, WorkerTypeOK
<1>1. CASE CheckMain(w)
  <2>1. /\ pc' = [pc EXCEPT ![w] = IF MainEmpty THEN "check_proc" ELSE "lease_pop"]
        /\ UNCHANGED <<mainQ, procQ>>
    BY <1>1 DEF CheckMain, Goto, storeVars
  <2> QED
    BY <1>0, <2>1 DEF FoundEmpty, MainEmpty, ProcEmpty
<1>2. CASE CheckProc(w)
  <2>1. /\ pc[w] = "check_proc"
        /\ pc' = [pc EXCEPT ![w] = IF ProcEmpty THEN "exited" ELSE "lease_pop"]
        /\ UNCHANGED <<mainQ, procQ>>
    BY <1>2 DEF CheckProc, Goto, storeVars
  <2> QED
    BY <1>0, <2>1 DEF FoundEmpty, MainEmpty, ProcEmpty
<1>3. CASE LeasePop(w)
  <2>1. ~ MainEmpty /\ pc[w] = "lease_pop" /\ pc' = [pc EXCEPT ![w] = "lease_set"]
    BY <1>3 DEF LeasePop, RPopLPush, Goto
  <2> QED
    BY <1>0, <2>1 DEF FoundEmpty
<1>4. CASE LeaseTimeout(w) \/ LeaseSet(w) \/ Work(w) \/ CompleteDel(w)
  <2>1. UNCHANGED <<mainQ, procQ>> /\ pc[w] # "check_main"
    BY <1>4 DEF LeaseTimeout, LeaseSet, Work, CompleteDel, SetEx, Del, storeVars
  <2>2. pc'[v] \in {"check_proc", "exited"} => pc'[v] = pc[v]
    BY <1>0, <1>4 DEF LeaseTimeout, LeaseSet, Work, CompleteDel, Goto
  <2> QED
    BY <2>1, <2>2, FoundFrame
<1>5. CASE CompleteRem(w)
  <2>1. /\ pc[w] = "complete_rem" /\ pc' = [pc EXCEPT ![w] = "complete_del"]
        /\ procQ' = [procQ EXCEPT ![item[w]] = 0]
        /\ UNCHANGED mainQ
    BY <1>5 DEF CompleteRem, LRemAll, Goto
  <2>2. ProcEmpty => ProcEmpty'
    BY <1>0, <2>1 DEF ProcEmpty
  <2> QED
    BY <1>0, <2>1, <2>2 DEF FoundEmpty, MainEmpty
<1> QED
  BY <1>1, <1>2, <1>3, <1>4, <1>5 DEF WorkerStep, Lease, Complete

(* Nor does a failure, an expired lease or a server that starts again put  *)
(* anything into the lists.                                                *)
LEMMA FoundFailures ==
  ASSUME TypeInv, NEW v \in Worker, FoundEmpty(v),
         \/ \E w \in Worker : WorkerFails(w) \/ WorkerRestarts(w)
         \/ \E k \in LeaseKey : LeaseExpires(k)
         \/ ServerRestarts
  PROVE  FoundEmpty(v)'
<1>0. pc \in [Worker -> PC]
  BY DEF TypeInv, QueueTypeOK, WorkerTypeOK
<1>1. ASSUME NEW w \in Worker, WorkerFails(w) \/ WorkerRestarts(w) PROVE FoundEmpty(v)'
  <2>1. UNCHANGED <<mainQ, procQ>>
    BY <1>1 DEF WorkerFails, WorkerRestarts, Crash, Restart, storeVars
  <2>2. pc'[v] \in {"check_proc", "exited"} => pc'[v] = pc[v]
    BY <1>0, <1>1 DEF WorkerFails, WorkerRestarts, Crash, Restart, Goto
  <2> QED
    BY <2>1, <2>2, FoundFrame
<1>2. ASSUME NEW k \in LeaseKey, LeaseExpires(k) PROVE FoundEmpty(v)'
  BY <1>2, FoundFrame DEF LeaseExpires, Expire, Del, workerVars
<1>3. CASE ServerRestarts
  <2>1. mainQ' = <<>> /\ procQ' = [i \in Item |-> 0] /\ UNCHANGED pc
    BY <1>3 DEF ServerRestarts, Wipe, workerVars
  <2> QED
    BY <2>1 DEF FoundEmpty, MainEmpty, ProcEmpty
<1> QED
  BY <1>1, <1>2, <1>3

ReadingsHold == \A w \in Worker : sawDone[w] => PubDone /\ FoundEmpty(w)

LEMMA ExitInit == Init => ReadingsHold
BY DEF Init, ReadingsHold

LEMMA ExitStep == TypeInv /\ LooksOK /\ ReadingsHold /\ [Next]_vars => ReadingsHold'
<1> SUFFICES ASSUME TypeInv, LooksOK, ReadingsHold, [Next]_vars,
                    NEW v \in Worker, sawDone'[v]
             PROVE  PubDone' /\ FoundEmpty(v)'
  BY DEF ReadingsHold
<1>1. CASE PublisherNext /\ UNCHANGED looks
  <2>1. ~ PubDone
    BY <1>1, PublisherCases DEF Publish, PubExit, PubCrash, PubRestart, PubDone
  <2> QED
    BY <1>1, <2>1 DEF ReadingsHold, looks
<1>2. ASSUME NEW w \in Worker, WorkerRun(w) PROVE PubDone' /\ FoundEmpty(v)'
  <2>1. WorkerStep(w) /\ UNCHANGED pubPc
    BY <1>2 DEF WorkerRun, pubVars
  <2>2. PubDone /\ (FoundEmpty(v) \/ (v = w /\ pc[w] = "check_main"))
    BY <1>2, Remembered DEF ReadingsHold
  <2> QED
    BY <2>1, <2>2, FoundStep DEF PubDone
<1>3. CASE /\ \/ \E w \in Worker : WorkerFails(w) \/ WorkerRestarts(w)
              \/ \E k \in LeaseKey : LeaseExpires(k)
              \/ ServerRestarts
           /\ UNCHANGED looks
  <2>1. UNCHANGED <<pubPc, sawDone>>
    BY <1>3 DEF WorkerFails, WorkerRestarts, LeaseExpires, ServerRestarts, pubVars, looks
  <2> QED
    BY <1>3, <2>1, FoundFailures DEF ReadingsHold, PubDone
<1>4. CASE UNCHANGED vars
  BY <1>4, FoundFrame
  DEF ReadingsHold, PubDone, vars, looks, queueVars, storeVars, pubVars, workerVars
<1> QED
  BY <1>1, <1>2, <1>3, <1>4 DEF Next, Surroundings, Terminated

(* A worker whose last check began after the publisher was done leaves two *)
(* empty lists behind.                                                     *)
THEOREM ExitCorrect == Spec => []CleanExit
<1>1. ReadingsHold => CleanExit
  BY DEF ReadingsHold, FoundEmpty, CleanExit
<1>2. Init => TypeInv /\ LooksOK
  BY TypeInit, CountNat DEF Init, LooksOK
<1> QED
  BY <1>1, <1>2, TypeStep, StepIsQueueStep, LooksStep, ExitInit, ExitStep, PTL DEF Spec

(* Early or late, what was pushed before a worker's look is not waiting    *)
(* any more when it goes to look at the processing list, and not in        *)
(* progress either when it leaves.                                         *)
SeenInv ==
  \A w \in Worker :
    /\ pc[w] = "check_proc" => 1 .. (sawIdx[w] - 1) \subseteq InProgress \cup worked \cup lost
    /\ pc[w] = "exited" => 1 .. (sawIdx[w] - 1) \subseteq worked \cup lost

LEMMA SeenInit == Init => SeenInv
BY DEF Init, QueueInit, WorkerInit, SeenInv

(* An item leaves the processing list only when the work on it is done, or *)
(* with the server.                                                        *)
LEMMA LeavesDone ==
  ASSUME TypeInv, ProgressInv, [Next]_vars
  PROVE  /\ InProgress \cup worked \cup lost \subseteq InProgress' \cup worked' \cup lost'
         /\ worked \cup lost \subseteq worked' \cup lost'
<1>0. procQ \in [Item -> Nat]
  BY DEF TypeInv, QueueTypeOK, StoreTypeOK
(* The frame *)
<1>1. ASSUME worked \subseteq worked', lost \subseteq lost',
             InProgress \subseteq InProgress' \cup worked' \cup lost'
      PROVE  /\ InProgress \cup worked \cup lost \subseteq InProgress' \cup worked' \cup lost'
             /\ worked \cup lost \subseteq worked' \cup lost'
  BY <1>1
<1>2. ASSUME NEW w \in Worker, CompleteRem(w), UNCHANGED lost
      PROVE  /\ worked' = worked
             /\ InProgress \subseteq InProgress' \cup worked' \cup lost'
  BY <1>0, <1>2
  DEF CompleteRem, LRemAll, InProgress, HasItem, TypeInv, ProgressInv, WorkedBeforeRem
<1>3. ASSUME NEW w \in Worker, LeasePop(w), UNCHANGED lost
      PROVE  worked' = worked /\ InProgress \subseteq InProgress'
  BY <1>0, <1>3 DEF LeasePop, RPopLPush, InProgress
<1>4. ASSUME NEW w \in Worker, WorkerRun(w), ~ CompleteRem(w), ~ LeasePop(w)
      PROVE  worked \subseteq worked' /\ procQ' = procQ
  BY <1>4
  DEF WorkerRun, WorkerStep, Lease, Complete, CheckMain, CheckProc, LeaseTimeout, LeaseSet,
      Work, CompleteDel, SetEx, Del, storeVars
<1>5. ASSUME Surroundings, ~ ServerRestarts
      PROVE  UNCHANGED <<worked, lost, procQ>>
  BY <1>5, PublisherCases
  DEF Surroundings, Publish, PubExit, PubCrash, PubRestart, RPush, WorkerFails, Crash,
      WorkerRestarts, Restart, LeaseExpires, Expire, Del, storeVars, workerVars, serverVars
<1>6. CASE ServerRestarts
  <2>1. worked' = worked /\ lost \subseteq lost' /\ InProgress \subseteq lost'
    BY <1>6 DEF ServerRestarts, workerVars
  <2> QED
    BY <1>1, <2>1
<1>7. CASE Surroundings /\ ~ ServerRestarts
  BY <1>1, <1>5, <1>7 DEF InProgress
<1>8. ASSUME NEW w \in Worker, WorkerRun(w)
      PROVE  /\ worked \subseteq worked' /\ lost' = lost
             /\ InProgress \subseteq InProgress' \cup worked' \cup lost'
  <2>1. UNCHANGED lost
    BY <1>8 DEF WorkerRun, serverVars
  <2> QED
    BY <1>2, <1>3, <1>4, <1>8, <2>1 DEF InProgress
<1>9. CASE UNCHANGED vars
  BY <1>1, <1>9 DEF vars, queueVars, storeVars, workerVars, serverVars, InProgress
<1> QED
  BY <1>1, <1>6, <1>7, <1>8, <1>9 DEF Next, Terminated

LEMMA SeenStep ==
  TypeInv /\ LooksOK /\ ProgressInv /\ NothingVanishes /\ SeenInv /\ [Next]_vars => SeenInv'
<1> SUFFICES ASSUME TypeInv, LooksOK, ProgressInv, NothingVanishes, SeenInv, [Next]_vars,
                    NEW v \in Worker
             PROVE  /\ pc'[v] = "check_proc" =>
                          1 .. (sawIdx'[v] - 1) \subseteq InProgress' \cup worked' \cup lost'
                    /\ pc'[v] = "exited" => 1 .. (sawIdx'[v] - 1) \subseteq worked' \cup lost'
  BY DEF SeenInv
<1>0. pc \in [Worker -> PC] /\ pubIdx \in 1 .. Count /\ sawIdx \in [Worker -> 1 .. Count]
  BY DEF TypeInv, QueueTypeOK, WorkerTypeOK, PubTypeOK, LooksOK
(* A worker that stays where it is keeps what it has seen. *)
<1>1. ASSUME pc'[v] \in {"check_proc", "exited"} => pc'[v] = pc[v] /\ sawIdx'[v] = sawIdx[v]
      PROVE  /\ pc'[v] = "check_proc" =>
                   1 .. (sawIdx'[v] - 1) \subseteq InProgress' \cup worked' \cup lost'
             /\ pc'[v] = "exited" => 1 .. (sawIdx'[v] - 1) \subseteq worked' \cup lost'
  BY <1>1, LeavesDone DEF SeenInv
<1>2. CASE WorkerRun(v)
  <2>1. CASE CheckMain(v)
    <3>1. /\ pc[v] = "check_main" /\ UNCHANGED <<procQ, worked, lost>>
          /\ pc'[v] = IF MainEmpty THEN "check_proc" ELSE "lease_pop"
      BY <1>0, <1>2, <2>1 DEF CheckMain, Goto, WorkerRun, storeVars, serverVars
    <3>2. sawIdx'[v] \in {1, pubIdx}
      BY <1>2, <3>1, Remembered
    <3>3. MainEmpty => 1 .. (pubIdx - 1) \subseteq InProgress \cup worked \cup lost
      BY DEF MainEmpty, NothingVanishes, Waiting, InMain
    <3> QED
      BY <1>0, <3>1, <3>2, <3>3 DEF InProgress
  <2>2. CASE CheckProc(v)
    <3>1. /\ pc[v] = "check_proc" /\ UNCHANGED <<procQ, worked, lost>>
          /\ pc'[v] = IF ProcEmpty THEN "exited" ELSE "lease_pop"
      BY <1>0, <1>2, <2>2 DEF CheckProc, Goto, WorkerRun, storeVars, serverVars
    <3>2. sawIdx'[v] \in {1, sawIdx[v]}
      BY <1>2, <3>1, Remembered
    <3>3. ProcEmpty => InProgress = {}
      BY DEF ProcEmpty, InProgress
    <3> QED
      BY <1>0, <3>1, <3>2, <3>3 DEF SeenInv
  <2>3. CASE LeasingStep(v)
    <3>1. pc'[v] \notin {"check_proc", "exited"}
      BY <1>0, <2>3
      DEF LeasingStep, LeasePop, LeaseTimeout, LeaseSet, Work, CompleteRem, CompleteDel, Goto
    <3> QED
      BY <3>1
  <2> QED
    BY <1>2, <2>1, <2>2, <2>3 DEF WorkerRun, WorkerStep, Lease, Complete, LeasingStep
<1>3. ASSUME NEW w \in Worker, w # v, WorkerRun(w)
      PROVE  pc'[v] = pc[v] /\ sawIdx'[v] = sawIdx[v]
  <2>1. sawIdx'[v] = sawIdx[v]
    BY <1>3, Remembered
  <2>2. \E label : pc' = [pc EXCEPT ![w] = label]
    BY <1>3
    DEF WorkerRun, WorkerStep, CheckMain, CheckProc, Lease, LeasePop, LeaseTimeout, LeaseSet,
        Work, Complete, CompleteRem, CompleteDel, Goto
  <2> QED
    BY <1>0, <1>3, <2>1, <2>2
<1>4. ASSUME Surroundings, UNCHANGED looks
      PROVE  pc'[v] \in {"check_proc", "exited"} => pc'[v] = pc[v] /\ sawIdx'[v] = sawIdx[v]
  <2>1. CASE \E w \in Worker : WorkerFails(w) \/ WorkerRestarts(w)
    BY <1>0, <1>4, <2>1 DEF WorkerFails, WorkerRestarts, Crash, Restart, Goto, looks
  <2>2. CASE PublisherNext \/ ServerRestarts \/ \E k \in LeaseKey : LeaseExpires(k)
    BY <1>4, <2>2, PublisherCases DEF ServerRestarts, LeaseExpires, workerVars, looks
  <2> QED
    BY <1>4, <2>1, <2>2 DEF Surroundings
<1>5. CASE UNCHANGED vars
  BY <1>1, <1>5 DEF vars, looks, queueVars, workerVars
<1> QED
  BY <1>1, <1>2, <1>3, <1>4, <1>5 DEF Next, Terminated

LEMMA SeenHolds == Spec => [](SeenInv /\ NothingVanishes)
<1>1. Init => TypeInv /\ LooksOK /\ ProgressInv
  BY TypeInit, ProgressInit, CountNat DEF Init, LooksOK
<1> QED
  BY <1>1, TypeStep, LooksStep, ProgressStep, StepIsQueueStep, PyIsQueue,
     NothingVanishesCorrect, SeenInit, SeenStep, PTL DEF Spec

(* A worker that leaves, however early, leaves undone only what was pushed *)
(* after its last look, for any number of workers, items and failures.     *)
THEOREM SeenIsDoneCorrect == Spec => []SeenIsDone
<1>1. SeenInv => SeenIsDone
  BY DEF SeenInv, SeenIsDone
<1> QED
  BY <1>1, SeenHolds, PTL

(* So a worker that looks after the publisher is done, and leaves, leaves  *)
(* nothing to do: every item was worked on, or lost with the server.       *)
WorkIsDone ==
  \A w \in Worker :
    pc[w] = "exited" /\ sawDone[w] => 1 .. (Count - 1) \subseteq worked \cup lost

THEOREM WorkIsDoneCorrect == Spec => []WorkIsDone
<1>1. VanishInv /\ CleanExit /\ ReadingsHold => WorkIsDone
  <2> SUFFICES ASSUME VanishInv, CleanExit, ReadingsHold,
                      NEW w \in Worker, pc[w] = "exited", sawDone[w]
               PROVE  1 .. (Count - 1) \subseteq worked \cup lost
    BY DEF WorkIsDone
  <2>1. PubDone /\ MainEmpty /\ ProcEmpty
    BY DEF CleanExit, ReadingsHold
  <2>2. Waiting = {} /\ InProgress = {}
    BY <2>1 DEF Waiting, InProgress, InMain, MainEmpty, ProcEmpty
  <2> QED
    BY <2>1, <2>2 DEF VanishInv, NothingVanishes
<1>2. Init => TypeInv /\ VanishInv /\ ProgressInv /\ ReadingsHold
  BY TypeInit, VanishInit, ProgressInit, ExitInit DEF Init
<1>3. Init => LooksOK
  BY CountNat DEF Init, LooksOK
<1> QED
  BY <1>2, <1>1, <1>3, TypeStep, VanishStep, ProgressStep, StepIsQueueStep, LooksStep,
     ExitStep, ExitCorrect, PTL DEF Spec

(* No item that was pushed vanishes while the server stays up. *)
THEOREM PyNothingVanishes == Spec => []NothingVanishes
BY PyIsQueue, NothingVanishesCorrect, PTL

-----------------------------------------------------------------------------
(* Whose lease complete() deletes.  The digest tells items apart, so a     *)
(* lease is about one item; and an item that is handed out once has one    *)
(* worker at most that may ever have written its lease.                    *)

OwnerInv ==
  FirstRun =>
    \A i \in Item :
      /\ leases[ItemKey(i)] # NoLease => i \in 1 .. (pubIdx - 1) /\ ~ InMain(i)
      /\ \A w \in Worker : Handles(w, i) => leases[ItemKey(i)] \in {Session(w), NoLease}

LEMMA OwnerInit == Init => OwnerInv
<1> SUFFICES ASSUME Init, NEW i \in Item
             PROVE  leases[ItemKey(i)] = NoLease /\ \A w \in Worker : ~ Handles(w, i)
  BY DEF OwnerInv
<1>1. leases[ItemKey(i)] = NoLease
  BY WorkerAssumption DEF Init, QueueInit, StoreInit, ItemKey
<1>2. \A w \in Worker : ~ Handles(w, i)
  BY DEF Init, QueueInit, WorkerInit, Handles
<1> QED
  BY <1>1, <1>2

(* Every step but Publish, LeasePop and LeaseSet only takes away. *)
LEMMA OwnerShrinks ==
  ASSUME FirstRun, OwnerInv, UNCHANGED <<mainQ, pubIdx>>,
         \A i \in Item : leases'[KeyOf[i]] \in {leases[KeyOf[i]], NoLease},
         \A i \in Item, w \in Worker : Handles(w, i)' => Handles(w, i) /\ life'[w] = life[w]
  PROVE  OwnerInv'
BY DEF OwnerInv, ItemKey, InMain, Session

(* The main list after RPUSH and after RPOPLPUSH. *)
LEMMA MainAfterPush ==
  ASSUME TypeInv, NEW i \in Item, NEW j \in Item, mainQ' = Append(mainQ, j), InMain(i)'
  PROVE  InMain(i) \/ i = j
<1>1. /\ Len(mainQ) \in Nat /\ Len(mainQ') = Len(mainQ) + 1
      /\ mainQ'[Len(mainQ) + 1] = j
      /\ \A n \in 1 .. Len(mainQ) : mainQ'[n] = mainQ[n]
  BY DEF TypeInv, QueueTypeOK, StoreTypeOK
<1>2. PICK n \in 1 .. Len(mainQ') : mainQ'[n] = i
  BY DEF InMain
<1>3. n \in 1 .. Len(mainQ) \/ n = Len(mainQ) + 1
  BY <1>1, <1>2
<1> QED
  BY <1>1, <1>2, <1>3 DEF InMain

LEMMA MainAfterPop ==
  ASSUME TypeInv, DeliveryInv, FirstRun, RPopLPush, NEW i \in Item, InMain(i)'
  PROVE  InMain(i) /\ i # Rightmost
<1>1. /\ Len(mainQ) \in 1 .. Len(mainQ) /\ Len(mainQ') = Len(mainQ) - 1
      /\ Rightmost = mainQ[Len(mainQ)]
      /\ \A n \in 1 .. Len(mainQ') : mainQ'[n] = mainQ[n]
  BY RPopLPushEffect DEF TypeInv, QueueTypeOK
<1>2. PICK n \in 1 .. Len(mainQ') : mainQ'[n] = i
  BY DEF InMain
<1>3. n \in 1 .. Len(mainQ) /\ n # Len(mainQ) /\ mainQ[n] = i
  BY <1>1, <1>2
<1> QED
  BY <1>1, <1>3 DEF InMain, DeliveryInv, OnceInMain

LEMMA OwnerStep ==
  TypeInv /\ DeliveryInv /\ OwnerInv /\ [Next]_vars => OwnerInv'
<1> SUFFICES ASSUME TypeInv, DeliveryInv, OwnerInv, [Next]_vars, FirstRun'
             PROVE  OwnerInv'
  BY DEF OwnerInv
<1>0. /\ pc \in [Worker -> PC] /\ item \in [Worker -> Item \cup {NoItem}]
      /\ life \in [Worker -> Nat] /\ HasItem /\ pubIdx \in Nat /\ FirstRun
      /\ leases \in [LeaseKey -> (Worker \X Nat) \cup {NoLease}]
      /\ \A i \in Item : KeyOf[i] \in LeaseKey
      /\ \A i, j \in Item : KeyOf[i] = KeyOf[j] => i = j
  BY WorkerAssumption, DigestAssumption, CountNat, FirstRunBefore, StepIsQueueStep
  DEF TypeInv, QueueTypeOK, StoreTypeOK, WorkerTypeOK, PubTypeOK
<1>1. ASSUME PublisherNext PROVE OwnerInv'
  <2>1. CASE Publish
    <3>1. /\ pubIdx \in Item /\ mainQ' = Append(mainQ, pubIdx) /\ pubIdx' = pubIdx + 1
          /\ UNCHANGED <<leases, pc, item, life>>
      BY <1>1, <2>1, PublisherCases, Published, CountNat
      DEF Publish, RPush, workerVars, TypeInv, QueueTypeOK, PubTypeOK
    <3>2. ASSUME NEW i \in Item, leases[KeyOf[i]] # NoLease
          PROVE  i \in 1 .. pubIdx /\ i # pubIdx /\ ~ InMain(i)
      BY <1>0, <3>1, <3>2 DEF OwnerInv, ItemKey
    <3>3. ASSUME NEW i \in Item, leases[KeyOf[i]] # NoLease PROVE ~ InMain(i)'
      BY <3>1, <3>2, <3>3, MainAfterPush
    <3> QED
      BY <1>0, <3>1, <3>2, <3>3 DEF OwnerInv, ItemKey, Handles, Session
  <2>2. CASE PubExit \/ PubCrash
    BY <1>0, <1>1, <2>2, PublisherCases, OwnerShrinks
    DEF PubExit, PubCrash, storeVars, workerVars, Handles
  <2>3. CASE PubRestart
    BY <2>3 DEF PubRestart, DeliveryInv, FirstRun
  <2> QED
    BY <1>1, <2>1, <2>2, <2>3, PublisherCases
<1>2. ASSUME NEW w \in Worker, WorkerRun(w) PROVE OwnerInv'
  <2>0. FirstRun /\ UNCHANGED pubIdx
    BY <1>0, <1>2 DEF WorkerRun, pubVars
  <2>1. CASE CheckMain(w) \/ CheckProc(w) \/ LeaseTimeout(w) \/ Work(w) \/ CompleteRem(w)
    <3>1. UNCHANGED <<mainQ, leases, life>>
      BY <2>1 DEF CheckMain, CheckProc, LeaseTimeout, Work, CompleteRem, LRemAll, storeVars
    <3>2. \A v \in Worker, i \in Item : Handles(v, i)' => Handles(v, i)
      BY <1>0, <2>1 DEF CheckMain, CheckProc, LeaseTimeout, Work, CompleteRem, Goto, Handles
    <3> QED
      BY <2>0, <3>1, <3>2, OwnerShrinks
  <2>2. CASE LeasePop(w)
    <3>1. /\ pc' = [pc EXCEPT ![w] = "lease_set"]
          /\ item' = [item EXCEPT ![w] = Rightmost]
          /\ UNCHANGED <<leases, life>> /\ RPopLPush
      BY <2>2 DEF LeasePop, RPopLPush, Goto
    <3>2. InMain(Rightmost) /\ Rightmost \in Item
      BY <3>1, RPopLPushEffect DEF TypeInv, QueueTypeOK, InMain
    <3>3. leases[KeyOf[Rightmost]] = NoLease
      <4>1. PICK r \in Item : r = Rightmost
        BY <3>2
      <4>2. InMain(r)
        BY <3>2, <4>1
      <4> QED
        BY <2>0, <4>1, <4>2 DEF OwnerInv, ItemKey
    <3>4. \A v \in Worker, i \in Item :
            Handles(v, i)' <=> IF v = w THEN i = Rightmost ELSE Handles(v, i)
      BY <1>0, <3>1 DEF Handles
    <3>5. \A i \in Item : InMain(i)' => InMain(i)
      BY <2>0, <3>1, MainAfterPop
    <3>6. ASSUME NEW v \in Worker, NEW i \in Item, Handles(v, i)'
          PROVE  leases[KeyOf[i]] \in {Session(v), NoLease}
      BY <2>0, <3>3, <3>4, <3>6 DEF OwnerInv, ItemKey
    <3> QED
      BY <2>0, <3>1, <3>5, <3>6 DEF OwnerInv, ItemKey, Session
  <2>3. CASE LeaseSet(w)
    <3>1. /\ leases' = [leases EXCEPT ![KeyOf[item[w]]] = Session(w)]
          /\ UNCHANGED <<mainQ, item, life>>
      BY <2>3 DEF LeaseSet, SetEx, ItemKey
    <3>2. \A v \in Worker, i \in Item : Handles(v, i)' <=> Handles(v, i)
      BY <1>0, <2>3 DEF LeaseSet, Goto, Handles
    <3>3. item[w] \in Item /\ Handles(w, item[w])
      BY <1>0, <2>3 DEF LeaseSet, Handles, HasItem
    <3>4. PICK j \in Item : j = item[w]
      BY <3>3
    <3>5. \A i \in Item : leases'[KeyOf[i]] = IF i = j THEN Session(w) ELSE leases[KeyOf[i]]
      BY <1>0, <3>1, <3>4
    <3>6. Handles(w, j) /\ Touched(j)
      BY <3>3, <3>4 DEF Touched, Handles
    <3>7. j \in 1 .. (pubIdx - 1) /\ ~ InMain(j) /\ \A v \in Worker : Handles(v, j) => v = w
      <4>1. OnceInMain /\ OnceTaken
        BY <2>0 DEF DeliveryInv
      <4>2. ASSUME NEW n \in 1 .. Len(mainQ), mainQ[n] = j PROVE FALSE
        <5>1. ~ Touched(mainQ[n])
          BY <4>1 DEF OnceInMain
        <5> QED
          BY <3>6, <4>2, <5>1
      <4> QED
        BY <3>6, <4>1, <4>2 DEF OnceTaken, InMain
    <3>8. \A i \in Item : InMain(i)' <=> InMain(i)
      BY <3>1 DEF InMain
    <3> QED
      BY <2>0, <3>1, <3>2, <3>5, <3>7, <3>8 DEF OwnerInv, ItemKey, Session
  <2>4. CASE CompleteDel(w)
    <3>1. /\ leases' = [leases EXCEPT ![KeyOf[item[w]]] = NoLease]
          /\ UNCHANGED <<mainQ, life>>
      BY <2>4 DEF CompleteDel, Del, ItemKey
    <3>2. \A v \in Worker, i \in Item : Handles(v, i)' => Handles(v, i)
      BY <1>0, <2>4 DEF CompleteDel, Goto, Handles
    <3>3. \A i \in Item : leases'[KeyOf[i]] \in {leases[KeyOf[i]], NoLease}
      BY <1>0, <3>1
    <3> QED
      BY <2>0, <3>1, <3>2, <3>3, OwnerShrinks
  <2> QED
    BY <1>2, <2>1, <2>2, <2>3, <2>4 DEF WorkerRun, WorkerStep, Lease, Complete
<1>3. ASSUME NEW w \in Worker, WorkerFails(w) \/ WorkerRestarts(w) PROVE OwnerInv'
  <2>1. UNCHANGED <<mainQ, leases, pubIdx>>
    BY <1>3 DEF WorkerFails, WorkerRestarts, Crash, Restart, storeVars, pubVars
  <2>2. \A v \in Worker, i \in Item : Handles(v, i)' => Handles(v, i) /\ life'[v] = life[v]
    BY <1>0, <1>3 DEF WorkerFails, WorkerRestarts, Crash, Restart, Goto, Handles
  <2> QED
    BY <1>0, <2>1, <2>2, OwnerShrinks
<1>4. ASSUME NEW k \in LeaseKey, LeaseExpires(k) PROVE OwnerInv'
  <2>1. /\ leases' = [leases EXCEPT ![k] = NoLease]
        /\ UNCHANGED <<mainQ, pc, item, life, pubIdx>>
    BY <1>4 DEF LeaseExpires, Expire, Del, pubVars, workerVars
  <2>2. \A i \in Item : leases'[KeyOf[i]] \in {leases[KeyOf[i]], NoLease}
    BY <1>0, <2>1
  <2> QED
    BY <1>0, <2>1, <2>2, OwnerShrinks DEF Handles
<1>5. CASE ServerRestarts
  <2>1. /\ \A k \in LeaseKey : leases'[k] = NoLease
        /\ UNCHANGED <<pc, item, life, pubIdx>>
    BY <1>5 DEF ServerRestarts, Wipe, pubVars, workerVars
  <2>2. \A i \in Item : leases'[ItemKey(i)] = NoLease
    BY <1>0, <2>1 DEF ItemKey
  <2> QED
    BY <2>2 DEF OwnerInv
<1>6. CASE UNCHANGED vars
  BY <1>0, <1>6, OwnerShrinks DEF vars, queueVars, storeVars, pubVars, workerVars, Handles
<1> QED
  BY <1>1, <1>2, <1>3, <1>4, <1>5, <1>6 DEF Next, Surroundings, Terminated

(* Between LREM and DEL the item is off the processing list: an item that  *)
(* is handed out once does not come back onto it.                          *)
RemovedInv ==
  FirstRun => \A w \in Worker : pc[w] = "complete_del" => procQ[item[w]] = 0

LEMMA RemovedInit == Init => RemovedInv
BY DEF Init, QueueInit, WorkerInit, RemovedInv

LEMMA RemovedStep ==
  TypeInv /\ DeliveryInv /\ RemovedInv /\ [Next]_vars => RemovedInv'
<1> SUFFICES ASSUME TypeInv, DeliveryInv, RemovedInv, [Next]_vars, FirstRun',
                    NEW v \in Worker, pc'[v] = "complete_del"
             PROVE  procQ'[item'[v]] = 0
  BY DEF RemovedInv
<1>0. /\ pc \in [Worker -> PC] /\ item \in [Worker -> Item \cup {NoItem}]
      /\ procQ \in [Item -> Nat] /\ HasItem /\ FirstRun
  BY FirstRunBefore, StepIsQueueStep
  DEF TypeInv, QueueTypeOK, StoreTypeOK, WorkerTypeOK
(* A worker that stays there, in a step that pushes nothing. *)
<1>1. ASSUME pc'[v] = pc[v], item'[v] = item[v],
             procQ[item[v]] = 0 => procQ'[item[v]] = 0
      PROVE  procQ'[item'[v]] = 0
  BY <1>0, <1>1 DEF RemovedInv
<1>2. ASSUME NEW w \in Worker, CompleteRem(w) PROVE procQ'[item'[v]] = 0
  <2>1. /\ pc[w] = "complete_rem" /\ pc' = [pc EXCEPT ![w] = "complete_del"]
        /\ item' = item /\ procQ' = [procQ EXCEPT ![item[w]] = 0] /\ item[w] \in Item
    BY <1>0, <1>2 DEF CompleteRem, LRemAll, Goto, HasItem
  <2>2. CASE v = w
    BY <1>0, <2>1, <2>2
  <2>3. CASE v # w
    <3>1. item[v] \in Item /\ pc'[v] = pc[v]
      BY <1>0, <2>1, <2>3 DEF HasItem
    <3> QED
      BY <1>0, <1>1, <2>1, <3>1
  <2> QED
    BY <2>2, <2>3
<1>3. ASSUME NEW w \in Worker, LeasePop(w) PROVE procQ'[item'[v]] = 0
  <2>1. /\ pc[w] = "lease_pop" /\ pc' = [pc EXCEPT ![w] = "lease_set"]
        /\ item' = [item EXCEPT ![w] = Rightmost]
        /\ ~ MainEmpty /\ procQ' = [procQ EXCEPT ![Rightmost] = @ + 1]
    BY <1>3 DEF LeasePop, RPopLPush, Goto
  <2>2. v # w /\ pc'[v] = pc[v] /\ item'[v] = item[v] /\ item[v] \in Item
    BY <1>0, <2>1 DEF HasItem
  <2>3. Touched(item[v])
    BY <1>0, <2>2 DEF Touched, Handles
  <2>4. Len(mainQ) \in 1 .. Len(mainQ)
    BY <2>1 DEF TypeInv, QueueTypeOK, StoreTypeOK, MainEmpty
  <2>5. ~ Touched(Rightmost)
    BY <1>0, <2>4 DEF DeliveryInv, OnceInMain, Rightmost
  <2>6. item[v] # Rightmost
    BY <2>3, <2>5
  <2> QED
    BY <1>0, <1>1, <2>1, <2>2, <2>6
<1>4. ASSUME NEW w \in Worker, WorkerRun(w), ~ CompleteRem(w), ~ LeasePop(w)
      PROVE  procQ'[item'[v]] = 0
  <2>1. pc'[v] = pc[v] /\ item'[v] = item[v] /\ procQ' = procQ
    BY <1>0, <1>4
    DEF WorkerRun, WorkerStep, Lease, Complete, CheckMain, CheckProc, LeaseTimeout, LeaseSet,
        Work, CompleteDel, SetEx, Del, Goto, storeVars
  <2> QED
    BY <1>1, <2>1
<1>5. CASE \E w \in Worker : WorkerFails(w) \/ WorkerRestarts(w)
  <2>1. pc'[v] = pc[v] /\ item'[v] = item[v] /\ procQ' = procQ
    BY <1>0, <1>5 DEF WorkerFails, WorkerRestarts, Crash, Restart, Goto, storeVars
  <2> QED
    BY <1>1, <2>1
<1>6. CASE PublisherNext \/ (\E k \in LeaseKey : LeaseExpires(k)) \/ UNCHANGED vars
  BY <1>1, <1>6, PublisherCases
  DEF Publish, PubExit, PubCrash, PubRestart, RPush, LeaseExpires, Expire, Del, storeVars,
      workerVars, vars, queueVars
<1>7. CASE ServerRestarts
  <2>1. /\ procQ' = [i \in Item |-> 0] /\ pc' = pc /\ item' = item
        /\ item[v] \in Item
    BY <1>0, <1>7 DEF ServerRestarts, Wipe, workerVars, HasItem
  <2> QED
    BY <2>1
<1> QED
  BY <1>2, <1>3, <1>4, <1>5, <1>6, <1>7 DEF Next, Surroundings, Terminated

(* complete() deletes no lease but the worker's own: nobody else has one   *)
(* for the item in its hands.  And the item is off the processing list by  *)
(* then.                                                                   *)
THEOREM OwnLeaseReleased == Spec => ReleasesOwnLease
<1>1. TypeInv /\ OwnerInv /\ RemovedInv /\ [Next]_vars =>
        (FirstRun =>
           \A w \in Worker : pc[w] = "complete_del" /\ pc'[w] = "check_main" =>
             /\ leases[ItemKey(item[w])] \in {Session(w), NoLease}
             /\ procQ[item[w]] = 0)
  BY DEF TypeInv, HasItem, OwnerInv, RemovedInv, Handles
<1>2. Init => TypeInv /\ DeliveryInv
  BY TypeInit, DeliveryInit DEF Init
<1> QED
  BY <1>1, <1>2, TypeStep, DeliveryStep, StepIsQueueStep, OwnerInit, OwnerStep,
     RemovedInit, RemovedStep, PTL
  DEF Spec, ReleasesOwnLease

-----------------------------------------------------------------------------
(* What a failure costs.  A worker that dies with an unfinished item       *)
(* strands it (DeathStrandsCorrect), a stranded item stays                 *)
(* (StrandedForGood), and every other worker counts it in empty(): none    *)
(* leaves any more.  So one death at the wrong moment is enough and the    *)
(* Job never completes, unless the publisher or the server is started      *)
(* again.                                                                  *)

LEMMA BusyStep ==
  ASSUME TypeInv, ~ ProcEmpty, NEW v \in Worker, WorkerStep(v),
         NEW w \in Worker, pc[w] # "exited"
  PROVE  pc'[w] # "exited"
<1>1. pc \in [Worker -> PC]
  BY DEF TypeInv, QueueTypeOK, WorkerTypeOK
<1>2. \E label \in PC : pc' = [pc EXCEPT ![v] = label] /\ label # "exited"
  BY <1>1
  DEF WorkerStep, CheckMain, CheckProc, Lease, LeasePop, LeaseTimeout, LeaseSet, Work,
      Complete, CompleteRem, CompleteDel, Goto, PC
<1> QED
  BY <1>1, <1>2

JobHangs ==
  [][pubIdx' >= pubIdx /\ wipes' = wipes /\ (\E i \in Item : Stranded(i)) =>
       /\ \E i \in Item : Stranded(i)'
       /\ \A w \in Worker : pc[w] # "exited" => pc'[w] # "exited"]_vars

LEMMA HangStep ==
  ASSUME TypeInv, [Next]_vars, pubIdx' >= pubIdx, wipes' = wipes,
         NEW i \in Item, Stranded(i), NEW w \in Worker, pc[w] # "exited"
  PROVE  Stranded(i)' /\ pc'[w] # "exited"
<1>0. pc \in [Worker -> PC] /\ ~ ProcEmpty
  BY DEF TypeInv, QueueTypeOK, WorkerTypeOK, Stranded, ProcEmpty
<1>1. Stranded(i)'
  BY StepIsQueueStep, StrandedStep
<1>2. ASSUME NEW v \in Worker, WorkerRun(v) PROVE pc'[w] # "exited"
  BY <1>0, <1>2, BusyStep DEF WorkerRun
<1>3. ASSUME NEW v \in Worker, WorkerFails(v) \/ WorkerRestarts(v) PROVE pc'[w] # "exited"
  BY <1>0, <1>3 DEF WorkerFails, WorkerRestarts, Crash, Restart, Goto
<1>4. ASSUME \/ PublisherNext \/ ServerRestarts
             \/ \E k \in LeaseKey : LeaseExpires(k)
             \/ UNCHANGED vars
      PROVE  pc'[w] # "exited"
  BY <1>4, PublisherCases DEF ServerRestarts, LeaseExpires, workerVars, vars, queueVars
<1>5. \/ \E v \in Worker : WorkerRun(v)
      \/ \E v \in Worker : WorkerFails(v) \/ WorkerRestarts(v)
      \/ PublisherNext \/ ServerRestarts
      \/ \E k \in LeaseKey : LeaseExpires(k)
      \/ UNCHANGED vars
  BY DEF Next, Surroundings, Terminated
<1>6. pc'[w] # "exited"
  BY <1>2, <1>3, <1>4, <1>5
<1> QED
  BY <1>1, <1>6

(* With an item stranded no worker leaves, and it stays stranded.          *)
THEOREM StrandedHangsJob == Spec => JobHangs
<1>1. TypeInv /\ [Next]_vars =>
        (pubIdx' >= pubIdx /\ wipes' = wipes /\ (\E i \in Item : Stranded(i)) =>
           /\ \E i \in Item : Stranded(i)'
           /\ \A w \in Worker : pc[w] # "exited" => pc'[w] # "exited")
  <2> SUFFICES ASSUME TypeInv, [Next]_vars, pubIdx' >= pubIdx, wipes' = wipes,
                      NEW i \in Item, Stranded(i)
               PROVE  /\ \E j \in Item : Stranded(j)'
                      /\ \A w \in Worker : pc[w] # "exited" => pc'[w] # "exited"
    OBVIOUS
  <2>1. Stranded(i)'
    BY StepIsQueueStep, StrandedStep
  <2> QED
    BY <2>1, HangStep
<1>2. Init => TypeInv
  BY TypeInit DEF Init
<1> QED
  BY <1>1, <1>2, TypeStep, StepIsQueueStep, PTL DEF Spec, JobHangs

-----------------------------------------------------------------------------
(* The same worker in containers that nobody starts again (ComposeQueue).  *)
(* That is a queue in the sense of WorkQueue too, one whose server stays   *)
(* up, so what was pushed can only wait, be in progress or be done.        *)

LEMMA ConsumerIsWorker ==
  ASSUME NEW w \in Worker, ConsumerRun(w)
  PROVE  WorkerStep(w) /\ UNCHANGED <<pubVars, serverVars>>
BY DEF ConsumerRun, Check, LeaseItem, WorkOn, Done, WorkerStep, Lease, Complete

LEMMA ComposeStepIsQueueStep == [ComposeNext]_composeVars => [QueueNext]_queueVars
<1> SUFFICES ASSUME ComposeNext PROVE [QueueNext]_queueVars
  BY DEF composeVars
<1>1. ASSUME NEW w \in Worker, ConsumerRun(w) PROVE WorkerActs(w)
  BY <1>1, ConsumerIsWorker, WorkerStepIsQueueStep DEF WorkerActs
<1> QED
  BY <1>1 DEF ComposeNext, ProducerRuns, ProducerFails, ConsumerFails, KeyExpires,
     ContainersEnded, composeVars, QueueNext, Surroundings, PublisherNext

(* Every behaviour of the containers is one of the queue. *)
THEOREM ComposeIsQueue == ComposeSpec => QueueSpec
<1>1. ComposeInit => QueueInit
  BY DEF ComposeInit
<1> QED
  BY <1>1, ComposeStepIsQueueStep, PTL DEF ComposeSpec, QueueSpec

(* No item leaves the containers' queue undone. *)
THEOREM ComposeIsPool == ComposeSpec => ImplementsPool
BY ComposeIsQueue, QueueIsPool, PTL

SawOverOK == sawOver \in [Worker -> BOOLEAN]

LEMMA SawOverStep == SawOverOK /\ [ComposeNext]_composeVars => SawOverOK'
<1> SUFFICES ASSUME SawOverOK, [ComposeNext]_composeVars PROVE SawOverOK'
  OBVIOUS
<1>1. ProducerOver \in BOOLEAN
  BY DEF ProducerOver
<1>2. \/ sawOver' = sawOver
      \/ \E w \in Worker : sawOver' = [sawOver EXCEPT ![w] = ProducerOver]
  BY DEF ComposeNext, ProducerRuns, ProducerFails, ConsumerRun, Check, LeaseItem, WorkOn, Done,
     ConsumerFails, KeyExpires, ContainersEnded, composeVars
<1> QED
  BY <1>1, <1>2 DEF SawOverOK

(* Type correctness. *)
THEOREM ComposeTypeCorrect == ComposeSpec => []ComposeTypeOK
<1>1. ComposeInit => SawOverOK
  BY DEF ComposeInit, SawOverOK
<1>2. QueueTypeOK /\ SawOverOK => ComposeTypeOK
  BY DEF ComposeTypeOK, SawOverOK
<1> QED
  BY <1>1, <1>2, SawOverStep, ComposeIsQueue, TypeCorrect, PTL DEF ComposeSpec

(* Nothing is lost with a server.  And what a consumer found empty when it *)
(* looked after the producer was over stays so, here also when the         *)
(* producer died: it does not come back.                                   *)
OverHolds ==
  /\ lost = {}
  /\ \A w \in Worker : sawOver[w] => ProducerOver /\ FoundEmpty(w)

LEMMA OverInit == ComposeInit => OverHolds
BY DEF ComposeInit, QueueInit, OverHolds

LEMMA OverStep == TypeInv /\ SawOverOK /\ OverHolds /\ [ComposeNext]_composeVars => OverHolds'
<1> SUFFICES ASSUME TypeInv, SawOverOK, OverHolds, [ComposeNext]_composeVars
             PROVE  /\ lost' = lost
                    /\ \A v \in Worker : sawOver'[v] => ProducerOver' /\ FoundEmpty(v)'
  BY DEF OverHolds
<1>0. lost' = lost
  BY DEF ComposeNext, ProducerRuns, PublisherRuns, ProducerFails, PublisherFails, ConsumerRun,
     ConsumerFails, WorkerFails, KeyExpires, LeaseExpires, ContainersEnded, composeVars,
     queueVars, serverVars
<1> SUFFICES ASSUME NEW v \in Worker, sawOver'[v] PROVE ProducerOver' /\ FoundEmpty(v)'
  BY <1>0
<1>1. CASE ProducerRuns \/ ProducerFails
  <2>1. ~ ProducerOver /\ UNCHANGED sawOver
    BY <1>1 DEF ProducerRuns, PublisherRuns, PubStep, Publish, PubExit, ProducerFails,
       PublisherFails, PubCrash, ProducerOver
  <2> QED
    BY <2>1 DEF OverHolds
<1>2. ASSUME NEW w \in Worker, ConsumerRun(w) PROVE ProducerOver' /\ FoundEmpty(v)'
  <2>1. WorkerStep(w) /\ UNCHANGED pubPc
    BY <1>2, ConsumerIsWorker DEF pubVars
  <2>2. \/ sawOver' = sawOver
        \/ pc[w] = "check_main" /\ sawOver' = [sawOver EXCEPT ![w] = ProducerOver]
    BY <1>2 DEF ConsumerRun, Check, CheckMain, LeaseItem, WorkOn, Done
  <2>3. ProducerOver /\ (FoundEmpty(v) \/ (v = w /\ pc[w] = "check_main"))
    BY <2>2 DEF OverHolds, SawOverOK
  <2> QED
    BY <2>1, <2>3, FoundStep DEF ProducerOver
<1>3. CASE \/ \E w \in Worker : ConsumerFails(w)
           \/ \E k \in LeaseKey : KeyExpires(k)
  <2>1. UNCHANGED <<pubPc, sawOver>>
    BY <1>3 DEF ConsumerFails, WorkerFails, KeyExpires, LeaseExpires, pubVars
  <2>2. \/ \E w \in Worker : WorkerFails(w) \/ WorkerRestarts(w)
        \/ \E k \in LeaseKey : LeaseExpires(k)
    BY <1>3 DEF ConsumerFails, KeyExpires
  <2> QED
    BY <2>1, <2>2, FoundFailures DEF OverHolds, ProducerOver
<1>4. CASE UNCHANGED composeVars
  BY <1>4, FoundFrame
  DEF OverHolds, ProducerOver, composeVars, queueVars, storeVars, pubVars, workerVars
<1> QED
  BY <1>1, <1>2, <1>3, <1>4 DEF ComposeNext, ContainersEnded

LEMMA OverCorrect == ComposeSpec => []OverHolds
<1>1. ComposeInit => TypeInv /\ SawOverOK
  BY TypeInit DEF ComposeInit, SawOverOK
<1> QED
  BY <1>1, TypeStep, ComposeStepIsQueueStep, SawOverStep, OverInit, OverStep, PTL
  DEF ComposeSpec

(* A consumer that looked after the producer was over, and left, left      *)
(* nothing, for any number of consumers and failures.                      *)
THEOREM LateExitCorrect == ComposeSpec => []LateExitIsRight
<1>1. NothingVanishes /\ OverHolds => LateExitIsRight
  <2> SUFFICES ASSUME NothingVanishes, OverHolds,
                      NEW w \in Worker, pc[w] = "exited", sawOver[w]
               PROVE  MainEmpty /\ ProcEmpty /\ 1 .. (pubIdx - 1) \subseteq worked
    BY DEF LateExitIsRight
  <2>1. MainEmpty /\ ProcEmpty /\ lost = {}
    BY DEF OverHolds, FoundEmpty
  <2>2. Waiting = {} /\ InProgress = {}
    BY <2>1 DEF Waiting, InProgress, InMain, MainEmpty, ProcEmpty
  <2> QED
    BY <2>1, <2>2 DEF NothingVanishes
<1> QED
  BY <1>1, ComposeIsQueue, NothingVanishesCorrect, OverCorrect, PTL

(* When everybody is gone, what is not done waits in the main list, or is  *)
(* in the processing list because a consumer died with it.                 *)
THEOREM LeftBehindCorrect == ComposeSpec => []LeftBehind
<1>1. NothingVanishes /\ InProgressAccounted /\ OverHolds => LeftBehind
  <2> SUFFICES ASSUME NothingVanishes, InProgressAccounted, OverHolds, NobodyLeft
               PROVE  1 .. (pubIdx - 1) \subseteq worked \cup Waiting \cup (InProgress \cap orphans)
    BY DEF LeftBehind
  <2>1. \A w \in Worker, i \in Item : ~ Holds(w, i)
    BY DEF NobodyLeft, Holds
  <2>2. InProgress \subseteq orphans
    BY <2>1 DEF InProgressAccounted, InProgress
  <2> QED
    BY <2>2 DEF NothingVanishes, OverHolds
<1> QED
  BY <1>1, ComposeIsQueue, NothingVanishesCorrect, ProgressCorrect, OverCorrect, PTL

-----------------------------------------------------------------------------
(* What a death costs here, where nothing is started again: the unfinished *)
(* item of a dead consumer is stranded from then on.                       *)

OrphansStranded == FirstRun /\ \A i \in orphans \ worked : Stranded(i)

LEMMA OrphansInit == ComposeInit => OrphansStranded
BY DEF ComposeInit, QueueInit, PubInit, WorkerInit, OrphansStranded, FirstRun

LEMMA ComposeGoesOn ==
  ASSUME TypeInv, [ComposeNext]_composeVars
  PROVE  pubIdx' >= pubIdx /\ wipes' = wipes
<1>1. pubIdx \in Nat
  BY CountNat DEF TypeInv, QueueTypeOK, PubTypeOK
<1> QED
  BY <1>1
  DEF ComposeNext, ProducerRuns, PublisherRuns, PubStep, Publish, PubExit, ProducerFails,
      PublisherFails, PubCrash, ConsumerRun, ConsumerFails, WorkerFails, KeyExpires,
      LeaseExpires, ContainersEnded, composeVars, queueVars, pubVars, serverVars

LEMMA OrphansStep ==
  TypeInv /\ ProgressInv /\ DeliveryInv /\ OverHolds /\ OrphansStranded
    /\ [ComposeNext]_composeVars => OrphansStranded'
<1> SUFFICES ASSUME TypeInv, ProgressInv, DeliveryInv, OverHolds, OrphansStranded,
                    [ComposeNext]_composeVars
             PROVE  FirstRun' /\ \A i \in orphans' \ worked' : Stranded(i)'
  BY DEF OrphansStranded
<1>0. orphans \subseteq Item
  BY DEF TypeInv, QueueTypeOK, WorkerTypeOK
<1>1. FirstRun'
  BY DEF ComposeNext, ProducerRuns, PublisherRuns, PubStep, Publish, PubExit, ProducerFails,
     PublisherFails, PubCrash, ConsumerRun, ConsumerFails, WorkerFails, KeyExpires,
     LeaseExpires, ContainersEnded, composeVars, queueVars, pubVars, OrphansStranded, FirstRun
<1>2. ASSUME NEW i \in orphans \ worked PROVE Stranded(i)'
  BY <1>0, ComposeGoesOn, ComposeStepIsQueueStep, StrandedStep DEF OrphansStranded
<1>3. CASE \E w \in Worker : ConsumerFails(w)
  <2>1. PICK w \in Worker : WorkerFails(w)
    BY <1>3 DEF ConsumerFails
  <2>2. orphans' = orphans \cup {i \in Item : Holds(w, i)} /\ worked' = worked
    BY <2>1 DEF WorkerFails, Crash
  <2>3. ASSUME NEW i \in Item, Holds(w, i), i \notin worked PROVE Stranded(i)'
    BY <2>1, <2>3, DeathStep DEF OverHolds, OrphansStranded
  <2> QED
    BY <1>1, <1>2, <2>2, <2>3
<1>4. CASE orphans' = orphans /\ worked \subseteq worked'
  BY <1>1, <1>2, <1>4
<1>5. ASSUME NEW w \in Worker, ConsumerRun(w) PROVE orphans' = orphans /\ worked \subseteq worked'
  BY <1>5
  DEF ConsumerRun, Check, CheckMain, CheckProc, LeaseItem, LeasePop, LeaseTimeout, LeaseSet,
      WorkOn, Work, Done, CompleteRem, CompleteDel
<1> QED
  BY <1>3, <1>4, <1>5
  DEF ComposeNext, ProducerRuns, PublisherRuns, ProducerFails, PublisherFails, KeyExpires,
      LeaseExpires, ContainersEnded, composeVars, queueVars, workerVars

(* Once a consumer died with an unfinished item, none of the others leaves *)
(* its loop any more: what ends it is its own death.                       *)
ConsumersHang ==
  [][orphans \ worked # {} =>
       \A w \in Worker : pc[w] # "exited" => pc'[w] # "exited"]_composeVars

LEMMA ConsumersHangStep ==
  ASSUME TypeInv, OrphansStranded, [ComposeNext]_composeVars, orphans \ worked # {},
         NEW w \in Worker, pc[w] # "exited"
  PROVE  pc'[w] # "exited"
<1>0. pc \in [Worker -> PC] /\ orphans \subseteq Item
  BY DEF TypeInv, QueueTypeOK, WorkerTypeOK
<1>1. ~ ProcEmpty
  BY <1>0 DEF OrphansStranded, Stranded, ProcEmpty
<1>2. ASSUME NEW v \in Worker, ConsumerRun(v) PROVE pc'[w] # "exited"
  BY <1>1, <1>2, ConsumerIsWorker, BusyStep
<1>3. ASSUME NEW v \in Worker, ConsumerFails(v) PROVE pc'[w] # "exited"
  BY <1>0, <1>3 DEF ConsumerFails, WorkerFails, Crash, Goto
<1>4. ASSUME UNCHANGED pc PROVE pc'[w] # "exited"
  BY <1>4
<1> QED
  BY <1>2, <1>3, <1>4
  DEF ComposeNext, ProducerRuns, PublisherRuns, ProducerFails, PublisherFails, KeyExpires,
      LeaseExpires, ContainersEnded, composeVars, queueVars, workerVars

(* One death at the wrong moment keeps all the other consumers looking,     *)
(* for any number of them.                                                 *)
THEOREM OrphanHangsConsumers == ComposeSpec => ConsumersHang
<1>1. TypeInv /\ OrphansStranded /\ [ComposeNext]_composeVars =>
        (orphans \ worked # {} =>
           \A w \in Worker : pc[w] # "exited" => pc'[w] # "exited")
  BY ConsumersHangStep
<1>2. ComposeInit => TypeInv /\ ProgressInv /\ DeliveryInv
  BY TypeInit, ProgressInit, DeliveryInit DEF ComposeInit
<1> QED
  BY <1>1, <1>2, TypeStep, ProgressStep, DeliveryStep, ComposeStepIsQueueStep, OverCorrect,
     OrphansInit, OrphansStep, PTL
  DEF ComposeSpec, ConsumersHang

=============================================================================
