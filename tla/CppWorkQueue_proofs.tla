------------------------ MODULE CppWorkQueue_proofs ------------------------
(***************************************************************************)
(* gpu_workload_v1 is a queue in the sense of WorkQueue; who leaves it and *)
(* who stays is proved here.  Nothing is assumed about std::hash: payloads *)
(* may share a lease key.                                                  *)
(***************************************************************************)
EXTENDS CppWorkQueue, WorkQueue_proofs

LEMMA StepIsQueueStep == [Next]_queueVars => [QueueNext]_queueVars
<1> SUFFICES ASSUME Next PROVE [QueueNext]_queueVars
  OBVIOUS
<1>1. ASSUME NEW w \in Worker, WorkerRun(w) PROVE WorkerActs(w)
  <2>1. CheckMain(w) \/ CheckProc(w) => Look(w)
    BY DEF CheckMain, CheckProc, Look, Goto
  <2> QED
    BY <1>1, <2>1 DEF WorkerRun, WorkerStep, Lease, Complete, WorkerActs, LeasingStep
<1> QED
  BY <1>1 DEF Next, Terminated, QueueNext

(* Every behaviour of the application is one of the queue. *)
THEOREM CppIsQueue == Spec => QueueSpec
BY StepIsQueueStep, PTL DEF Spec, QueueSpec, Init

(* Type correctness. *)
THEOREM CppTypeCorrect == Spec => []TypeOK
BY CppIsQueue, TypeCorrect, PTL DEF TypeOK

(* A lease in the store that bears the session of a running worker is one  *)
(* for an item of that key in its hands, even when keys collide.           *)
THEOREM CppLeasesCorrect == Spec => []LeasesNameHolders
BY CppIsQueue, LeasesCorrect, PTL

(* No item leaves the queue undone. *)
THEOREM CppIsPool == Spec => ImplementsPool
BY CppIsQueue, QueueIsPool, PTL

-----------------------------------------------------------------------------
(* Who stays.  The worker that leaves saw an element in the processing     *)
(* list; by InProgressAccounted it is in the hands of another worker,      *)
(* which therefore has not left, or it is an orphan.                       *)

LEMMA StaysStep ==
  TypeInv /\ InProgressAccounted /\ SomeoneStays /\ [Next]_queueVars => SomeoneStays'
<1> SUFFICES ASSUME TypeInv, InProgressAccounted, SomeoneStays, [Next]_queueVars,
                    AllExited', orphans = {}
             PROVE  orphans' # {}
  <2>1. ASSUME [Next]_queueVars, orphans # {}, orphans' = {} PROVE FALSE
    BY <2>1 DEF Next, Surroundings, PublisherNext, PublisherRuns, PublisherFails,
                PublisherRestarts, WorkerFails, WorkerRestarts, LeaseExpires, Crash, Restart,
                ServerRestarts, WorkerRun, WorkerStep, CheckMain, CheckProc, Lease, LeasePop, LeaseTimeout,
                LeaseSet, Work, Complete, CompleteRem, CompleteDel, Terminated, queueVars,
                workerVars
  <2> QED
    BY <2>1 DEF SomeoneStays
<1>0. pc \in [Worker -> PC] /\ ~ AllExited
  BY DEF TypeInv, QueueTypeOK, WorkerTypeOK, SomeoneStays
<1>1. PICK w \in Worker : pc[w] # "exited"
  BY <1>0 DEF AllExited
<1>2. pc'[w] = "exited"
  BY DEF AllExited
<1>3. CheckProc(w) /\ ~ ProcEmpty
  <2>1. ~ UNCHANGED pc
    BY <1>1, <1>2
  <2>2. ASSUME NEW v \in Worker, WorkerFails(v) \/ WorkerRestarts(v) PROVE FALSE
    BY <1>0, <1>1, <1>2, <2>2 DEF WorkerFails, WorkerRestarts, Crash, Restart, Goto, AllExited
  <2>3. PICK v \in Worker : WorkerRun(v)
    BY <2>1, <2>2 DEF Next, Surroundings, PublisherNext, PublisherRuns, PublisherFails,
                      PublisherRestarts, LeaseExpires, ServerRestarts, Terminated, queueVars,
                      workerVars
  <2>4. v = w
    BY <1>0, <1>1, <1>2, <2>3
    DEF WorkerRun, WorkerStep, CheckMain, CheckProc, Lease, LeasePop, LeaseTimeout, LeaseSet,
        Work, Complete, CompleteRem, CompleteDel, Goto
  <2> QED
    BY <1>0, <1>2, <2>3, <2>4
    DEF WorkerRun, WorkerStep, CheckMain, CheckProc, Lease, LeasePop, LeaseTimeout, LeaseSet,
        Work, Complete, CompleteRem, CompleteDel, Goto
<1>4. PICK i \in Item : procQ[i] > 0
  BY <1>3 DEF ProcEmpty, TypeInv, QueueTypeOK, StoreTypeOK
<1>5. PICK v \in Worker : Holds(v, i)
  BY <1>4 DEF InProgressAccounted
<1>6. v # w /\ pc'[v] = pc[v] /\ pc[v] # "exited"
  BY <1>0, <1>3, <1>5 DEF CheckProc, Goto, Holds
<1> QED
  BY <1>6 DEF AllExited

(* The workers never all leave while no item was lost to a failure: the    *)
(* Job does not complete.                                                  *)
THEOREM SomeoneAlwaysStays == Spec => []SomeoneStays
<1>1. Init => SomeoneStays
  BY WorkerAssumption DEF Init, QueueInit, WorkerInit, SomeoneStays, AllExited
<1>2. ProgressInv => InProgressAccounted
  BY DEF ProgressInv
<1>3. Init => TypeInv /\ ProgressInv
  BY TypeInit, ProgressInit DEF Init
<1> QED
  BY <1>1, <1>2, <1>3, StepIsQueueStep, TypeStep, ProgressStep, StaysStep, PTL DEF Spec

=============================================================================
