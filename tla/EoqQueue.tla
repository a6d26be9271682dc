------------------------------ MODULE EoqQueue ------------------------------
(***************************************************************************)
(* testbed/redis-cpp-queue, from which gpu_workload_v1 was made: the same  *)
(* lease() and complete(), but a loop that never asks whether the queue is *)
(* empty.  It ends on an item EOQ:                                         *)
(*                                                                         *)
(*   while (true)                         Turn                             *)
(*       item = sub.lease()               Lease                            *)
(*       if (item is EOQ) break           Break                            *)
(*       sleep(2)                         WorkItem                         *)
(*       sub.complete(item)               Complete                         *)
(*                                                                         *)
(* No program sends an EOQ (the line that would is a comment), so it comes *)
(* from somebody at a Redis client, at any time.  Redis takes from the end *)
(* it pushes to: an EOQ overtakes whatever waits.  Nobody starts a program *)
(* again that ended.                                                       *)
(***************************************************************************)
EXTENDS Publisher, LeaseWorker, FiniteSets

CONSTANTS Eoq,      \* the payload that ends a loop
          MaxEoqs   \* bound: how many are sent

ASSUME EoqAssumption ==
  /\ Eoq \in Item \ (1 .. (Count - 1))
  /\ IsFiniteSet(Worker)
  /\ MaxEoqs \in Nat

VARIABLE eoqs   \* EOQs sent so far

vars == <<storeVars, pubVars, workerVars, eoqs>>

TypeOK ==
  /\ StoreTypeOK(Worker \X Nat)
  /\ PubTypeOK
  /\ WorkerTypeOK
  /\ eoqs \in Nat

Init == StoreInit /\ PubInit /\ WorkerInit /\ eoqs = 0

PubOver == pubPc \in {"done", "down"}

NobodyLeft == \A w \in Worker : pc[w] \in {"exited", "down"}

-----------------------------------------------------------------------------

(* The top of the loop.  (The call of empty() before it is only printed.)  *)
Turn(w) ==
  /\ pc[w] = "check_main"
  /\ Goto(w, "lease_pop")
  /\ UNCHANGED <<item, life, crashes, worked, orphans, storeVars>>

Lease(w) == LeasePop(w) \/ LeaseTimeout(w) \/ LeaseSet(w)

(* Variant: EOQ counts as complete before the loop ends. *)
BreakComplete(w) ==
  /\ pc[w] = "work"
  /\ item[w] = Eoq
  /\ LRemAll(Eoq)
  /\ Goto(w, "exited")
  /\ UNCHANGED <<item, life, crashes, worked, orphans>>

(* Variant: the loop ends on any item. *)
BreakAlways(w) ==
  /\ pc[w] = "work"
  /\ Goto(w, "exited")
  /\ UNCHANGED <<item, life, crashes, worked, orphans, storeVars>>

Break(w) ==
  /\ pc[w] = "work"
  /\ item[w] = Eoq
  /\ Goto(w, "exited")
  /\ UNCHANGED <<item, life, crashes, worked, orphans, storeVars>>

WorkItem(w) == item[w] # Eoq /\ Work(w)

Complete(w) == CompleteRem(w) \/ CompleteDel(w)

WorkerStep(w) == Turn(w) \/ Lease(w) \/ Break(w) \/ WorkItem(w) \/ Complete(w)

WorkerRun(w) == WorkerStep(w) /\ UNCHANGED <<pubVars, eoqs>>

WorkerFails(w) == Crash(w) /\ UNCHANGED <<pubVars, eoqs>>

PublisherRuns == PubStep /\ UNCHANGED <<workerVars, eoqs>>

PublisherFails == PubCrash /\ UNCHANGED <<workerVars, eoqs>>

LeaseExpires(k) == Expire(k) /\ UNCHANGED <<pubVars, workerVars, eoqs>>

SendEoq ==
  /\ eoqs < MaxEoqs
  /\ RPush(Eoq)
  /\ eoqs' = eoqs + 1
  /\ UNCHANGED <<pubVars, workerVars>>

Terminated == PubOver /\ NobodyLeft /\ UNCHANGED vars

Next ==
  \/ PublisherRuns \/ PublisherFails
  \/ \E w \in Worker : WorkerRun(w) \/ WorkerFails(w)
  \/ \E k \in LeaseKey : LeaseExpires(k)
  \/ SendEoq
  \/ Terminated

Spec == Init /\ [][Next]_vars

(* Sequential processes take their next step; failures and EOQs need not   *)
(* come.                                                                   *)
Fairness == WF_vars(PublisherRuns) /\ \A w \in Worker : WF_vars(WorkerRun(w))

FairSpec == Spec /\ Fairness

-----------------------------------------------------------------------------
(* Safety *)

(* The loop ends before complete(): an EOQ that was taken stays in the     *)
(* processing list for good, and each stops one worker and no other,       *)
(* wherever that worker dies.                                              *)
OneEoqPerWorker ==
  /\ procQ[Eoq] = Cardinality({w \in Worker : item[w] = Eoq})
  /\ \A w \in Worker : pc[w] = "exited" => item[w] = Eoq
  /\ Eoq \notin worked

(* So as many EOQs and failures as workers are needed to stop them all. *)
StoppedByEach == NobodyLeft => eoqs + crashes >= Cardinality(Worker)

(* No item leaves the queue undone, and EOQ never leaves it. *)
Pool == INSTANCE TaskPool WITH
          Task <- Item,
          waiting <- Waiting,
          inProgress <- InProgress,
          finished <- worked,
          lost <- {}

ImplementsPool == Pool!PoolSpec

-----------------------------------------------------------------------------
(* Liveness *)

(* EOQs overtake items, so items wait when workers stop.  With a worker    *)
(* more than EOQs and failures every item that was published is worked on, *)
(* but those a worker died with.                                           *)
WorksThrough ==
  PubOver ~> \/ 1 .. (pubIdx - 1) \subseteq worked \cup orphans
             \/ eoqs + crashes >= Cardinality(Worker)

=============================================================================
