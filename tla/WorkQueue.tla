------------------------------ MODULE WorkQueue ------------------------------
(***************************************************************************)
(* The work queue seen from outside the programs: one publisher, workers   *)
(* that lease and complete, the Redis server, and what goes wrong around   *)
(* them.  How a worker finds out whether the queue is empty is left open:  *)
(* it may go on or leave whenever it looks.  PyWorkQueue and CppWorkQueue  *)
(* say how each program decides; whatever is proved here holds of both.    *)
(***************************************************************************)
EXTENDS Publisher, LeaseWorker

CONSTANT MaxServerRestarts   \* bound: restarts of the Redis pod explored

ASSUME ServerAssumption == MaxServerRestarts \in Nat

VARIABLES wipes,   \* restarts of the server so far
          lost     \* history: items that were in one of the lists then

serverVars == <<wipes, lost>>
queueVars == <<storeVars, pubVars, workerVars, serverVars>>

ServerTypeOK == wipes \in Nat /\ lost \subseteq Item

QueueTypeOK ==
  /\ StoreTypeOK(Worker \X Nat)
  /\ PubTypeOK
  /\ WorkerTypeOK
  /\ ServerTypeOK

QueueInit == StoreInit /\ PubInit /\ WorkerInit /\ wipes = 0 /\ lost = {}

-----------------------------------------------------------------------------
(* What every program has around its workers *)

PublisherRuns == PubStep /\ UNCHANGED <<workerVars, serverVars>>

PublisherFails == PubCrash /\ UNCHANGED <<workerVars, serverVars>>

PublisherRestarts == PubRestart /\ UNCHANGED <<workerVars, serverVars>>

PublisherNext == PublisherRuns \/ PublisherFails \/ PublisherRestarts

WorkerFails(w) == Crash(w) /\ UNCHANGED <<pubVars, serverVars>>

WorkerRestarts(w) == Restart(w) /\ UNCHANGED <<pubVars, serverVars>>

LeaseExpires(k) == Expire(k) /\ UNCHANGED <<pubVars, workerVars, serverVars>>

(* The kubelet starts the failed Redis container again.  A client that     *)
(* waits for an answer meanwhile fails, which is WorkerFails or            *)
(* PublisherFails.  Of those that are busy with other things redis-py      *)
(* connects again with its next command and notices nothing; redis++       *)
(* throws on the next command, which is WorkerFails or PublisherFails too. *)
(* The model allows both of either program.                                *)
ServerRestarts ==
  /\ wipes < MaxServerRestarts
  /\ Wipe
  /\ wipes' = wipes + 1
  /\ lost' = lost \cup Waiting \cup InProgress
  /\ UNCHANGED <<pubVars, workerVars>>

Surroundings ==
  \/ PublisherNext
  \/ \E w \in Worker : WorkerFails(w) \/ WorkerRestarts(w)
  \/ \E k \in LeaseKey : LeaseExpires(k)
  \/ ServerRestarts

AllExited == \A w \in Worker : pc[w] = "exited"

(* Both Jobs are complete and nothing is left to expire. *)
Ended ==
  /\ PubDone
  /\ AllExited
  /\ \A k \in LeaseKey : leases[k] = NoLease

-----------------------------------------------------------------------------
(* The worker that decides by itself when to go on *)

(* empty(), whatever it answers: a worker reads lengths and goes to ask    *)
(* for the other length, to lease() or out of the loop.                    *)
Look(w) ==
  /\ pc[w] \in {"check_main", "check_proc"}
  /\ \E label \in {"check_proc", "lease_pop", "exited"} : Goto(w, label)
  /\ UNCHANGED <<item, life, crashes, worked, orphans, storeVars>>

LeasingStep(w) ==
  \/ LeasePop(w) \/ LeaseTimeout(w) \/ LeaseSet(w)
  \/ Work(w)
  \/ CompleteRem(w) \/ CompleteDel(w)

WorkerActs(w) == (Look(w) \/ LeasingStep(w)) /\ UNCHANGED <<pubVars, serverVars>>

QueueNext == Surroundings \/ \E w \in Worker : WorkerActs(w)

QueueSpec == QueueInit /\ [][QueueNext]_queueVars

-----------------------------------------------------------------------------
(* What holds of every such queue *)

(* An item a worker is busy with is in the processing list (LREM has not   *)
(* removed it), or the same payload has been worked on already, or the     *)
(* server was restarted; and an item in the processing list is in a        *)
(* worker's hands or was in the hands of a worker that died: BRPOPLPUSH,   *)
(* LREM and the process agree on what is in progress.                      *)
InProgressAccounted ==
  \A i \in Item :
    /\ \A w \in Worker : Holds(w, i) => procQ[i] > 0 \/ i \in worked \cup lost
    /\ procQ[i] > 0 => (\E w \in Worker : Holds(w, i)) \/ i \in orphans

(* The session written by SETEX is that of a running worker only while it  *)
(* works on an item of that key: complete() takes the lease back before    *)
(* the worker looks for other work.                                        *)
LeasesNameHolders ==
  \A w \in Worker, k \in LeaseKey :
    leases[k] = Session(w) =>
      /\ pc[w] \in {"work", "complete_rem", "complete_del", "down"}
      /\ item[w] \in Item /\ ItemKey(item[w]) = k

(* The publisher was not started again.  (It may have failed.)             *)
FirstRun == pubRestarts = 0 \/ (pubRestarts = 1 /\ pubPc = "down")

(* As long as the publisher did not have to start again, every item is     *)
(* handed out at most once, whatever the workers do and however they die:  *)
(* it is not waiting once it is in progress or done, it is in the          *)
(* processing list once, and one worker at most holds it.                  *)
SingleDelivery ==
  FirstRun =>
    \A i \in Item :
      /\ InMain(i) => procQ[i] = 0 /\ i \notin worked
      /\ procQ[i] <= 1
      /\ \A v, w \in Worker : Holds(v, i) /\ Holds(w, i) => v = w

(* What was pushed waits, is in progress, or was worked on: RPUSH,         *)
(* BRPOPLPUSH and LREM hand every item over without a gap, however workers *)
(* and publisher fail.  Only a restart of the server loses items, and      *)
(* those only that were in its lists.                                      *)
NothingVanishes ==
  1 .. (pubIdx - 1) \subseteq Waiting \cup InProgress \cup worked \cup lost

(* The queue keeps the promise of TaskPool: no item leaves it undone but   *)
(* in a restart of the server.                                             *)
Pool == INSTANCE TaskPool WITH
          Task <- Item,
          waiting <- Waiting,
          inProgress <- InProgress,
          finished <- worked

ImplementsPool == Pool!PoolSpec

=============================================================================
