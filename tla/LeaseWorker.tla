----------------------------- MODULE LeaseWorker -----------------------------
(***************************************************************************)
(* What a worker does with the lists and the leases: RedisSubscriber of    *)
(* cuda-redis-py/worker.py.  rds::Subscriber of cuda-redis-cpp sends the   *)
(* same commands in the same order.  When a worker looks for work and when *)
(* it leaves its loop differs from program to program and is not here.     *)
(*                                                                         *)
(* Every Redis command is one action, because a worker may lose the        *)
(* processor, or die, between any two of them:                             *)
(*                                                                         *)
(*   lease()       LeasePop or LeaseTimeout, then LeaseSet                 *)
(*   the work      Work                                                    *)
(*   complete()    CompleteRem, CompleteDel                                *)
(***************************************************************************)
EXTENDS RedisStore

CONSTANTS Worker,       \* the pods of the worker Job (parallelism)
          NoItem,       \* the pop was answered with nil
          KeyOf,        \* the digest or hash of each payload
          MaxCrashes    \* bound: failures of workers explored

ASSUME WorkerAssumption ==
  /\ Worker # {}
  /\ NoItem \notin Item
  /\ NoLease \notin Worker \X Nat
  /\ KeyOf \in [Item -> LeaseKey]
  /\ MaxCrashes \in Nat

VARIABLES pc,        \* the next command of each worker
          item,      \* the local variable item of the loop
          life,      \* how often the pod was restarted
          crashes,   \* failures of workers so far
          worked,    \* history: items some worker finished the work on
          orphans    \* history: items whose worker died with them

workerVars == <<pc, item, life, crashes, worked, orphans>>

ItemKey(i) == KeyOf[i]

(* Each process draws a fresh uuid4; a restarted pod is a new process. *)
Session(w) == <<w, life[w]>>

PC == {"check_main", "check_proc", "lease_pop", "lease_set", "work",
       "complete_rem", "complete_del", "exited", "down"}

WorkerTypeOK ==
  /\ pc \in [Worker -> PC]
  /\ item \in [Worker -> Item \cup {NoItem}]
  /\ life \in [Worker -> Nat]
  /\ crashes \in Nat
  /\ worked \subseteq Item
  /\ orphans \subseteq Item

WorkerInit ==
  /\ pc = [w \in Worker |-> "check_main"]
  /\ item = [w \in Worker |-> NoItem]
  /\ life = [w \in Worker |-> 0]
  /\ crashes = 0
  /\ worked = {}
  /\ orphans = {}

(* w took i off the main list and has not yet told the server that it is   *)
(* complete.                                                               *)
Holds(w, i) ==
  /\ pc[w] \in {"lease_set", "work", "complete_rem"}
  /\ item[w] = i

Goto(w, label) == pc' = [pc EXCEPT ![w] = label]

-----------------------------------------------------------------------------

(* Variants: two commands, a read and a push, in place of BRPOPLPUSH, so   *)
(* that the item stays on the main list; BRPOP, which keeps no record of   *)
(* it; an item that counts as complete once it is leased.                  *)
LeasePopCopies(w) ==
  /\ pc[w] = "lease_pop"
  /\ CopyRightmost
  /\ item' = [item EXCEPT ![w] = Rightmost]
  /\ Goto(w, "lease_set")
  /\ UNCHANGED <<life, crashes, worked, orphans>>

LeasePopForgets(w) ==
  /\ pc[w] = "lease_pop"
  /\ RPopOnly
  /\ item' = [item EXCEPT ![w] = Rightmost]
  /\ Goto(w, "lease_set")
  /\ UNCHANGED <<life, crashes, worked, orphans>>

LeaseCompletes(w) ==
  /\ pc[w] = "lease_set"
  /\ SetEx(ItemKey(item[w]), Session(w))
  /\ Goto(w, "complete_rem")
  /\ UNCHANGED <<item, life, crashes, worked, orphans>>

(* lease(): BRPOPLPUSH moves an item as soon as there is one ... *)
LeasePop(w) ==
  /\ pc[w] = "lease_pop"
  /\ RPopLPush
  /\ item' = [item EXCEPT ![w] = Rightmost]
  /\ Goto(w, "lease_set")
  /\ UNCHANGED <<life, crashes, worked, orphans>>

(* ... and is answered with nil when the timeout is over.                  *)
LeaseTimeout(w) ==
  /\ pc[w] = "lease_pop"
  /\ MainEmpty
  /\ item' = [item EXCEPT ![w] = NoItem]
  /\ Goto(w, "check_main")
  /\ UNCHANGED <<life, crashes, worked, orphans, storeVars>>

(* lease(): SETEX with the session as value *)
LeaseSet(w) ==
  /\ pc[w] = "lease_set"
  /\ SetEx(ItemKey(item[w]), Session(w))
  /\ Goto(w, "work")
  /\ UNCHANGED <<item, life, crashes, worked, orphans>>

(* The work itself, time.sleep(2) *)
Work(w) ==
  /\ pc[w] = "work"
  /\ worked' = worked \cup {item[w]}
  /\ Goto(w, "complete_rem")
  /\ UNCHANGED <<item, life, crashes, orphans, storeVars>>

(* Variants: complete() without the LREM; complete() without the DEL. *)
CompleteNoRem(w) ==
  /\ pc[w] = "complete_rem"
  /\ Goto(w, "complete_del")
  /\ UNCHANGED <<item, life, crashes, worked, orphans, storeVars>>

CompleteNoDel(w) ==
  /\ pc[w] = "complete_del"
  /\ Goto(w, "check_main")
  /\ UNCHANGED <<item, life, crashes, worked, orphans, storeVars>>

(* complete(): LREM, then DEL *)
CompleteRem(w) ==
  /\ pc[w] = "complete_rem"
  /\ LRemAll(item[w])
  /\ Goto(w, "complete_del")
  /\ UNCHANGED <<item, life, crashes, worked, orphans>>

CompleteDel(w) ==
  /\ pc[w] = "complete_del"
  /\ Del(ItemKey(item[w]))
  /\ Goto(w, "check_main")
  /\ UNCHANGED <<item, life, crashes, worked, orphans>>

-----------------------------------------------------------------------------

(* The process dies, or a command raises: the container ends with an error *)
(* and the kubelet starts it again (restartPolicy: OnFailure).  A command  *)
(* the server executed without the answer arriving is a failure in the     *)
(* state that follows the command.                                         *)
Crash(w) ==
  /\ pc[w] \notin {"exited", "down"}
  /\ crashes < MaxCrashes
  /\ crashes' = crashes + 1
  /\ orphans' = orphans \cup {i \in Item : Holds(w, i)}
  /\ Goto(w, "down")
  /\ UNCHANGED <<item, life, worked, storeVars>>

Restart(w) ==
  /\ pc[w] = "down"
  /\ life' = [life EXCEPT ![w] = @ + 1]
  /\ item' = [item EXCEPT ![w] = NoItem]
  /\ Goto(w, "check_main")
  /\ UNCHANGED <<crashes, worked, orphans, storeVars>>

=============================================================================
