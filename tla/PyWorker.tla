------------------------------ MODULE PyWorker ------------------------------
(***************************************************************************)
(* The loop of "daemon.py --action=sub" around RedisSubscriber: the pods   *)
(* of the worker Job of gpu_workload_v2.                                   *)
(*                                                                         *)
(*   while not rds.empty():          CheckMain, CheckProc                  *)
(*       item = rds.lease(...)       Lease                                 *)
(*       time.sleep(2)               Work                                  *)
(*       rds.complete(item)          Complete                              *)
(***************************************************************************)
EXTENDS LeaseWorker

(* SHA-224 tells payloads apart. *)
ASSUME DigestAssumption == \A i, j \in Item : KeyOf[i] = KeyOf[j] => i = j

-----------------------------------------------------------------------------

(* Variants: empty() asks for the main list only; empty() is negated. *)
CheckMainOnly(w) ==
  /\ pc[w] = "check_main"
  /\ Goto(w, IF MainEmpty THEN "exited" ELSE "lease_pop")
  /\ UNCHANGED <<item, life, crashes, worked, orphans, storeVars>>

CheckMainNegated(w) ==
  /\ pc[w] = "check_main"
  /\ Goto(w, IF MainEmpty THEN "lease_pop" ELSE "check_proc")
  /\ UNCHANGED <<item, life, crashes, worked, orphans, storeVars>>

(* empty(): the second length is only asked for when the first is 0.  (The *)
(* call of empty() that daemon.py prints at the start changes nothing.)    *)
CheckMain(w) ==
  /\ pc[w] = "check_main"
  /\ Goto(w, IF MainEmpty THEN "check_proc" ELSE "lease_pop")
  /\ UNCHANGED <<item, life, crashes, worked, orphans, storeVars>>

CheckProc(w) ==
  /\ pc[w] = "check_proc"
  /\ Goto(w, IF ProcEmpty THEN "exited" ELSE "lease_pop")
  /\ UNCHANGED <<item, life, crashes, worked, orphans, storeVars>>

(* Every caller gives lease() a timeout and leaves blocking = True; the    *)
(* branches for the other arguments are not reached.                       *)
Lease(w) == LeasePop(w) \/ LeaseTimeout(w) \/ LeaseSet(w)

(* Variant: complete() sends DEL before LREM. *)
CompleteSwapped(w) ==
  \/ /\ pc[w] = "complete_rem"
     /\ Del(ItemKey(item[w]))
     /\ Goto(w, "complete_del")
     /\ UNCHANGED <<item, life, crashes, worked, orphans>>
  \/ /\ pc[w] = "complete_del"
     /\ LRemAll(item[w])
     /\ Goto(w, "check_main")
     /\ UNCHANGED <<item, life, crashes, worked, orphans>>

Complete(w) == CompleteRem(w) \/ CompleteDel(w)

WorkerStep(w) == CheckMain(w) \/ CheckProc(w) \/ Lease(w) \/ Work(w) \/ Complete(w)

=============================================================================
