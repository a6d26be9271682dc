------------------------------ MODULE CppWorker ------------------------------
(***************************************************************************)
(* The loop of sub_daemon.cpp around rds::Subscriber: the pods of the      *)
(* worker Job of gpu_workload_v1.  lease() and complete() send the         *)
(* commands of worker.py, keyed by std::hash, which may give two payloads  *)
(* one key; empty() is another function: it is true when both lists have   *)
(* an element.                                                             *)
(***************************************************************************)
EXTENDS LeaseWorker

(* Variants: a worker leaves when the processing list is empty; a worker   *)
(* leaves as soon as the main list has an element.                         *)
CheckProcEmpty(w) ==
  /\ pc[w] = "check_proc"
  /\ Goto(w, IF ProcEmpty THEN "exited" ELSE "lease_pop")
  /\ UNCHANGED <<item, life, crashes, worked, orphans, storeVars>>

CheckMainOr(w) ==
  /\ pc[w] = "check_main"
  /\ Goto(w, IF MainEmpty THEN "check_proc" ELSE "exited")
  /\ UNCHANGED <<item, life, crashes, worked, orphans, storeVars>>

(* empty(): llen(main) && llen(processing); the second length is only      *)
(* asked for when the first is not 0.  (The call of empty() before the     *)
(* loop changes nothing.)                                                  *)
CheckMain(w) ==
  /\ pc[w] = "check_main"
  /\ Goto(w, IF MainEmpty THEN "lease_pop" ELSE "check_proc")
  /\ UNCHANGED <<item, life, crashes, worked, orphans, storeVars>>

CheckProc(w) ==
  /\ pc[w] = "check_proc"
  /\ Goto(w, IF ProcEmpty THEN "lease_pop" ELSE "exited")
  /\ UNCHANGED <<item, life, crashes, worked, orphans, storeVars>>

(* The default arguments: blocking, with a timeout of two seconds. *)
Lease(w) == LeasePop(w) \/ LeaseTimeout(w) \/ LeaseSet(w)

Complete(w) == CompleteRem(w) \/ CompleteDel(w)

WorkerStep(w) == CheckMain(w) \/ CheckProc(w) \/ Lease(w) \/ Work(w) \/ Complete(w)

=============================================================================
