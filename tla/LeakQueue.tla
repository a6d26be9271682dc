----------------------------- MODULE LeakQueue -----------------------------
(***************************************************************************)
(* testbed/redis-consumer-c, as docker-compose-v3.yaml starts it.          *)
(* _rpoplpush() gets the caller's pointer by value: the item the server    *)
(* moved is copied to a buffer that nobody else ever sees.  To lease() and *)
(* to the loop the item is always nullptr, so SETEX, the work, LREM and    *)
(* DEL are never reached and are not here:                                 *)
(*                                                                         *)
(*   if (q.empty()) exit(139)      FirstMain, FirstProc                    *)
(*   while (!q.empty())            CheckMain, CheckProc                    *)
(*       q.lease(item)             LeasePop, LeaseNothing                  *)
(*                                                                         *)
(* The consumer is started again when it ends with an error; the producer  *)
(* is not.                                                                 *)
(***************************************************************************)
EXTENDS HiredisQueue

vars == <<storeVars, pubVars, linkVars, pc>>

TypeOK ==
  /\ StoreTypeOK({})
  /\ PubTypeOK
  /\ pc \in [Consumer -> {"first_main", "first_proc", "check_main", "check_proc",
                          "lease_pop", "exited", "down"}]
  /\ linked \in [Consumer -> BOOLEAN]
  /\ losses \in Nat

Init ==
  /\ StoreInit
  /\ PubInit
  /\ pc = [c \in Consumer |-> "first_main"]
  /\ linked = [c \in Consumer |-> TRUE]
  /\ losses = 0

-----------------------------------------------------------------------------

FirstMain(c) == AskMain(c, "first_main", "check_main", "first_proc")

(* exit(139) is an error to docker. *)
FirstProc(c) == AskProc(c, "first_proc", "check_main", "down")

(* Variant of empty(): both lists have to be empty. *)
CheckProcEmpty(c) == AskProc(c, "check_proc", "exited", "lease_pop")

CheckMain(c) == AskMain(c, "check_main", "lease_pop", "check_proc")

CheckProc(c) == AskProc(c, "check_proc", "lease_pop", "exited")

(* Variant: RPOP, which has no list to push the item to. *)
LeasePopForgets(c) ==
  /\ pc[c] = "lease_pop"
  /\ linked[c]
  /\ RPopOnly
  /\ Goto(c, "check_main")
  /\ UNCHANGED <<pubVars, linkVars>>

(* The item is now in the processing list and in no variable of the loop,  *)
(* which prints "Waiting for work...".                                     *)
LeasePop(c) ==
  /\ pc[c] = "lease_pop"
  /\ linked[c]
  /\ RPopLPush
  /\ Goto(c, "check_main")
  /\ UNCHANGED <<pubVars, linkVars>>

LeaseNothing(c) ==
  /\ pc[c] = "lease_pop"
  /\ NothingPopped(c)
  /\ Goto(c, "check_main")
  /\ UNCHANGED <<storeVars, pubVars, linkVars>>

ConsumerRun(c) ==
  \/ FirstMain(c) \/ FirstProc(c)
  \/ CheckMain(c) \/ CheckProc(c)
  \/ LeasePop(c) \/ LeaseNothing(c)

-----------------------------------------------------------------------------

Running(c) == pc[c] \notin {"exited", "down"}

(* An answer that is lost makes no difference: LeasePop uses none. *)
LinkBreaks(c) ==
  /\ Running(c)
  /\ LoseLink(c)
  /\ UNCHANGED <<storeVars, pubVars, pc>>

(* The process dies, or cannot connect when it starts. *)
Die(c) ==
  /\ Running(c)
  /\ losses < MaxLosses
  /\ losses' = losses + 1
  /\ Goto(c, "down")
  /\ UNCHANGED <<storeVars, pubVars, linked>>

(* restart: on-failure *)
Restart(c) ==
  /\ pc[c] = "down"
  /\ linked' = [linked EXCEPT ![c] = TRUE]
  /\ Goto(c, "first_main")
  /\ UNCHANGED <<storeVars, pubVars, losses>>

ProducerStep == Produce /\ UNCHANGED <<linkVars, pc>>

ProducerFails == ProducerDies /\ UNCHANGED <<linkVars, pc>>

Terminated ==
  /\ ProducerOver
  /\ \A c \in Consumer : pc[c] = "exited"
  /\ UNCHANGED vars

Next ==
  \/ ProducerStep \/ ProducerFails
  \/ \E c \in Consumer : ConsumerRun(c) \/ LinkBreaks(c) \/ Die(c) \/ Restart(c)
  \/ Terminated

Spec == Init /\ [][Next]_vars

(* Sequential processes take their next step, docker restarts what ended   *)
(* with an error; failures are not fair.                                   *)
Fairness ==
  /\ WF_vars(ProducerStep)
  /\ \A c \in Consumer : WF_vars(ConsumerRun(c)) /\ WF_vars(Restart(c))

FairSpec == Spec /\ Fairness

-----------------------------------------------------------------------------
(* Safety *)

(* The leaked items are not lost to the server: whatever was published is  *)
(* in one of the lists, once, through failures and restarts.               *)
NothingIsLost ==
  \A i \in 1 .. (pubIdx - 1) : procQ[i] = IF InMain(i) THEN 0 ELSE 1

(* A consumer whose connection works never ends well before an item leaked *)
(* into the processing list.                                               *)
ExitLeavesItemsBehind ==
  \A c \in Consumer : pc[c] = "exited" /\ linked[c] => ~ ProcEmpty

-----------------------------------------------------------------------------
(* Liveness *)

(* Of the consumers of a queue that has items one ends well, although the  *)
(* others may find the main list empty each time they are restarted and    *)
(* end with 139 for ever.                                                  *)
SomeoneFinishes ==
  (~ MainEmpty) ~> ((\E c \in Consumer : pc[c] = "exited") \/ losses > 0)

-----------------------------------------------------------------------------
(* What a message of the program says and the program does not do.         *)

(* main.cpp prints "All items processed, exiting..." when it leaves.       *)
ExitMeansAllProcessed ==
  [][\A c \in Consumer : pc[c] # "exited" /\ pc'[c] = "exited" =>
       MainEmpty /\ ProcEmpty]_vars

=============================================================================
