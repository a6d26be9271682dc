------------------------------ MODULE EndQueue ------------------------------
(***************************************************************************)
(* testbed/c-hiredis-combined (the consumer of c-hiredis-consumer is the   *)
(* same source): lease() copies the item, or the word END when there is    *)
(* none, into a buffer of the caller, and END ends the loop:               *)
(*                                                                         *)
(*   while (!q.empty())            CheckMain, CheckProc                    *)
(*       q.lease(item)             LeasePop, LeaseSet or LeaseEnd          *)
(*       if (item is not END)                                              *)
(*           sleep(2)              Work                                    *)
(*           q.complete(item)      CompleteRem, CompleteDel                *)
(*       else break                                                        *)
(*                                                                         *)
(* Nobody starts a consumer again.                                         *)
(***************************************************************************)
EXTENDS HiredisQueue

CONSTANTS End,      \* the word in the buffer when there is no item
          KeyOf     \* std::hash of each payload

ASSUME BufferAssumption ==
  /\ End \notin Item
  /\ KeyOf \in [Item -> LeaseKey]

VARIABLES item,     \* the buffer of the consumer
          worked,   \* history: items the work was done on
          stray     \* history: items whose consumer died or lost its link

vars == <<storeVars, pubVars, linkVars, pc, item, worked, stray>>

TypeOK ==
  /\ StoreTypeOK(Item)
  /\ PubTypeOK
  /\ pc \in [Consumer -> {"check_main", "check_proc", "lease_pop", "lease_set", "work",
                          "complete_rem", "complete_del", "exited", "dead"}]
  /\ linked \in [Consumer -> BOOLEAN]
  /\ losses \in Nat
  /\ item \in [Consumer -> Item \cup {End}]
  /\ worked \subseteq Item
  /\ stray \subseteq Item

Init ==
  /\ StoreInit
  /\ PubInit
  /\ pc = [c \in Consumer |-> "check_main"]
  /\ linked = [c \in Consumer |-> TRUE]
  /\ losses = 0
  /\ item = [c \in Consumer |-> End]
  /\ worked = {}
  /\ stray = {}

(* c took i and the server was not yet told that it is complete. *)
Holds(c, i) ==
  /\ pc[c] \in {"lease_set", "work", "complete_rem"}
  /\ item[c] = i

-----------------------------------------------------------------------------

(* Variant of empty(): true as soon as the main list has an element. *)
CheckMainOr(c) ==
  /\ AskMain(c, "check_main", "exited", "check_proc")
  /\ UNCHANGED <<item, worked, stray>>

CheckMain(c) ==
  /\ AskMain(c, "check_main", "lease_pop", "check_proc")
  /\ UNCHANGED <<item, worked, stray>>

CheckProc(c) ==
  /\ AskProc(c, "check_proc", "lease_pop", "exited")
  /\ UNCHANGED <<item, worked, stray>>

LeasePop(c) ==
  /\ pc[c] = "lease_pop"
  /\ linked[c]
  /\ RPopLPush
  /\ item' = [item EXCEPT ![c] = Rightmost]
  /\ Goto(c, "lease_set")
  /\ UNCHANGED <<pubVars, linkVars, worked, stray>>

(* Variant: END is taken for "wait some more". *)
LeaseAgain(c) ==
  /\ pc[c] = "lease_pop"
  /\ NothingPopped(c)
  /\ item' = [item EXCEPT ![c] = End]
  /\ Goto(c, "check_main")
  /\ UNCHANGED <<storeVars, pubVars, linkVars, worked, stray>>

LeaseEnd(c) ==
  /\ pc[c] = "lease_pop"
  /\ NothingPopped(c)
  /\ item' = [item EXCEPT ![c] = End]
  /\ Goto(c, "exited")
  /\ UNCHANGED <<storeVars, pubVars, linkVars, worked, stray>>

(* Variant: an item counts as complete once it is leased. *)
LeaseCompletes(c) ==
  /\ pc[c] = "lease_set"
  /\ Send(c, SetEx(KeyOf[item[c]], item[c]))
  /\ Goto(c, "complete_rem")
  /\ UNCHANGED <<pubVars, linkVars, item, worked, stray>>

(* SETEX with the item itself as value *)
LeaseSet(c) ==
  /\ pc[c] = "lease_set"
  /\ Send(c, SetEx(KeyOf[item[c]], item[c]))
  /\ Goto(c, "work")
  /\ UNCHANGED <<pubVars, linkVars, item, worked, stray>>

Work(c) ==
  /\ pc[c] = "work"
  /\ worked' = worked \cup {item[c]}
  /\ Goto(c, "complete_rem")
  /\ UNCHANGED <<storeVars, pubVars, linkVars, item, stray>>

(* Variants of complete(): LREM or DEL left out. *)
CompleteNoRem(c) ==
  /\ pc[c] = "complete_rem"
  /\ Goto(c, "complete_del")
  /\ UNCHANGED <<storeVars, pubVars, linkVars, item, worked, stray>>

CompleteNoDel(c) ==
  /\ pc[c] = "complete_del"
  /\ Goto(c, "check_main")
  /\ UNCHANGED <<storeVars, pubVars, linkVars, item, worked, stray>>

CompleteRem(c) ==
  /\ pc[c] = "complete_rem"
  /\ Send(c, LRemAll(item[c]))
  /\ Goto(c, "complete_del")
  /\ UNCHANGED <<pubVars, linkVars, item, worked, stray>>

CompleteDel(c) ==
  /\ pc[c] = "complete_del"
  /\ Send(c, Del(KeyOf[item[c]]))
  /\ Goto(c, "check_main")
  /\ UNCHANGED <<pubVars, linkVars, item, worked, stray>>

ConsumerRun(c) ==
  \/ CheckMain(c) \/ CheckProc(c)
  \/ LeasePop(c) \/ LeaseEnd(c) \/ LeaseSet(c)
  \/ Work(c)
  \/ CompleteRem(c) \/ CompleteDel(c)

-----------------------------------------------------------------------------

Running(c) == pc[c] \notin {"exited", "dead"}

HeldBy(c) == {i \in Item : Holds(c, i)}

LinkBreaks(c) ==
  /\ Running(c)
  /\ LoseLink(c)
  /\ stray' = stray \cup HeldBy(c)
  /\ UNCHANGED <<storeVars, pubVars, pc, item, worked>>

(* The connection breaks after the server moved an item and before the     *)
(* answer arrives: END, like an empty queue.                               *)
PopUnanswered(c) ==
  /\ pc[c] = "lease_pop"
  /\ LoseLink(c)
  /\ RPopLPush
  /\ item' = [item EXCEPT ![c] = End]
  /\ stray' = stray \cup {Rightmost}
  /\ Goto(c, "exited")
  /\ UNCHANGED <<pubVars, worked>>

Die(c) ==
  /\ Running(c)
  /\ losses < MaxLosses
  /\ losses' = losses + 1
  /\ stray' = stray \cup HeldBy(c)
  /\ Goto(c, "dead")
  /\ UNCHANGED <<storeVars, pubVars, linked, item, worked>>

LeaseExpires(k) == Expire(k) /\ UNCHANGED <<pubVars, linkVars, pc, item, worked, stray>>

ProducerStep == Produce /\ UNCHANGED <<linkVars, pc, item, worked, stray>>

ProducerFails == ProducerDies /\ UNCHANGED <<linkVars, pc, item, worked, stray>>

Terminated ==
  /\ ProducerOver
  /\ \A c \in Consumer : ~ Running(c)
  /\ \A k \in LeaseKey : leases[k] = NoLease
  /\ UNCHANGED vars

Next ==
  \/ ProducerStep \/ ProducerFails
  \/ \E c \in Consumer : ConsumerRun(c) \/ LinkBreaks(c) \/ PopUnanswered(c) \/ Die(c)
  \/ \E k \in LeaseKey : LeaseExpires(k)
  \/ Terminated

Spec == Init /\ [][Next]_vars

(* Sequential processes take their next step; failures are not fair. *)
Fairness == WF_vars(ProducerStep) /\ \A c \in Consumer : WF_vars(ConsumerRun(c))

FairSpec == Spec /\ Fairness

-----------------------------------------------------------------------------
(* Safety *)

(* The processing list holds what consumers have in their hands, one copy  *)
(* each; anything else in it was left there by a consumer that died or     *)
(* lost its connection.                                                    *)
ProcessingIsHeld ==
  \A i \in Item :
    /\ procQ[i] > 0 /\ i \notin stray => \E c \in Consumer : Holds(c, i)
    /\ \A c \in Consumer : Holds(c, i) => procQ[i] = 1

(* However the consumers raced each other out of the loop, and even if     *)
(* their hashes are the same: without a failure they leave no item in the  *)
(* processing list and no lease.                                           *)
LeaveNothingBehind ==
  losses = 0 /\ (\A c \in Consumer : pc[c] = "exited") =>
    ProcEmpty /\ \A k \in LeaseKey : leases[k] = NoLease

(* No item leaves the queue undone. *)
Pool == INSTANCE TaskPool WITH
          Task <- Item,
          waiting <- Waiting,
          inProgress <- InProgress,
          finished <- worked,
          lost <- {}

ImplementsPool == Pool!PoolSpec

-----------------------------------------------------------------------------
(* Liveness *)

(* END ends every consumer, whatever _llen() returns without a reply.      *)
EveryoneLeaves == <>(\A c \in Consumer : ~ Running(c))

(* A consumer that looks when the producer is over drains the main list,   *)
(* unless a consumer failed.                                               *)
DrainedAfterProducing ==
  (ProducerOver /\ \E c \in Consumer : pc[c] = "check_main") ~> (MainEmpty \/ losses > 0)

=============================================================================
