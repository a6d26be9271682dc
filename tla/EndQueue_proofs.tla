--------------------------- MODULE EndQueue_proofs ---------------------------
(***************************************************************************)
(* Theorems about EndQueue for every number of consumers, items and        *)
(* failures and every hash; nothing is assumed about fairness.             *)
(***************************************************************************)
EXTENDS EndQueue, RedisStore_proofs

LEMMA CountNat == Count \in Nat /\ Count >= 1
BY PublisherAssumption

LEMMA Published == ASSUME NEW n \in Nat, 1 <= n, n < Count PROVE n \in Item
<1>1. n \in 1 .. (Count - 1)
  BY CountNat
<1> QED
  BY <1>1, PublisherAssumption

Label == {"check_main", "check_proc", "lease_pop", "lease_set", "work",
          "complete_rem", "complete_del", "exited", "dead"}

Busy(c) == pc[c] \in {"lease_set", "work", "complete_rem"}

consumerVars == <<pc, linked, losses, item, worked, stray>>

(* The steps a consumer takes without an item, and without the server      *)
Idle(c) == CheckMain(c) \/ CheckProc(c) \/ LeaseEnd(c)

(* The commands of a consumer that leave the lists alone, and the work     *)
Going(c) == LeaseSet(c) \/ Work(c) \/ CompleteDel(c)

LEMMA StepCases ==
  ASSUME [Next]_vars
  PROVE  \/ \E c \in Consumer : \/ Idle(c) \/ LeasePop(c) \/ Going(c) \/ CompleteRem(c)
                                \/ LinkBreaks(c) \/ PopUnanswered(c) \/ Die(c)
         \/ ProducerStep /\ Publish
         \/ /\ UNCHANGED <<mainQ, procQ, consumerVars>>
            /\ \/ ProducerStep /\ PubExit
               \/ ProducerFails
               \/ UNCHANGED vars
               \/ \E k \in LeaseKey : LeaseExpires(k)
BY DEF Next, ConsumerRun, Idle, Going, Terminated, vars, consumerVars, linkVars, storeVars,
       ProducerStep, Produce, PubStep, PubExit, ProducerFails, ProducerDies, PubCrash,
       LeaseExpires, Expire, Del

-----------------------------------------------------------------------------
(* What each kind of step does *)

LEMMA IdleEffect ==
  ASSUME NEW c \in Consumer, Idle(c)
  PROVE  /\ UNCHANGED <<storeVars, pubVars, linkVars, worked, stray>>
         /\ pc[c] \in {"check_main", "check_proc", "lease_pop"}
         /\ \E label \in {"check_proc", "lease_pop", "exited"} : pc' = [pc EXCEPT ![c] = label]
         /\ item' = item \/ item' = [item EXCEPT ![c] = End]
BY DEF Idle, CheckMain, CheckProc, AskMain, AskProc, LeaseEnd, Goto

LEMMA GoingEffect ==
  ASSUME NEW c \in Consumer, Going(c)
  PROVE  /\ UNCHANGED <<mainQ, procQ, pubVars, linkVars, item, stray>>
         /\ \/ pc[c] = "lease_set" /\ pc' = [pc EXCEPT ![c] = "work"] /\ worked' = worked
            \/ pc[c] = "work" /\ pc' = [pc EXCEPT ![c] = "complete_rem"]
                 /\ worked' = worked \cup {item[c]}
            \/ pc[c] = "complete_del" /\ pc' = [pc EXCEPT ![c] = "check_main"] /\ worked' = worked
BY DEF Going, LeaseSet, Work, CompleteDel, Send, SetEx, Del, storeVars, Goto

LEMMA PopEffect ==
  ASSUME NEW c \in Consumer, LeasePop(c) \/ PopUnanswered(c), StoreTypeOK(Item)
  PROVE  /\ pc[c] = "lease_pop" /\ linked[c] /\ RPopLPush /\ Rightmost \in Item
         /\ UNCHANGED <<leases, pubVars, worked>> /\ StoreTypeOK(Item)'
         /\ \/ /\ LeasePop(c) /\ UNCHANGED <<linkVars, stray>>
               /\ pc' = [pc EXCEPT ![c] = "lease_set"]
               /\ item' = [item EXCEPT ![c] = Rightmost]
            \/ /\ PopUnanswered(c) /\ stray' = stray \cup {Rightmost}
               /\ pc' = [pc EXCEPT ![c] = "exited"]
               /\ item' = [item EXCEPT ![c] = End]
               /\ losses' = losses + 1
               /\ linked' = [linked EXCEPT ![c] = FALSE]
BY RPopLPushEffect DEF LeasePop, PopUnanswered, LoseLink, RPopLPush, Goto

-----------------------------------------------------------------------------
(* Types, and that a consumer with something to lease or complete has an   *)
(* item.                                                                   *)

HasItem == \A c \in Consumer : Busy(c) \/ pc[c] = "complete_del" => item[c] \in Item

ConsumerTypeOK ==
  /\ pc \in [Consumer -> Label]
  /\ linked \in [Consumer -> BOOLEAN]
  /\ losses \in Nat
  /\ item \in [Consumer -> Item \cup {End}]
  /\ worked \subseteq Item
  /\ stray \subseteq Item
  /\ HasItem

TypeInv == StoreTypeOK(Item) /\ PubTypeOK /\ ConsumerTypeOK

LEMMA TypeInit == Init => TypeInv
BY CountNat DEF Init, StoreInit, PubInit, TypeInv, StoreTypeOK, PubTypeOK, ConsumerTypeOK, Label,
   HasItem, Busy

LEMMA ConsumerTypeStep == TypeInv /\ [Next]_vars => ConsumerTypeOK'
<1> SUFFICES ASSUME TypeInv, [Next]_vars PROVE ConsumerTypeOK'
  OBVIOUS
<1>0. ConsumerTypeOK /\ StoreTypeOK(Item)
  BY DEF TypeInv
<1> USE DEF ConsumerTypeOK, HasItem, Busy, Label
<1>1. ASSUME NEW c \in Consumer, Idle(c) PROVE ConsumerTypeOK'
  BY <1>0, <1>1, IdleEffect DEF linkVars
<1>2. ASSUME NEW c \in Consumer, LeasePop(c) \/ PopUnanswered(c) PROVE ConsumerTypeOK'
  <2>1. PICK r \in Item : r = Rightmost
    BY <1>0, <1>2, PopEffect
  <2>2. CASE LeasePop(c)
    <3>1. /\ linked' = linked /\ losses' = losses /\ stray' = stray /\ worked' = worked
          /\ pc' = [pc EXCEPT ![c] = "lease_set"] /\ item' = [item EXCEPT ![c] = r]
      BY <2>1, <2>2 DEF LeasePop, Goto, linkVars
    <3> QED
      BY <1>0, <3>1
  <2>3. CASE PopUnanswered(c)
    <3>1. /\ stray' = stray \cup {r} /\ worked' = worked /\ losses' = losses + 1
          /\ pc' = [pc EXCEPT ![c] = "exited"] /\ item' = [item EXCEPT ![c] = End]
          /\ linked' = [linked EXCEPT ![c] = FALSE]
      BY <2>1, <2>3 DEF PopUnanswered, LoseLink, Goto
    <3>2. HasItem'
      BY <1>0, <3>1
    <3>3. pc' \in [Consumer -> Label] /\ item' \in [Consumer -> Item \cup {End}]
      BY <1>0, <3>1
    <3>4. linked' \in [Consumer -> BOOLEAN]
      BY <1>0, <3>1
    <3> QED
      BY <1>0, <3>1, <3>2, <3>3, <3>4
  <2> QED
    BY <1>2, <2>2, <2>3
<1>3. ASSUME NEW c \in Consumer, Going(c) PROVE ConsumerTypeOK'
  BY <1>0, <1>3, GoingEffect DEF linkVars
<1>4. ASSUME NEW c \in Consumer, CompleteRem(c) PROVE ConsumerTypeOK'
  BY <1>0, <1>4 DEF CompleteRem, Goto, linkVars
<1>5. ASSUME NEW c \in Consumer, LinkBreaks(c) PROVE ConsumerTypeOK'
  BY <1>0, <1>5 DEF LinkBreaks, LoseLink, HeldBy
<1>6. ASSUME NEW c \in Consumer, Die(c) PROVE ConsumerTypeOK'
  BY <1>0, <1>6 DEF Die, HeldBy, Goto
<1>7. ASSUME UNCHANGED consumerVars PROVE ConsumerTypeOK'
  BY <1>0, <1>7 DEF consumerVars
<1>8. ASSUME ProducerStep PROVE ConsumerTypeOK'
  BY <1>7, <1>8 DEF ProducerStep, linkVars, consumerVars
<1> QED
  BY <1>1, <1>2, <1>3, <1>4, <1>5, <1>6, <1>7, <1>8, StepCases

LEMMA TypeStep == TypeInv /\ [Next]_vars => TypeInv'
<1> SUFFICES ASSUME TypeInv, [Next]_vars PROVE StoreTypeOK(Item)' /\ PubTypeOK'
  BY ConsumerTypeStep DEF TypeInv
<1>0. StoreTypeOK(Item) /\ PubTypeOK /\ HasItem
  BY DEF TypeInv, ConsumerTypeOK
<1>1. ASSUME NEW c \in Consumer, Idle(c) \/ LinkBreaks(c) \/ Die(c)
      PROVE  StoreTypeOK(Item)' /\ PubTypeOK'
  <2>1. UNCHANGED <<storeVars, pubVars>>
    BY <1>1, IdleEffect DEF LinkBreaks, Die
  <2> QED
    BY <1>0, <2>1 DEF storeVars, pubVars, StoreTypeOK, PubTypeOK
<1>2. ASSUME NEW c \in Consumer, LeasePop(c) \/ PopUnanswered(c)
      PROVE  StoreTypeOK(Item)' /\ PubTypeOK'
  <2>1. StoreTypeOK(Item)' /\ UNCHANGED pubVars
    BY <1>0, <1>2, PopEffect
  <2> QED
    BY <1>0, <2>1 DEF pubVars, PubTypeOK
<1>3. ASSUME NEW c \in Consumer, Going(c) \/ CompleteRem(c)
      PROVE  StoreTypeOK(Item)' /\ PubTypeOK'
  <2>1. CASE LeaseSet(c)
    <3>1. item[c] \in Item
      BY <1>0, <2>1 DEF LeaseSet, HasItem, Busy
    <3>2. PICK k : k = KeyOf[item[c]]
      OBVIOUS
    <3>3. UNCHANGED <<mainQ, procQ, pubVars>>
          /\ leases' \in {leases, [leases EXCEPT ![k] = item[c]]}
      BY <2>1, <3>2 DEF LeaseSet, Send, SetEx, storeVars
    <3> QED
      BY <1>0, <3>1, <3>3 DEF pubVars, StoreTypeOK, PubTypeOK
  <2>2. CASE Work(c)
    BY <1>0, <2>2 DEF Work, storeVars, pubVars, StoreTypeOK, PubTypeOK
  <2>3. CASE CompleteRem(c)
    <3>1. UNCHANGED <<mainQ, leases, pubVars>>
          /\ procQ' \in {procQ, [procQ EXCEPT ![item[c]] = 0]}
      BY <2>3 DEF CompleteRem, Send, LRemAll, storeVars
    <3> QED
      BY <1>0, <3>1 DEF pubVars, StoreTypeOK, PubTypeOK
  <2>4. CASE CompleteDel(c)
    <3>1. PICK k : k = KeyOf[item[c]]
      OBVIOUS
    <3>2. UNCHANGED <<mainQ, procQ, pubVars>>
          /\ leases' \in {leases, [leases EXCEPT ![k] = NoLease]}
      BY <2>4, <3>1 DEF CompleteDel, Send, Del, storeVars
    <3> QED
      BY <1>0, <3>2 DEF pubVars, StoreTypeOK, PubTypeOK
  <2> QED
    BY <1>3, <2>1, <2>2, <2>3, <2>4 DEF Going
<1>4. ASSUME ProducerStep, Publish PROVE StoreTypeOK(Item)' /\ PubTypeOK'
  <2>1. pubIdx \in Item
    BY <1>0, <1>4, Published, CountNat DEF Publish, PubTypeOK
  <2> QED
    BY <1>0, <1>4, <2>1, CountNat DEF Publish, RPush, StoreTypeOK, PubTypeOK
<1>5. ASSUME (ProducerStep /\ PubExit) \/ ProducerFails \/ UNCHANGED vars
               \/ \E k \in LeaseKey : LeaseExpires(k)
      PROVE  StoreTypeOK(Item)' /\ PubTypeOK'
  BY <1>0, <1>5 DEF PubExit, ProducerFails, ProducerDies, PubCrash, LeaseExpires, Expire, Del,
                    vars, storeVars, pubVars, StoreTypeOK, PubTypeOK
<1> QED
  BY <1>1, <1>2, <1>3, <1>4, <1>5, StepCases

(* Every variable keeps its type. *)
THEOREM EndTypeCorrect == Spec => []TypeOK
<1>1. TypeInv => TypeOK
  BY DEF TypeInv, ConsumerTypeOK, Label, TypeOK
<1> QED
  BY <1>1, TypeInit, TypeStep, PTL DEF Spec
-----------------------------------------------------------------------------
(* Items on the lists: on the main list once or in progress once, never    *)
(* both, and only if published.                                            *)

ListInv ==
  /\ MainDistinct
  /\ \A i \in Item : InMain(i) => i \in 1 .. (pubIdx - 1) /\ procQ[i] = 0
  /\ \A i \in Item : procQ[i] \in {0, 1} /\ (procQ[i] = 1 => i \in 1 .. (pubIdx - 1))

LEMMA ListInit == Init => ListInv
BY DEF Init, StoreInit, PubInit, ListInv, MainDistinct, InMain

LEMMA RemEffect ==
  ASSUME NEW c \in Consumer, CompleteRem(c)
  PROVE  /\ UNCHANGED <<mainQ, leases, pubVars, linkVars, item, worked, stray>>
         /\ pc[c] = "complete_rem" /\ pc' = [pc EXCEPT ![c] = "complete_del"]
         /\ IF linked[c] THEN procQ' = [procQ EXCEPT ![item[c]] = 0] ELSE procQ' = procQ
BY DEF CompleteRem, Send, LRemAll, storeVars, Goto

LEMMA ListStep == TypeInv /\ ListInv /\ [Next]_vars => ListInv'
<1> SUFFICES ASSUME TypeInv, ListInv, [Next]_vars PROVE ListInv'
  OBVIOUS
<1>0. StoreTypeOK(Item) /\ procQ \in [Item -> Nat] /\ pubIdx \in Nat /\ pubIdx >= 1 /\ HasItem
  BY CountNat DEF TypeInv, StoreTypeOK, PubTypeOK, ConsumerTypeOK
<1>1. ASSUME UNCHANGED <<mainQ, procQ, pubIdx>> PROVE ListInv'
  BY <1>1 DEF ListInv, MainDistinct, InMain
<1>2. ASSUME NEW c \in Consumer, LeasePop(c) \/ PopUnanswered(c) PROVE ListInv'
  <2>0. RPopLPush /\ UNCHANGED pubVars
    BY <1>0, <1>2, PopEffect
  <2>1. PICK r \in Item : r = Rightmost
    BY <1>0, <1>2, PopEffect
  <2>2. /\ MainDistinct' /\ InMain(r) /\ ~ InMain(r)'
        /\ \A i \in Item : i # r => (InMain(i)' <=> InMain(i))
    BY <1>0, <2>0, <2>1, DistinctAfterPop DEF ListInv
  <2>3. procQ' = [procQ EXCEPT ![r] = @ + 1] /\ pubIdx' = pubIdx
    BY <2>0, <2>1 DEF RPopLPush, pubVars
  <2> QED
    BY <1>0, <2>2, <2>3 DEF ListInv
<1>3. ASSUME NEW c \in Consumer, CompleteRem(c) PROVE ListInv'
  <2>1. /\ mainQ' = mainQ /\ pubIdx' = pubIdx
        /\ procQ' \in {procQ, [procQ EXCEPT ![item[c]] = 0]}
    BY <1>3, RemEffect DEF pubVars
  <2>2. \A i \in Item : procQ'[i] \in {procQ[i], 0} /\ (InMain(i)' <=> InMain(i))
    BY <1>0, <2>1 DEF InMain
  <2>3. MainDistinct'
    BY <2>1 DEF ListInv, MainDistinct
  <2> QED
    BY <2>1, <2>2, <2>3 DEF ListInv
<1>4. ASSUME ProducerStep, Publish PROVE ListInv'
  <2>1. PICK j \in Item : j = pubIdx
    BY <1>0, <1>4, Published DEF Publish
  <2>2. mainQ' = Append(mainQ, j) /\ procQ' = procQ /\ pubIdx' = j + 1
    BY <1>4, <2>1 DEF Publish, RPush
  <2>3. ~ InMain(j) /\ procQ[j] = 0
    BY <1>0, <2>1 DEF ListInv
  <2>4. MainDistinct' /\ \A i \in Item : InMain(i)' <=> InMain(i) \/ i = j
    BY <1>0, <2>2, <2>3, DistinctAfterPush DEF ListInv
  <2>5. \A i \in Item : i \in 1 .. (pubIdx' - 1) <=> i \in 1 .. (pubIdx - 1) \/ i = j
    BY <1>0, <2>1, <2>2
  <2> QED
    BY <2>2, <2>3, <2>4, <2>5 DEF ListInv
<1>5. ASSUME NEW c \in Consumer, Idle(c) \/ Going(c) \/ LinkBreaks(c) \/ Die(c) PROVE ListInv'
  <2>1. UNCHANGED <<mainQ, procQ, pubVars>>
    BY <1>5, IdleEffect, GoingEffect DEF LinkBreaks, Die, storeVars
  <2> QED
    BY <1>1, <2>1 DEF pubVars
<1>6. ASSUME UNCHANGED <<mainQ, procQ>>,
             (ProducerStep /\ PubExit) \/ ProducerFails \/ UNCHANGED vars
               \/ \E k \in LeaseKey : LeaseExpires(k)
      PROVE  ListInv'
  BY <1>1, <1>6 DEF PubExit, ProducerFails, ProducerDies, PubCrash, vars, pubVars, LeaseExpires
<1> QED
  BY <1>2, <1>3, <1>4, <1>5, <1>6, StepCases

-----------------------------------------------------------------------------
(* Hands and the processing list *)

HeldInv ==
  /\ \A c \in Consumer : Busy(c) => procQ[item[c]] = 1 /\ (linked[c] \/ item[c] \in stray)
  /\ \A c, d \in Consumer : Busy(c) /\ Busy(d) /\ item[c] = item[d] => c = d
  /\ \A i \in Item : procQ[i] > 0 /\ i \notin stray => \E c \in Consumer : Busy(c) /\ item[c] = i

LEMMA HeldInit == Init => HeldInv
BY DEF Init, StoreInit, HeldInv, Busy

(* A step of c that does not change whether c is busy, and with what *)
LEMMA HeldFrame ==
  ASSUME HeldInv, UNCHANGED <<procQ, linked, item, stray>>,
         \A c \in Consumer : Busy(c)' <=> Busy(c)
  PROVE  HeldInv'
BY DEF HeldInv

LEMMA HeldStep == TypeInv /\ ListInv /\ HeldInv /\ [Next]_vars => HeldInv'
<1> SUFFICES ASSUME TypeInv, ListInv, HeldInv, [Next]_vars PROVE HeldInv'
  OBVIOUS
<1>0. /\ StoreTypeOK(Item) /\ procQ \in [Item -> Nat] /\ pc \in [Consumer -> Label]
      /\ item \in [Consumer -> Item \cup {End}] /\ linked \in [Consumer -> BOOLEAN] /\ HasItem
      /\ End \notin Item
  BY BufferAssumption DEF TypeInv, StoreTypeOK, ConsumerTypeOK
<1>1. ASSUME NEW c \in Consumer, Idle(c) PROVE HeldInv'
  <2>1. /\ procQ' = procQ /\ linked' = linked /\ stray' = stray
        /\ \A d \in Consumer : Busy(d)' <=> Busy(d)
        /\ \A d \in Consumer : Busy(d) => item'[d] = item[d]
    BY <1>0, <1>1, IdleEffect DEF Busy, storeVars, linkVars
  <2> QED
    BY <2>1 DEF HeldInv
<1>2. ASSUME NEW c \in Consumer, Going(c) PROVE HeldInv'
  <2>1. UNCHANGED <<procQ, linked, item, stray>> /\ \A d \in Consumer : Busy(d)' <=> Busy(d)
    BY <1>0, <1>2, GoingEffect DEF Busy, linkVars
  <2> QED
    BY <2>1, HeldFrame
<1>3. ASSUME NEW c \in Consumer, LeasePop(c) \/ PopUnanswered(c) PROVE HeldInv'
  <2>0. RPopLPush /\ pc[c] = "lease_pop"
    BY <1>0, <1>3, PopEffect
  <2>1. PICK r \in Item : r = Rightmost
    BY <1>0, <1>3, PopEffect
  <2>2. /\ procQ' = [procQ EXCEPT ![r] = @ + 1] /\ procQ[r] = 0
        /\ \A d \in Consumer : Busy(d) => item[d] # r
    <3>1. InMain(r)
      BY <1>0, <2>0, <2>1, DistinctAfterPop DEF ListInv
    <3> QED
      BY <2>0, <2>1, <3>1 DEF RPopLPush, ListInv, HeldInv
  <2>3. ~ Busy(c) /\ \A i \in Item : procQ'[i] = IF i = r THEN 1 ELSE procQ[i]
    BY <1>0, <2>0, <2>2 DEF Busy
  <2>4. CASE LeasePop(c)
    <3>1. /\ linked[c] /\ linked' = linked /\ stray' = stray
          /\ pc' = [pc EXCEPT ![c] = "lease_set"] /\ item' = [item EXCEPT ![c] = r]
      BY <2>1, <2>4 DEF LeasePop, Goto, linkVars
    <3>2. /\ \A d \in Consumer : Busy(d)' <=> Busy(d) \/ d = c
          /\ \A d \in Consumer : item'[d] = IF d = c THEN r ELSE item[d]
      BY <1>0, <3>1 DEF Busy
    <3>3. \A d \in Consumer : Busy(d)' => item'[d] \in Item
      BY <1>0, <3>2 DEF HasItem
    <3> QED
      BY <2>2, <2>3, <3>1, <3>2, <3>3 DEF HeldInv
  <2>5. CASE PopUnanswered(c)
    <3>1. /\ stray' = stray \cup {r} /\ linked' = [linked EXCEPT ![c] = FALSE]
          /\ pc' = [pc EXCEPT ![c] = "exited"] /\ item' = [item EXCEPT ![c] = End]
      BY <2>1, <2>5 DEF PopUnanswered, LoseLink, Goto
    <3>2. /\ \A d \in Consumer : Busy(d)' <=> Busy(d)
          /\ \A d \in Consumer : Busy(d) => item'[d] = item[d] /\ linked'[d] = linked[d]
      BY <1>0, <2>3, <3>1 DEF Busy
    <3>3. \A d \in Consumer : Busy(d) => item[d] \in Item
      BY <1>0 DEF HasItem
    <3> QED
      BY <2>2, <2>3, <3>1, <3>2, <3>3 DEF HeldInv
  <2> QED
    BY <1>3, <2>4, <2>5
<1>4. ASSUME NEW c \in Consumer, CompleteRem(c) PROVE HeldInv'
  <2>1. /\ linked' = linked /\ item' = item /\ stray' = stray
        /\ Busy(c) /\ item[c] \in Item
        /\ \A d \in Consumer : Busy(d)' <=> Busy(d) /\ d # c
    BY <1>0, <1>4, RemEffect DEF Busy, HasItem, linkVars
  <2>2. CASE linked[c]
    <3>1. procQ' = [procQ EXCEPT ![item[c]] = 0]
      BY <1>4, <2>2, RemEffect
    <3>2. \A i \in Item : procQ'[i] = IF i = item[c] THEN 0 ELSE procQ[i]
      BY <1>0, <3>1
    <3>3. \A d \in Consumer : Busy(d) => item[d] \in Item
      BY <1>0 DEF HasItem
    <3> QED
      BY <2>1, <3>2, <3>3 DEF HeldInv
  <2>3. CASE ~ linked[c]
    <3>1. procQ' = procQ /\ item[c] \in stray
      BY <1>4, <2>1, <2>3, RemEffect DEF HeldInv
    <3> QED
      BY <2>1, <3>1 DEF HeldInv
  <2> QED
    BY <2>2, <2>3
<1>5. ASSUME NEW c \in Consumer, LinkBreaks(c) \/ Die(c) PROVE HeldInv'
  <2>1. /\ procQ' = procQ /\ item' = item /\ stray' = stray \cup HeldBy(c)
        /\ linked' \in {linked, [linked EXCEPT ![c] = FALSE]}
        /\ \/ LinkBreaks(c) /\ pc' = pc
           \/ pc' = [pc EXCEPT ![c] = "dead"]
    BY <1>5 DEF LinkBreaks, LoseLink, Die, Goto, storeVars
  <2>2. Busy(c) => item[c] \in stray'
    BY <1>0, <2>1 DEF HeldBy, Holds, Busy, HasItem
  <2>3. /\ \A d \in Consumer : Busy(d)' => Busy(d)
        /\ \A d \in Consumer : Busy(d) /\ d # c => Busy(d)' /\ linked'[d] = linked[d]
    BY <1>0, <2>1 DEF Busy
  <2> QED
    BY <2>1, <2>2, <2>3 DEF HeldInv
<1>6. ASSUME ProducerStep, Publish PROVE HeldInv'
  <2>1. UNCHANGED <<procQ, linked, item, stray, pc>>
    BY <1>6 DEF ProducerStep, Publish, RPush, linkVars
  <2> QED
    BY <2>1, HeldFrame DEF Busy
<1>7. ASSUME UNCHANGED <<mainQ, procQ, consumerVars>> PROVE HeldInv'
  BY <1>7, HeldFrame DEF consumerVars, Busy
<1> QED
  BY <1>1, <1>2, <1>3, <1>4, <1>5, <1>6, <1>7, StepCases

(* What is in progress is in somebody's hands or was when he failed; what  *)
(* is in somebody's hands is in progress, once.                            *)
THEOREM ProcessingHeldCorrect == Spec => []ProcessingIsHeld
<1>1. HeldInv => ProcessingIsHeld
  BY DEF HeldInv, ProcessingIsHeld, Holds, Busy
<1> QED
  BY <1>1, TypeInit, TypeStep, ListInit, ListStep, HeldInit, HeldStep, PTL DEF Spec

-----------------------------------------------------------------------------
(* Without a failure every connection works and nothing is stray; then a   *)
(* lease is that of a consumer that has not deleted it yet, even where     *)
(* several have the same hash.                                             *)

Leasing(c) == pc[c] \in {"work", "complete_rem", "complete_del"}

NoLossInv ==
  losses = 0 =>
    /\ stray = {}
    /\ \A c \in Consumer : linked[c]
    /\ \A k \in LeaseKey :
         leases[k] # NoLease => \E c \in Consumer : Leasing(c) /\ KeyOf[item[c]] = k

LEMMA NoLossInit == Init => NoLossInv
BY DEF Init, StoreInit, NoLossInv

LEMMA NoLossStep == TypeInv /\ NoLossInv /\ [Next]_vars => NoLossInv'
<1> SUFFICES ASSUME TypeInv, NoLossInv, [Next]_vars PROVE NoLossInv'
  OBVIOUS
<1>0. /\ StoreTypeOK(Item) /\ pc \in [Consumer -> Label] /\ losses \in Nat
      /\ item \in [Consumer -> Item \cup {End}] /\ HasItem /\ leases \in [LeaseKey -> Item \cup {NoLease}]
  BY DEF TypeInv, StoreTypeOK, ConsumerTypeOK
<1>1. ASSUME losses' = losses + 1 PROVE NoLossInv'
  BY <1>0, <1>1 DEF NoLossInv
<1>2. ASSUME UNCHANGED <<linked, losses, stray>>,
             \A k \in LeaseKey : leases'[k] # NoLease => leases[k] # NoLease,
             \A c \in Consumer : Leasing(c) => Leasing(c)' /\ item'[c] = item[c]
      PROVE  NoLossInv'
  BY <1>2 DEF NoLossInv
<1>3. ASSUME NEW c \in Consumer, Idle(c) PROVE NoLossInv'
  <2>1. /\ UNCHANGED <<leases, linked, losses, stray>>
        /\ \A d \in Consumer : Leasing(d) => Leasing(d)' /\ item'[d] = item[d]
    BY <1>0, <1>3, IdleEffect DEF Leasing, storeVars, linkVars
  <2> QED
    BY <1>2, <2>1
<1>4. ASSUME NEW c \in Consumer, LeasePop(c) PROVE NoLossInv'
  <2>1. /\ UNCHANGED <<leases, linked, losses, stray>>
        /\ pc[c] = "lease_pop" /\ pc' = [pc EXCEPT ![c] = "lease_set"]
        /\ item' = [item EXCEPT ![c] = Rightmost]
    BY <1>4 DEF LeasePop, RPopLPush, Goto, linkVars
  <2>2. \A d \in Consumer : Leasing(d) => Leasing(d)' /\ item'[d] = item[d]
    BY <1>0, <2>1 DEF Leasing
  <2> QED
    BY <1>2, <2>1, <2>2
<1>5. ASSUME NEW c \in Consumer, LeaseSet(c) PROVE NoLossInv'
  <2>1. /\ UNCHANGED <<item, linked, losses, stray>> /\ pc' = [pc EXCEPT ![c] = "work"]
        /\ leases' \in {leases, [leases EXCEPT ![KeyOf[item[c]]] = item[c]]}
    BY <1>5 DEF LeaseSet, Send, SetEx, storeVars, linkVars, Goto
  <2>2. Leasing(c)' /\ \A d \in Consumer : Leasing(d) => Leasing(d)'
    BY <1>0, <2>1 DEF Leasing
  <2>3. \A k \in LeaseKey : leases'[k] # NoLease => leases[k] # NoLease \/ k = KeyOf[item[c]]
    BY <1>0, <2>1
  <2> QED
    BY <2>1, <2>2, <2>3 DEF NoLossInv
<1>6. ASSUME NEW c \in Consumer, Work(c) \/ CompleteRem(c) PROVE NoLossInv'
  <2>1. /\ UNCHANGED <<leases, item, linked, losses, stray>>
        /\ pc' \in {[pc EXCEPT ![c] = "complete_rem"], [pc EXCEPT ![c] = "complete_del"]}
    BY <1>6 DEF Work, CompleteRem, Send, LRemAll, storeVars, linkVars, Goto
  <2>2. \A d \in Consumer : Leasing(d) => Leasing(d)'
    BY <1>0, <2>1 DEF Leasing
  <2> QED
    BY <1>2, <2>1, <2>2
<1>7. ASSUME NEW c \in Consumer, CompleteDel(c) PROVE NoLossInv'
  <2>1. /\ UNCHANGED <<item, linked, losses, stray>> /\ pc' = [pc EXCEPT ![c] = "check_main"]
        /\ linked[c] => leases' = [leases EXCEPT ![KeyOf[item[c]]] = NoLease]
    BY <1>7 DEF CompleteDel, Send, Del, linkVars, Goto
  <2>2. \A d \in Consumer : d # c /\ Leasing(d) => Leasing(d)'
    BY <1>0, <2>1 DEF Leasing
  <2>3. ASSUME losses = 0
        PROVE  \A k \in LeaseKey :
                 leases'[k] # NoLease => leases[k] # NoLease /\ k # KeyOf[item[c]]
    BY <1>0, <2>1, <2>3 DEF NoLossInv
  <2> QED
    BY <2>1, <2>2, <2>3 DEF NoLossInv
<1>8. ASSUME NEW c \in Consumer, LinkBreaks(c) \/ PopUnanswered(c) \/ Die(c) PROVE NoLossInv'
  BY <1>1, <1>8 DEF LinkBreaks, PopUnanswered, LoseLink, Die
<1>9. ASSUME UNCHANGED consumerVars, \A k \in LeaseKey : leases'[k] # NoLease => leases[k] # NoLease
      PROVE  NoLossInv'
  BY <1>2, <1>9 DEF consumerVars, Leasing
<1>10. ASSUME ProducerStep, Publish PROVE NoLossInv'
  <2>1. UNCHANGED <<leases, consumerVars>>
    BY <1>10 DEF ProducerStep, Publish, RPush, linkVars, consumerVars
  <2> QED
    BY <1>9, <2>1
<1>11. ASSUME UNCHANGED consumerVars,
              (ProducerStep /\ PubExit) \/ ProducerFails \/ UNCHANGED vars
                \/ \E k \in LeaseKey : LeaseExpires(k)
       PROVE  NoLossInv'
  <2>1. CASE (ProducerStep /\ PubExit) \/ ProducerFails \/ UNCHANGED vars
    BY <1>9, <1>11, <2>1 DEF PubExit, ProducerFails, ProducerDies, PubCrash, vars, storeVars
  <2>2. CASE \E k \in LeaseKey : LeaseExpires(k)
    BY <1>0, <1>9, <1>11, <2>2 DEF LeaseExpires, Expire, Del
  <2> QED
    BY <1>11, <2>1, <2>2
<1> QED
  BY <1>3, <1>4, <1>5, <1>6, <1>7, <1>8, <1>10, <1>11, StepCases DEF Going

(* Consumers that all end well, without a failure, leave no item in        *)
(* progress and no lease.                                                  *)
THEOREM NothingLeftBehind == Spec => []LeaveNothingBehind
<1>1. TypeInv /\ HeldInv /\ NoLossInv => LeaveNothingBehind
  <2> SUFFICES ASSUME TypeInv, HeldInv, NoLossInv, losses = 0,
                      \A c \in Consumer : pc[c] = "exited"
               PROVE  ProcEmpty /\ \A k \in LeaseKey : leases[k] = NoLease
    BY DEF LeaveNothingBehind
  <2>1. \A c \in Consumer : ~ Busy(c) /\ ~ Leasing(c)
    BY DEF Busy, Leasing
  <2>2. \A i \in Item : procQ[i] = 0
    <3> SUFFICES ASSUME NEW i \in Item PROVE procQ[i] = 0
      OBVIOUS
    <3>1. procQ[i] \in Nat
      BY DEF TypeInv, StoreTypeOK
    <3>2. ~ (procQ[i] > 0)
      BY <2>1 DEF HeldInv, NoLossInv
    <3> QED
      BY <3>1, <3>2
  <2> QED
    BY <2>1, <2>2 DEF ProcEmpty, NoLossInv
<1> QED
  BY <1>1, TypeInit, TypeStep, ListInit, ListStep, HeldInit, HeldStep, NoLossInit, NoLossStep, PTL
  DEF Spec

-----------------------------------------------------------------------------
(* The queue implements TaskPool. *)

WorkedInv == \A c \in Consumer : pc[c] = "complete_rem" => item[c] \in worked

LEMMA WorkedInit == Init => WorkedInv
BY DEF Init, WorkedInv

LEMMA WorkedStep == TypeInv /\ WorkedInv /\ [Next]_vars => WorkedInv'
<1> SUFFICES ASSUME TypeInv, WorkedInv, [Next]_vars PROVE WorkedInv'
  OBVIOUS
<1>0. StoreTypeOK(Item) /\ pc \in [Consumer -> Label] /\ item \in [Consumer -> Item \cup {End}]
  BY DEF TypeInv, ConsumerTypeOK
<1> USE DEF WorkedInv
<1>1. ASSUME NEW c \in Consumer, Idle(c) PROVE WorkedInv'
  BY <1>0, <1>1, IdleEffect
<1>2. ASSUME NEW c \in Consumer, Going(c) PROVE WorkedInv'
  BY <1>0, <1>2, GoingEffect
<1>3. ASSUME NEW c \in Consumer, LeasePop(c) \/ PopUnanswered(c) PROVE WorkedInv'
  <2>1. /\ pc[c] = "lease_pop" /\ worked' = worked
        /\ pc' \in {[pc EXCEPT ![c] = "lease_set"], [pc EXCEPT ![c] = "exited"]}
        /\ \A d \in Consumer : d # c => item'[d] = item[d]
    BY <1>0, <1>3, PopEffect
  <2> QED
    BY <1>0, <2>1
<1>4. ASSUME NEW c \in Consumer, CompleteRem(c) PROVE WorkedInv'
  BY <1>0, <1>4, RemEffect
<1>5. ASSUME NEW c \in Consumer, LinkBreaks(c) \/ Die(c) PROVE WorkedInv'
  BY <1>0, <1>5 DEF LinkBreaks, Die, Goto
<1>6. ASSUME ProducerStep \/ UNCHANGED consumerVars PROVE WorkedInv'
  BY <1>6 DEF ProducerStep, consumerVars
<1> QED
  BY <1>1, <1>2, <1>3, <1>4, <1>5, <1>6, StepCases

LEMMA PoolFrame ==
  ASSUME UNCHANGED <<mainQ, procQ, worked>>
  PROVE  UNCHANGED Pool!poolVars
BY DEF Pool!poolVars, Waiting, InProgress, InMain

LEMMA PoolStep == TypeInv /\ HeldInv /\ WorkedInv /\ [Next]_vars => [Pool!PoolNext]_Pool!poolVars
<1> SUFFICES ASSUME TypeInv, HeldInv, WorkedInv, [Next]_vars
             PROVE  Pool!PoolNext \/ UNCHANGED Pool!poolVars
  OBVIOUS
<1>0. StoreTypeOK(Item) /\ procQ \in [Item -> Nat] /\ HasItem /\ pubIdx \in Nat /\ pubIdx >= 1
  BY CountNat DEF TypeInv, StoreTypeOK, PubTypeOK, ConsumerTypeOK
<1>1. ASSUME NEW c \in Consumer, Idle(c) \/ LinkBreaks(c) \/ Die(c) PROVE UNCHANGED Pool!poolVars
  BY <1>1, IdleEffect, PoolFrame DEF LinkBreaks, Die, storeVars
<1>2. ASSUME NEW c \in Consumer, LeasePop(c) \/ PopUnanswered(c) PROVE Pool!PoolNext
  <2>1. RPopLPush /\ Rightmost \in Item /\ worked' = worked
    BY <1>0, <1>2, PopEffect
  <2>2. Pool!Take(Rightmost)
    BY <1>0, <2>1, WaitingAfterPop DEF Pool!Take
  <2> QED
    BY <2>1, <2>2 DEF Pool!PoolNext
<1>3. ASSUME NEW c \in Consumer, Going(c) PROVE Pool!PoolNext \/ UNCHANGED Pool!poolVars
  <2>1. CASE worked' = worked
    BY <1>3, <2>1, GoingEffect, PoolFrame
  <2>2. CASE pc[c] = "work" /\ worked' = worked \cup {item[c]}
    <3>1. item[c] \in Item /\ procQ[item[c]] = 1 /\ UNCHANGED <<mainQ, procQ>>
      BY <1>0, <1>3, <2>2, GoingEffect DEF HasItem, Busy, HeldInv
    <3>2. Pool!Finish(item[c])
      BY <2>2, <3>1 DEF Pool!Finish, Waiting, InProgress, InMain
    <3> QED
      BY <3>1, <3>2 DEF Pool!PoolNext
  <2> QED
    BY <1>3, <2>1, <2>2, GoingEffect
<1>4. ASSUME NEW c \in Consumer, CompleteRem(c) PROVE Pool!PoolNext \/ UNCHANGED Pool!poolVars
  <2>1. PICK t \in Item : t = item[c] /\ t \in worked
    BY <1>0, <1>4, RemEffect DEF HasItem, Busy, WorkedInv
  <2>2. UNCHANGED <<mainQ, worked>> /\ procQ' \in {procQ, [procQ EXCEPT ![t] = 0]}
    BY <1>4, <2>1, RemEffect
  <2>3. CASE procQ' = procQ
    BY <2>2, <2>3, PoolFrame
  <2>4. CASE procQ' = [procQ EXCEPT ![t] = 0]
    <3>1. InProgress' = InProgress \ {t}
      BY <1>0, <2>4 DEF InProgress
    <3>2. Pool!Report(t)
      BY <2>1, <2>2, <3>1 DEF Pool!Report, Waiting, InMain
    <3> QED
      BY <3>2 DEF Pool!PoolNext
  <2> QED
    BY <2>2, <2>3, <2>4
<1>5. ASSUME ProducerStep, Publish PROVE Pool!PoolNext
  <2>1. PICK j \in Item : j = pubIdx
    BY <1>0, <1>5, Published DEF Publish
  <2>2. mainQ' = Append(mainQ, j) /\ procQ' = procQ /\ worked' = worked
    BY <1>5, <2>1 DEF ProducerStep, Publish, RPush
  <2>3. Pool!Offer(j)
    BY <1>0, <2>2, WaitingAfterPush DEF Pool!Offer, InProgress
  <2> QED
    BY <2>3 DEF Pool!PoolNext
<1>6. ASSUME UNCHANGED <<mainQ, procQ, consumerVars>> PROVE UNCHANGED Pool!poolVars
  BY <1>6, PoolFrame DEF consumerVars
<1> QED
  BY <1>1, <1>2, <1>3, <1>4, <1>5, <1>6, StepCases

(* No item leaves the queue undone. *)
THEOREM EndIsPool == Spec => ImplementsPool
<1>1. Init => Pool!PoolInit
  BY DEF Init, StoreInit, Waiting, InProgress, InMain, Pool!PoolInit
<1> QED
  BY <1>1, TypeInit, TypeStep, ListInit, ListStep, HeldInit, HeldStep, WorkedInit, WorkedStep,
     PoolStep, PTL
  DEF Spec, ImplementsPool, Pool!PoolSpec

=============================================================================
