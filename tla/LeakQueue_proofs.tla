-------------------------- MODULE LeakQueue_proofs --------------------------
(***************************************************************************)
(* Theorems about LeakQueue for every number of consumers, items and       *)
(* failures; nothing is assumed about fairness.                            *)
(***************************************************************************)
EXTENDS LeakQueue, RedisStore_proofs

LEMMA CountNat == Count \in Nat /\ Count >= 1
BY PublisherAssumption

LEMMA Published == ASSUME NEW n \in Nat, 1 <= n, n < Count PROVE n \in Item
<1>1. n \in 1 .. (Count - 1)
  BY CountNat
<1> QED
  BY <1>1, PublisherAssumption

(* The steps of a consumer that change nothing but pc, losses and linked. *)
Quiet(c) ==
  \/ FirstMain(c) \/ FirstProc(c) \/ CheckMain(c) \/ CheckProc(c) \/ LeaseNothing(c)
  \/ LinkBreaks(c) \/ Die(c) \/ Restart(c)

LEMMA StepCases ==
  ASSUME [Next]_vars
  PROVE  \/ \E c \in Consumer : Quiet(c) \/ LeasePop(c)
         \/ ProducerStep
         \/ ProducerFails
         \/ UNCHANGED vars
BY DEF Next, ConsumerRun, Quiet, Terminated

LEMMA QuietFrame ==
  ASSUME NEW c \in Consumer, Quiet(c)
  PROVE  UNCHANGED <<storeVars, pubVars>>
BY DEF Quiet, FirstMain, FirstProc, CheckMain, CheckProc, AskMain, AskProc, LeaseNothing,
       LinkBreaks, Die, Restart

-----------------------------------------------------------------------------
(* Types *)

ConsumerTypeOK ==
  /\ pc \in [Consumer -> {"first_main", "first_proc", "check_main", "check_proc",
                          "lease_pop", "exited", "down"}]
  /\ linked \in [Consumer -> BOOLEAN]
  /\ losses \in Nat

LEMMA TypeInit == Init => TypeOK
BY CountNat DEF Init, StoreInit, PubInit, TypeOK, StoreTypeOK, PubTypeOK

LEMMA TypeStep == TypeOK /\ [Next]_vars => TypeOK'
<1> SUFFICES ASSUME TypeOK, [Next]_vars PROVE TypeOK'
  OBVIOUS
<1>0. ConsumerTypeOK /\ StoreTypeOK({}) /\ PubTypeOK
  BY DEF TypeOK, ConsumerTypeOK
<1>1. ASSUME NEW c \in Consumer, Quiet(c) PROVE TypeOK'
  <2>1. StoreTypeOK({})' /\ PubTypeOK'
    BY <1>0, <1>1, QuietFrame DEF storeVars, pubVars, StoreTypeOK, PubTypeOK
  <2>2. CASE FirstMain(c) \/ FirstProc(c) \/ CheckMain(c) \/ CheckProc(c) \/ LeaseNothing(c)
    <3>1. linked' = linked /\ losses' = losses
      BY <2>2 DEF FirstMain, FirstProc, CheckMain, CheckProc, AskMain, AskProc, LeaseNothing,
                  linkVars
    <3>2. PICK label \in {"first_proc", "check_main", "check_proc", "lease_pop", "exited", "down"} :
            pc' = [pc EXCEPT ![c] = label]
      BY <2>2 DEF FirstMain, FirstProc, CheckMain, CheckProc, AskMain, AskProc, LeaseNothing, Goto
    <3>3. ConsumerTypeOK'
      BY <1>0, <3>1, <3>2 DEF ConsumerTypeOK
    <3> QED
      BY <2>1, <3>3 DEF TypeOK, ConsumerTypeOK
  <2>3. CASE LinkBreaks(c) \/ Die(c) \/ Restart(c)
    <3>1. ConsumerTypeOK'
      <4>1. CASE LinkBreaks(c)
        BY <1>0, <4>1 DEF LinkBreaks, LoseLink, ConsumerTypeOK
      <4>2. CASE Die(c)
        BY <1>0, <4>2 DEF Die, Goto, ConsumerTypeOK
      <4>3. CASE Restart(c)
        BY <1>0, <4>3 DEF Restart, Goto, ConsumerTypeOK
      <4> QED
        BY <2>3, <4>1, <4>2, <4>3
    <3> QED
      BY <2>1, <3>1 DEF TypeOK, ConsumerTypeOK
  <2> QED
    BY <1>1, <2>2, <2>3 DEF Quiet
<1>2. ASSUME NEW c \in Consumer, LeasePop(c) PROVE TypeOK'
  <2>1. StoreTypeOK({})'
    BY <1>0, <1>2, RPopLPushEffect DEF LeasePop
  <2> QED
    BY <1>0, <1>2, <2>1 DEF LeasePop, Goto, pubVars, linkVars, TypeOK, PubTypeOK, ConsumerTypeOK
<1>3. ASSUME ProducerStep PROVE TypeOK'
  <2>1. ConsumerTypeOK'
    BY <1>0, <1>3 DEF ProducerStep, linkVars, ConsumerTypeOK
  <2>2. CASE Publish
    <3>1. pubIdx \in Item
      BY <1>0, <2>2, Published DEF Publish, PubTypeOK
    <3> QED
      BY <1>0, <2>1, <2>2, <3>1, CountNat
      DEF Publish, RPush, TypeOK, StoreTypeOK, PubTypeOK, ConsumerTypeOK
  <2>3. CASE PubExit
    BY <1>0, <2>1, <2>3 DEF PubExit, storeVars, TypeOK, StoreTypeOK, PubTypeOK, ConsumerTypeOK
  <2> QED
    BY <1>3, <2>2, <2>3 DEF ProducerStep, Produce, PubStep
<1>4. ASSUME ProducerFails \/ UNCHANGED vars PROVE TypeOK'
  BY <1>0, <1>4 DEF ProducerFails, ProducerDies, PubCrash, vars, storeVars, pubVars, linkVars,
                    TypeOK, StoreTypeOK, PubTypeOK, ConsumerTypeOK
<1> QED
  BY <1>1, <1>2, <1>3, <1>4, StepCases

(* Every variable keeps its type; no lease is ever written. *)
THEOREM LeakTypeCorrect == Spec => []TypeOK
BY TypeInit, TypeStep, PTL DEF Spec

-----------------------------------------------------------------------------
(* Where the items are: the main list holds published items, each once,    *)
(* and the processing list the other ones.                                 *)

ListInv ==
  /\ MainDistinct
  /\ \A i \in Item : InMain(i) => i \in 1 .. (pubIdx - 1)
  /\ \A i \in Item : procQ[i] = IF i \in 1 .. (pubIdx - 1) /\ ~ InMain(i) THEN 1 ELSE 0

LEMMA ListInit == Init => ListInv
BY DEF Init, StoreInit, PubInit, ListInv, MainDistinct, InMain

LEMMA ListStep == TypeOK /\ ListInv /\ [Next]_vars => ListInv'
<1> SUFFICES ASSUME TypeOK, ListInv, [Next]_vars PROVE ListInv'
  OBVIOUS
<1>0. /\ StoreTypeOK({}) /\ procQ \in [Item -> Nat]
      /\ pubIdx \in Nat /\ pubIdx >= 1
  BY CountNat DEF TypeOK, StoreTypeOK, PubTypeOK
<1>1. ASSUME UNCHANGED <<mainQ, procQ, pubIdx>> PROVE ListInv'
  BY <1>1 DEF ListInv, MainDistinct, InMain
<1>2. ASSUME NEW c \in Consumer, LeasePop(c) PROVE ListInv'
  <2>1. PICK r \in Item : r = Rightmost
    BY <1>0, <1>2, RPopLPushEffect DEF LeasePop
  <2>2. /\ MainDistinct' /\ InMain(r) /\ ~ InMain(r)'
        /\ \A i \in Item : i # r => (InMain(i)' <=> InMain(i))
    BY <1>0, <1>2, <2>1, DistinctAfterPop DEF LeasePop, ListInv
  <2>3. procQ' = [procQ EXCEPT ![r] = @ + 1] /\ pubIdx' = pubIdx
    BY <1>2, <2>1 DEF LeasePop, RPopLPush, pubVars
  <2> QED
    BY <1>0, <2>2, <2>3 DEF ListInv
<1>3. ASSUME Publish PROVE ListInv'
  <2>1. PICK j \in Item : j = pubIdx
    BY <1>0, <1>3, Published DEF Publish
  <2>2. mainQ' = Append(mainQ, j) /\ procQ' = procQ /\ pubIdx' = j + 1
    BY <1>3, <2>1 DEF Publish, RPush
  <2>3. ~ InMain(j) /\ procQ[j] = 0
    BY <1>0, <2>1 DEF ListInv
  <2>4. MainDistinct' /\ \A i \in Item : InMain(i)' <=> InMain(i) \/ i = j
    BY <1>0, <2>2, <2>3, DistinctAfterPush DEF ListInv
  <2>5. \A i \in Item : i \in 1 .. (pubIdx' - 1) <=> i \in 1 .. (pubIdx - 1) \/ i = j
    BY <1>0, <2>1, <2>2
  <2> QED
    BY <2>2, <2>3, <2>4, <2>5 DEF ListInv
<1>4. ASSUME ProducerStep PROVE ListInv'
  BY <1>1, <1>3, <1>4 DEF ProducerStep, Produce, PubStep, PubExit, storeVars
<1>5. ASSUME ProducerFails \/ UNCHANGED vars PROVE ListInv'
  BY <1>1, <1>5 DEF ProducerFails, ProducerDies, PubCrash, vars, storeVars, pubVars
<1>6. ASSUME NEW c \in Consumer, Quiet(c) PROVE ListInv'
  BY <1>1, <1>6, QuietFrame DEF storeVars, pubVars
<1> QED
  BY <1>2, <1>4, <1>5, <1>6, StepCases

(* What was published is in one of the lists, once. *)
THEOREM LeakedNotLost == Spec => []NothingIsLost
<1>1. TypeOK /\ ListInv => NothingIsLost
  <2> SUFFICES ASSUME TypeOK, ListInv, NEW i \in 1 .. (pubIdx - 1)
               PROVE  procQ[i] = IF InMain(i) THEN 0 ELSE 1
    BY DEF NothingIsLost
  <2>1. i \in Item
    BY CountNat, Published DEF TypeOK, PubTypeOK
  <2> QED
    BY <2>1 DEF ListInv
<1> QED
  BY <1>1, TypeInit, TypeStep, ListInit, ListStep, PTL DEF Spec

-----------------------------------------------------------------------------
(* Nothing is ever taken out of the processing list, so what a consumer    *)
(* saw in it stays.                                                        *)

LEMMA ExitInit == Init => ExitLeavesItemsBehind
BY DEF Init, ExitLeavesItemsBehind

LEMMA ExitStep ==
  TypeOK /\ ExitLeavesItemsBehind /\ [Next]_vars => ExitLeavesItemsBehind'
<1> SUFFICES ASSUME TypeOK, ExitLeavesItemsBehind, [Next]_vars PROVE ExitLeavesItemsBehind'
  OBVIOUS
<1>0. StoreTypeOK({}) /\ ConsumerTypeOK
  BY DEF TypeOK, ConsumerTypeOK
<1>1. ASSUME NEW c \in Consumer, Quiet(c) PROVE ExitLeavesItemsBehind'
  <2>1. ProcEmpty' = ProcEmpty
    BY <1>1, QuietFrame DEF storeVars, ProcEmpty
  <2>2. \A d \in Consumer : pc'[d] = "exited" /\ linked'[d] =>
          (pc[d] = "exited" /\ linked[d]) \/ ~ ProcEmpty
    <3>1. CASE FirstMain(c) \/ FirstProc(c) \/ CheckMain(c) \/ LeaseNothing(c)
      BY <1>0, <3>1 DEF FirstMain, FirstProc, CheckMain, AskMain, AskProc, LeaseNothing, Goto,
                        linkVars, ConsumerTypeOK
    <3>2. CASE CheckProc(c)
      <4>1. linked' = linked /\ (linked[c] /\ ProcEmpty => pc' = [pc EXCEPT ![c] = "lease_pop"])
        BY <3>2 DEF CheckProc, AskProc, LenIsZero, Goto, linkVars
      <4>2. \A d \in Consumer : d # c => pc'[d] = pc[d]
        BY <1>0, <3>2 DEF CheckProc, AskProc, Goto, ConsumerTypeOK
      <4> QED
        BY <1>0, <4>1, <4>2 DEF ConsumerTypeOK
    <3>3. CASE LinkBreaks(c) \/ Die(c) \/ Restart(c)
      BY <1>0, <3>3 DEF LinkBreaks, LoseLink, Die, Restart, Goto, ConsumerTypeOK
    <3> QED
      BY <1>1, <3>1, <3>2, <3>3 DEF Quiet
  <2> QED
    BY <2>1, <2>2 DEF ExitLeavesItemsBehind
<1>2. ASSUME NEW c \in Consumer, LeasePop(c) PROVE ExitLeavesItemsBehind'
  <2>1. PICK r \in Item : r = Rightmost
    BY <1>0, <1>2, RPopLPushEffect DEF LeasePop
  <2>2. \A i \in Item : procQ'[i] = IF i = r THEN procQ[i] + 1 ELSE procQ[i]
    BY <1>0, <1>2, <2>1, RPopLPushEffect DEF LeasePop
  <2>3. ~ ProcEmpty'
    BY <1>0, <2>1, <2>2 DEF ProcEmpty, StoreTypeOK
  <2> QED
    BY <2>3 DEF ExitLeavesItemsBehind
<1>3. ASSUME ProducerStep \/ ProducerFails \/ UNCHANGED vars PROVE ExitLeavesItemsBehind'
  <2>1. UNCHANGED <<procQ, pc, linked>>
    BY <1>3 DEF ProducerStep, Produce, PubStep, Publish, RPush, PubExit, ProducerFails,
       ProducerDies, PubCrash, vars, storeVars, linkVars
  <2> QED
    BY <2>1 DEF ExitLeavesItemsBehind, ProcEmpty
<1> QED
  BY <1>1, <1>2, <1>3, StepCases

(* A consumer with a working connection ends well only after an item       *)
(* leaked, which is still there.                                           *)
THEOREM LeakBeforeExit == Spec => []ExitLeavesItemsBehind
BY TypeInit, TypeStep, ExitInit, ExitStep, PTL DEF Spec

=============================================================================
