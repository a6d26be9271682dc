-------------------------- MODULE RedisStore_proofs --------------------------
(***************************************************************************)
(* What (B)RPOPLPUSH does to the lists, for every list and every item.     *)
(***************************************************************************)
EXTENDS RedisStore, SequenceTheorems, TLAPS

(* A sequence without its last element. *)
LEMMA WithoutLast ==
  ASSUME NEW S, NEW s \in Seq(S), s # <<>>
  PROVE  /\ Len(s) \in 1 .. Len(s)
         /\ SubSeq(s, 1, Len(s) - 1) \in Seq(S)
         /\ Len(SubSeq(s, 1, Len(s) - 1)) = Len(s) - 1
         /\ \A n \in 1 .. (Len(s) - 1) : SubSeq(s, 1, Len(s) - 1)[n] = s[n]
<1> DEFINE L == Len(s) - 1
<1>1. Len(s) \in Nat /\ Len(s) >= 1 /\ L \in Nat /\ Len(s) = L + 1
  OBVIOUS
<1>2. \A i \in 1 .. L : s[i] \in S
  BY <1>1
<1> HIDE DEF L
<1>3. /\ SubSeq(s, 1, L) \in Seq(S)
      /\ Len(SubSeq(s, 1, L)) = IF 1 <= L THEN L - 1 + 1 ELSE 0
      /\ \A i \in 1 .. (L - 1 + 1) : SubSeq(s, 1, L)[i] = s[1 + i - 1]
  BY <1>1, <1>2, SubSeqProperties
<1>4. Len(SubSeq(s, 1, L)) = L
  BY <1>1, <1>3
<1>5. \A n \in 1 .. L : SubSeq(s, 1, L)[n] = s[n]
  BY <1>1, <1>3
<1> QED
  BY <1>1, <1>3, <1>4, <1>5 DEF L

(* RPOPLPUSH takes the last element and nothing else; it counts it in the  *)
(* processing list and keeps the types.                                    *)
LEMMA RPopLPushEffect ==
  ASSUME NEW Value, StoreTypeOK(Value), RPopLPush
  PROVE  /\ StoreTypeOK(Value)'
         /\ Len(mainQ) \in 1 .. Len(mainQ)
         /\ Rightmost = mainQ[Len(mainQ)] /\ Rightmost \in Item
         /\ Len(mainQ') = Len(mainQ) - 1
         /\ \A n \in 1 .. Len(mainQ') : mainQ'[n] = mainQ[n]
         /\ \A i \in Item : procQ'[i] = IF i = Rightmost THEN procQ[i] + 1 ELSE procQ[i]
<1>1. mainQ \in Seq(Item) /\ mainQ # <<>>
  BY DEF StoreTypeOK, RPopLPush, MainEmpty
<1>2. /\ Len(mainQ) \in 1 .. Len(mainQ)
      /\ Rightmost = mainQ[Len(mainQ)] /\ Rightmost \in Item
  BY <1>1 DEF Rightmost
<1>3. /\ mainQ' \in Seq(Item)
      /\ Len(mainQ') = Len(mainQ) - 1
      /\ \A n \in 1 .. (Len(mainQ) - 1) : mainQ'[n] = mainQ[n]
  BY <1>1, WithoutLast DEF RPopLPush
<1>4. /\ procQ' \in [Item -> Nat]
      /\ \A i \in Item : procQ'[i] = IF i = Rightmost THEN procQ[i] + 1 ELSE procQ[i]
  BY <1>2 DEF StoreTypeOK, RPopLPush
<1>5. StoreTypeOK(Value)'
  BY <1>3, <1>4 DEF StoreTypeOK, RPopLPush
<1> QED
  BY <1>2, <1>3, <1>4, <1>5

(* What waits and what is in progress after RPUSH and after RPOPLPUSH. *)
LEMMA WaitingAfterPush ==
  ASSUME NEW Value, StoreTypeOK(Value), NEW j \in Item, mainQ' = Append(mainQ, j)
  PROVE  Waiting' = Waiting \cup {j}
<1>1. /\ Len(mainQ) \in Nat /\ Len(mainQ') = Len(mainQ) + 1
      /\ mainQ'[Len(mainQ) + 1] = j
      /\ \A n \in 1 .. Len(mainQ) : mainQ'[n] = mainQ[n]
  BY DEF StoreTypeOK
<1>2. ASSUME NEW i \in Item, InMain(i)' PROVE InMain(i) \/ i = j
  <2>1. PICK n \in 1 .. Len(mainQ') : mainQ'[n] = i
    BY <1>2 DEF InMain
  <2>2. n \in 1 .. Len(mainQ) \/ n = Len(mainQ) + 1
    BY <1>1, <2>1
  <2> QED
    BY <1>1, <2>1, <2>2 DEF InMain
<1>3. ASSUME NEW i \in Item, InMain(i) PROVE InMain(i)'
  <2>1. PICK n \in 1 .. Len(mainQ) : mainQ[n] = i
    BY <1>3 DEF InMain
  <2>2. n \in 1 .. Len(mainQ') /\ mainQ'[n] = i
    BY <1>1, <2>1
  <2> QED
    BY <2>2 DEF InMain
<1>4. InMain(j)'
  <2>1. Len(mainQ) + 1 \in 1 .. Len(mainQ')
    BY <1>1
  <2> QED
    BY <1>1, <2>1 DEF InMain
<1> QED
  BY <1>2, <1>3, <1>4 DEF Waiting

LEMMA WaitingAfterPop ==
  ASSUME NEW Value, StoreTypeOK(Value), RPopLPush
  PROVE  /\ Rightmost \in Waiting
         /\ Waiting' \in {Waiting, Waiting \ {Rightmost}}
         /\ InProgress' = InProgress \cup {Rightmost}
<1>1. PICK r \in Item : r = Rightmost
  BY RPopLPushEffect
<1>2. /\ Len(mainQ) \in 1 .. Len(mainQ) /\ Len(mainQ') = Len(mainQ) - 1
      /\ r = mainQ[Len(mainQ)]
      /\ \A n \in 1 .. Len(mainQ') : mainQ'[n] = mainQ[n]
      /\ \A i \in Item : procQ'[i] = IF i = r THEN procQ[i] + 1 ELSE procQ[i]
      /\ procQ \in [Item -> Nat]
  BY <1>1, RPopLPushEffect DEF StoreTypeOK
<1>3. r \in Waiting
  BY <1>2 DEF InMain, Waiting
<1>4. \A i \in Item : InMain(i)' => InMain(i)
  BY <1>2 DEF InMain
<1>5. \A i \in Item : InMain(i) => InMain(i)' \/ i = r
  <2> SUFFICES ASSUME NEW i \in Item, InMain(i), i # r PROVE InMain(i)'
    OBVIOUS
  <2>1. PICK n \in 1 .. Len(mainQ) : mainQ[n] = i
    BY DEF InMain
  <2>2. n # Len(mainQ) /\ n \in 1 .. Len(mainQ')
    BY <1>2, <2>1
  <2> QED
    BY <1>2, <2>1, <2>2 DEF InMain
<1>6. Waiting' \in {Waiting, Waiting \ {r}}
  BY <1>4, <1>5 DEF Waiting
<1>7. InProgress' = InProgress \cup {r}
  BY <1>2 DEF InProgress
<1> QED
  BY <1>1, <1>3, <1>6, <1>7

(* Where every item on the main list is there once, what is taken from it  *)
(* is no longer there, and what was not there can be pushed.               *)
MainDistinct == \A m, n \in 1 .. Len(mainQ) : mainQ[m] = mainQ[n] => m = n

LEMMA DistinctAfterPop ==
  ASSUME NEW Value, StoreTypeOK(Value), MainDistinct, RPopLPush,
         NEW r \in Item, r = Rightmost
  PROVE  /\ MainDistinct'
         /\ InMain(r) /\ ~ InMain(r)'
         /\ \A i \in Item : i # r => (InMain(i)' <=> InMain(i))
<1>1. /\ Len(mainQ) \in 1 .. Len(mainQ) /\ Len(mainQ') = Len(mainQ) - 1
      /\ r = mainQ[Len(mainQ)]
      /\ \A n \in 1 .. Len(mainQ') : mainQ'[n] = mainQ[n]
  BY RPopLPushEffect
<1>2. \A n \in 1 .. Len(mainQ') :
        n \in 1 .. Len(mainQ) /\ n # Len(mainQ) /\ mainQ'[n] = mainQ[n]
  BY <1>1
<1>3. MainDistinct'
  BY <1>2 DEF MainDistinct
<1>4. InMain(r) /\ ~ InMain(r)'
  BY <1>1, <1>2 DEF InMain, MainDistinct
<1>5. \A i \in Item : i # r => (InMain(i)' <=> InMain(i))
  <2> SUFFICES ASSUME NEW i \in Item, i # r PROVE InMain(i)' <=> InMain(i)
    OBVIOUS
  <2>1. \A n \in 1 .. Len(mainQ) : mainQ[n] = i => n \in 1 .. Len(mainQ')
    BY <1>1
  <2> QED
    BY <1>2, <2>1 DEF InMain
<1> QED
  BY <1>3, <1>4, <1>5

LEMMA DistinctAfterPush ==
  ASSUME NEW Value, StoreTypeOK(Value), MainDistinct,
         NEW j \in Item, ~ InMain(j), mainQ' = Append(mainQ, j)
  PROVE  MainDistinct' /\ \A i \in Item : InMain(i)' <=> InMain(i) \/ i = j
<1>1. \A i \in Item : InMain(i)' <=> InMain(i) \/ i = j
  BY WaitingAfterPush DEF Waiting
<1>2. /\ Len(mainQ) \in Nat /\ Len(mainQ') = Len(mainQ) + 1
      /\ mainQ'[Len(mainQ) + 1] = j
      /\ \A n \in 1 .. Len(mainQ) : mainQ'[n] = mainQ[n] /\ mainQ[n] # j
  BY DEF StoreTypeOK, InMain
<1>3. \A n \in 1 .. Len(mainQ') : n \in 1 .. Len(mainQ) \/ n = Len(mainQ) + 1
  BY <1>2
<1>4. MainDistinct'
  BY <1>2, <1>3 DEF MainDistinct
<1> QED
  BY <1>1, <1>4

=============================================================================
