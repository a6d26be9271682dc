------------------------- MODULE StreamDemo_proofs -------------------------
(***************************************************************************)
(* Theorems about StreamDemo for every number of runs and failures and     *)
(* every argument.                                                         *)
(***************************************************************************)
EXTENDS StreamDemo, FiniteSetTheorems, TLAPS

(* A run that came to its commands has sensible counts, and one that adds  *)
(* or reads has made sure of the group.                                    *)
Checked ==
  \A r \in Runner :
    /\ pc[r] \in {"start", "create"} => i[r] = 0
    /\ pc[r] \in {"create", "add", "read"} => args[r].add >= 0 /\ args[r].read >= 0
    /\ pc[r] \in {"add", "read"} => group # NoGroup

(* Before the group nobody has got or added anything. *)
BeforeGroup ==
  group = NoGroup => entries = older /\ lost = {} /\ \A r \in Runner : got[r] = {}

(* Each place up to the last one delivered is with a run or lost, and no   *)
(* other place is.                                                         *)
Placed ==
  group # NoGroup =>
    /\ older <= group /\ group <= entries
    /\ lost \subseteq (older + 1) .. group
    /\ \A r \in Runner : got[r] \subseteq (older + 1) .. group
    /\ \A n \in (older + 1) .. group : n \in lost \/ \E r \in Runner : n \in got[r]

Apart ==
  \A r, s \in Runner : got[r] \cap lost = {} /\ (r # s => got[r] \cap got[s] = {})

Delivered == BeforeGroup /\ Placed /\ Apart

StreamInv == TypeOK /\ Checked /\ Delivered

LEMMA StreamInit == Init => StreamInv
<1> SUFFICES ASSUME Init PROVE StreamInv
  OBVIOUS
<1>1. older \in Nat
  BY StreamAssumption DEF Init
<1> QED
  BY <1>1, StreamAssumption
  DEF Init, PC, Over, StreamInv, TypeOK, Checked, Delivered, BeforeGroup, Placed, Apart

(* Steps that change neither the server nor who has got what *)
Local(r) ==
  Arguments(r) \/ StartReading(r) \/ ReadNothing(r) \/ ReadRefused(r) \/ Finish(r) \/ Fail(r)

LEMMA StepCases ==
  ASSUME [Next]_vars
  PROVE  \/ \E r \in Runner : Local(r) \/ Create(r) \/ AddEntry(r) \/ ReadEntry(r)
         \/ UNCHANGED vars
BY DEF Next, Run, Read, Local, Terminated

LEMMA LocalFrame ==
  ASSUME NEW r \in Runner, Local(r)
  PROVE  UNCHANGED <<args, server, got, lost>>
BY DEF Local, Arguments, StartReading, ReadNothing, ReadRefused, Finish, Fail

LEMMA TypeStep == StreamInv /\ [Next]_vars => TypeOK' /\ Checked'
<1> SUFFICES ASSUME StreamInv, [Next]_vars PROVE TypeOK' /\ Checked'
  OBVIOUS
<1> USE DEF StreamInv, TypeOK, Checked
<1>0. \A r \in Runner : args[r].add \in Int /\ args[r].read \in Int
  BY StreamAssumption
<1>1. ASSUME NEW r \in Runner, Local(r) PROVE TypeOK' /\ Checked'
  <2>0. /\ args' = args /\ older' = older /\ entries' = entries /\ group' = group
        /\ got' = got /\ lost' = lost
    BY <1>1, LocalFrame DEF server
  <2>1. CASE Arguments(r) \/ Finish(r) \/ Fail(r)
    <3>1. failures' \in Nat /\ i' = i
      BY <2>1 DEF Arguments, Finish, Fail, Unanswered
    <3>2. \E label \in PC :
            /\ pc' = [pc EXCEPT ![r] = label]
            /\ label \notin {"start", "add", "read"}
            /\ label = "create" => pc[r] = "start" /\ args[r].add >= 0 /\ args[r].read >= 0
      BY <1>0, <2>1 DEF Arguments, Finish, Fail, Unanswered, Goto, PC, Over
    <3> QED
      BY <2>0, <3>1, <3>2
  <2>2. CASE StartReading(r)
    <3>1. pc' = [pc EXCEPT ![r] = "read"] /\ i' = [i EXCEPT ![r] = 0] /\ pc[r] = "add"
          /\ failures' = failures
      BY <2>2 DEF StartReading, Goto
    <3> QED
      BY <1>0, <2>0, <3>1 DEF PC
  <2>3. CASE ReadNothing(r) \/ ReadRefused(r)
    <3>1. i' = [i EXCEPT ![r] = @ + 1] /\ pc' = pc /\ pc[r] = "read" /\ i[r] < args[r].read
          /\ failures' = failures
      BY <2>3 DEF ReadNothing, ReadRefused, Reading, Answered
    <3> QED
      BY <1>0, <2>0, <3>1
  <2> QED
    BY <1>1, <2>1, <2>2, <2>3 DEF Local
<1>2. ASSUME NEW r \in Runner, Create(r) PROVE TypeOK' /\ Checked'
  <2>1. /\ args' = args /\ i' = i /\ older' = older /\ entries' = entries
        /\ got' = got /\ lost' = lost /\ failures' \in Nat
        /\ group' \in Nat /\ pc[r] = "create"
        /\ pc' = [pc EXCEPT ![r] = "add"] \/ pc' = [pc EXCEPT ![r] = "aborted"]
    BY <1>2 DEF Create, Unanswered, Goto
  <2>2. i[r] <= args[r].add
    BY <1>0, <2>1
  <2> QED
    BY <1>0, <2>1, <2>2, StreamAssumption DEF PC, Over
<1>3. ASSUME NEW r \in Runner, AddEntry(r) PROVE TypeOK' /\ Checked'
  <2>1. /\ args' = args /\ i' = [i EXCEPT ![r] = @ + 1] /\ UNCHANGED <<older, group, got, lost>>
        /\ entries' \in Nat /\ failures' \in Nat /\ pc[r] = "add" /\ i[r] < args[r].add
        /\ pc' = pc \/ pc' = [pc EXCEPT ![r] = "aborted"]
    BY <1>3 DEF AddEntry, Answered, Unanswered, Goto
  <2> QED
    BY <1>0, <2>1 DEF PC, Over
<1>4. ASSUME NEW r \in Runner, ReadEntry(r) PROVE TypeOK' /\ Checked'
  <2>1. /\ args' = args /\ i' = [i EXCEPT ![r] = @ + 1] /\ UNCHANGED <<older, entries>>
        /\ group \in Nat /\ group' = group + 1
        /\ failures' \in Nat /\ pc[r] = "read" /\ i[r] < args[r].read
        /\ pc' = pc \/ pc' = [pc EXCEPT ![r] = "aborted"]
    BY <1>4 DEF ReadEntry, Reading, Answered, Unanswered, Goto
  <2>2. got' \in [Runner -> SUBSET Nat] /\ lost' \subseteq Nat
    <3>1. \/ got' = [got EXCEPT ![r] = @ \cup {group'}] /\ lost' = lost
          \/ lost' = lost \cup {group'} /\ got' = got
      BY <1>4 DEF ReadEntry
    <3>2. group' \in Nat
      BY <2>1
    <3> QED
      BY <3>1, <3>2
  <2>3. group' \in Nat /\ i' \in [Runner -> Nat] /\ pc' \in [Runner -> PC]
    BY <1>0, <2>1 DEF PC, Over
  <2>4. \A q \in Runner : /\ pc'[q] = "add" => i'[q] <= args[q].add
                          /\ pc'[q] = "read" => i'[q] <= args[q].read
    BY <1>0, <2>1
  <2>5. Checked'
    BY <2>1, <2>3, StreamAssumption
  <2> QED
    BY <2>1, <2>2, <2>3, <2>4, <2>5
<1>5. CASE UNCHANGED vars
  BY <1>5 DEF vars, server
<1> QED
  BY <1>1, <1>2, <1>3, <1>4, <1>5, StepCases

LEMMA DeliveredStep == StreamInv /\ [Next]_vars => Delivered'
<1> SUFFICES ASSUME StreamInv, [Next]_vars PROVE Delivered'
  OBVIOUS
<1> USE DEF StreamInv, Delivered
<1>0. /\ older \in Nat /\ entries \in Nat /\ group \in Nat \cup {NoGroup}
      /\ NoGroup \notin Nat /\ got \in [Runner -> SUBSET Nat]
  BY StreamAssumption DEF TypeOK
<1>1. ASSUME UNCHANGED <<server, got, lost>> PROVE Delivered'
  BY <1>1 DEF server, BeforeGroup, Placed, Apart
<1>2. ASSUME NEW r \in Runner, Create(r) PROVE Delivered'
  <2>1. UNCHANGED <<older, entries, got, lost>> /\ Apart'
    BY <1>2 DEF Create, Apart
  <2>2. CASE group = NoGroup
    <3>1. group' = entries /\ entries = older /\ lost = {} /\ \A q \in Runner : got[q] = {}
      BY <1>2, <2>2 DEF Create, BeforeGroup
    <3> QED
      BY <1>0, <2>1, <3>1 DEF BeforeGroup, Placed
  <2>3. CASE group # NoGroup
    <3>1. group' = group
      BY <1>2, <2>3 DEF Create
    <3> QED
      BY <2>1, <3>1 DEF BeforeGroup, Placed
  <2> QED
    BY <2>2, <2>3
<1>3. ASSUME NEW r \in Runner, AddEntry(r) PROVE Delivered'
  <2>1. group # NoGroup /\ entries' = entries + 1 /\ UNCHANGED <<older, group, got, lost>>
    BY <1>3 DEF AddEntry, Checked
  <2> QED
    BY <1>0, <2>1 DEF BeforeGroup, Placed, Apart
<1>4. ASSUME NEW r \in Runner, ReadEntry(r) PROVE Delivered'
  <2>1. /\ group \in Nat /\ group < entries /\ group' = group + 1 /\ group' # NoGroup
        /\ UNCHANGED <<older, entries>>
    BY <1>0, <1>4 DEF ReadEntry, Reading, Checked
  <2>2. /\ group' \notin lost
        /\ \A q \in Runner : group' \notin got[q]
    BY <1>0, <2>1 DEF Placed
  <2>3. CASE got' = [got EXCEPT ![r] = @ \cup {group'}] /\ lost' = lost
    <3>1. \A q \in Runner : got'[q] = IF q = r THEN got[q] \cup {group'} ELSE got[q]
      BY <1>0, <2>3
    <3>2. Apart'
      BY <2>2, <2>3, <3>1 DEF Apart
    <3>3. Placed'
      BY <1>0, <2>1, <2>3, <3>1 DEF Placed
    <3> QED
      BY <2>1, <3>2, <3>3 DEF BeforeGroup
  <2>4. CASE lost' = lost \cup {group'} /\ got' = got
    <3>1. Apart'
      BY <2>2, <2>4 DEF Apart
    <3>2. Placed'
      BY <1>0, <2>1, <2>4 DEF Placed
    <3> QED
      BY <2>1, <3>1, <3>2 DEF BeforeGroup
  <2> QED
    BY <1>4, <2>3, <2>4 DEF ReadEntry
<1> QED
  BY <1>1, <1>2, <1>3, <1>4, StepCases, LocalFrame DEF vars, server

LEMMA StreamStep == StreamInv /\ [Next]_vars => StreamInv'
BY TypeStep, DeliveredStep DEF StreamInv

(* Every variable keeps its type, and the loops their bounds. *)
THEOREM StreamTypeCorrect == Spec => []TypeOK
<1>1. StreamInv => TypeOK
  BY DEF StreamInv
<1> QED
  BY <1>1, StreamInit, StreamStep, PTL DEF Spec

(* Every entry added since the group was made is delivered in order, to    *)
(* one reader, or lost with the answer that carried it.                    *)
THEOREM EntriesAccounted == Spec => []Accounted
<1>1. StreamInv => Accounted
  BY DEF StreamInv, Delivered, Placed, Apart, Accounted
<1> QED
  BY <1>1, StreamInit, StreamStep, PTL DEF Spec

-----------------------------------------------------------------------------
(* Runs that read no more than they add.  ModestRunsReadAll needs that a   *)
(* read of such a run is never answered with nothing: if it has not read   *)
(* all, the group has an entry left.  That is a matter of counting.  Let   *)
(* added[r] be what r added since the group was made and taken[r] what was *)
(* delivered to it, answered or not.  The stream has grown by the sum of   *)
(* the first and the group has moved on by the sum of the second; each run *)
(* takes at most what it added, and while it still reads strictly less.    *)
(* What a failed run added is nowhere recorded, so that there are such     *)
(* numbers is the invariant; and a sum is the size of a set of pairs.      *)

Counted(f) == {a \in Runner \X Nat : 1 <= a[2] /\ a[2] <= f[a[1]]}

Grown == entries - older

Moved == IF group = NoGroup THEN 0 ELSE group - older

Balance(added, taken) ==
  /\ added \in [Runner -> Nat] /\ taken \in [Runner -> Nat]
  /\ IsFiniteSet(Counted(added)) /\ Cardinality(Counted(added)) = Grown
  /\ IsFiniteSet(Counted(taken)) /\ Cardinality(Counted(taken)) = Moved
  /\ \A r \in Runner :
       /\ taken[r] <= added[r]
       /\ pc[r] \in {"start", "create"} => added[r] = 0
       /\ pc[r] = "add" => added[r] = i[r] /\ taken[r] = 0
       /\ pc[r] = "read" => added[r] = args[r].add /\ taken[r] <= i[r]

Balanced == Modest => \E added, taken \in [Runner -> Nat] : Balance(added, taken)

(* And what a run was answered is all it took. *)
AnsweredAll ==
  Modest =>
    \A r \in Runner :
      /\ pc[r] \in {"start", "create", "add"} => got[r] = {}
      /\ IsFiniteSet(got[r])
      /\ args[r].block >= 0 =>
           /\ pc[r] = "read" => Cardinality(got[r]) = i[r]
           /\ pc[r] = "done" => Cardinality(got[r]) = args[r].read

CountInv == Balanced /\ AnsweredAll

(* One more for one of the runs is one more in the sum. *)
LEMMA CountOneMore ==
  ASSUME NEW f \in [Runner -> Nat], NEW g \in [Runner -> Nat], NEW r \in Runner,
         \A q \in Runner : g[q] = IF q = r THEN f[r] + 1 ELSE f[q],
         IsFiniteSet(Counted(f))
  PROVE  IsFiniteSet(Counted(g)) /\ Cardinality(Counted(g)) = Cardinality(Counted(f)) + 1
<1> DEFINE new == <<r, f[r] + 1>>
<1>1. new \notin Counted(f)
  BY DEF Counted
<1>2. Counted(g) = Counted(f) \cup {new}
  <2>1. ASSUME NEW q \in Runner, NEW n \in Nat
        PROVE  <<q, n>> \in Counted(g) <=> <<q, n>> \in Counted(f) \/ <<q, n>> = new
    BY DEF Counted
  <2>2. Counted(g) \subseteq Runner \X Nat /\ Counted(f) \cup {new} \subseteq Runner \X Nat
    BY DEF Counted
  <2> HIDE DEF new
  <2>3. ASSUME NEW a \in Runner \X Nat PROVE a \in Counted(g) <=> a \in Counted(f) \cup {new}
    <3>1. PICK q \in Runner, n \in Nat : a = <<q, n>>
      OBVIOUS
    <3> QED
      BY <2>1, <3>1
  <2> QED
    BY <2>2, <2>3
<1> HIDE DEF new
<1>3. /\ IsFiniteSet(Counted(f) \cup {new})
      /\ Cardinality(Counted(f) \cup {new}) =
           IF new \in Counted(f) THEN Cardinality(Counted(f)) ELSE Cardinality(Counted(f)) + 1
  BY FS_AddElement
<1> QED
  BY <1>1, <1>2, <1>3

(* Where no run takes more than it added and one takes less, so do all.    *)
LEMMA CountLess ==
  ASSUME NEW f \in [Runner -> Nat], NEW g \in [Runner -> Nat], IsFiniteSet(Counted(g)),
         \A q \in Runner : f[q] <= g[q],
         NEW r \in Runner, f[r] < g[r]
  PROVE  Cardinality(Counted(f)) < Cardinality(Counted(g))
<1>1. Counted(f) \subseteq Counted(g)
  BY DEF Counted
<1>2. <<r, g[r]>> \in Counted(g) /\ <<r, g[r]>> \notin Counted(f)
  BY DEF Counted
<1>3. IsFiniteSet(Counted(f)) /\ Cardinality(Counted(f)) <= Cardinality(Counted(g))
      /\ Cardinality(Counted(f)) # Cardinality(Counted(g))
  BY <1>1, <1>2, FS_Subset
<1> QED
  BY <1>3, FS_CardinalityType

(* So while a run reads there is an entry left for it.                     *)
LEMMA EntryLeft ==
  ASSUME StreamInv, Balanced, Modest, NEW r \in Runner, pc[r] = "read", i[r] < args[r].read
  PROVE  group < entries
<1>1. PICK added, taken \in [Runner -> Nat] : Balance(added, taken)
  BY DEF Balanced
<1>2. /\ args[r].read \in Int /\ args[r].add \in Int /\ i[r] \in Nat
      /\ group \in Nat /\ group # NoGroup /\ entries \in Nat /\ older \in Nat
  BY StreamAssumption DEF StreamInv, TypeOK, Checked
<1>3. taken[r] < added[r]
  BY <1>1, <1>2 DEF Balance, Modest
<1>4. Cardinality(Counted(taken)) < Cardinality(Counted(added))
  BY <1>1, <1>3, CountLess DEF Balance
<1> QED
  BY <1>1, <1>2, <1>4 DEF Balance, Grown, Moved

LEMMA CountInit == Init => CountInv
<1> SUFFICES ASSUME Init PROVE CountInv
  OBVIOUS
<1> DEFINE none == [r \in Runner |-> 0]
<1>1. none \in [Runner -> Nat] /\ \A r \in Runner : none[r] = 0
  OBVIOUS
<1> HIDE DEF none
<1>2. Counted(none) = {}
  BY <1>1 DEF Counted
<1>3. older \in Nat /\ Grown = 0 /\ Moved = 0
  BY StreamAssumption DEF Init, Grown, Moved
<1>4. Balance(none, none)
  BY <1>2, <1>1, <1>3, FS_EmptySet DEF Balance, Init
<1>5. AnsweredAll
  BY FS_EmptySet DEF Init, AnsweredAll
<1> QED
  BY <1>1, <1>4, <1>5 DEF CountInv, Balanced

LEMMA BalancedStep == StreamInv /\ Balanced /\ [Next]_vars => Balanced'
<1> SUFFICES ASSUME StreamInv, Balanced, [Next]_vars, Modest'
             PROVE  \E added, taken \in [Runner -> Nat] : Balance(added, taken)'
  BY DEF Balanced
<1>0. args' = args
  BY StepCases, LocalFrame DEF Create, AddEntry, ReadEntry, vars
<1>1. Modest
  BY <1>0 DEF Modest
<1>2. PICK added, taken \in [Runner -> Nat] : Balance(added, taken)
  BY <1>1 DEF Balanced
<1>3. /\ \A r \in Runner :
            /\ args[r].add \in Int /\ args[r].read \in Int /\ i[r] \in Nat
            /\ pc[r] = "add" => i[r] <= args[r].add
      /\ pc \in [Runner -> PC] /\ i \in [Runner -> Nat]
      /\ older \in Nat /\ entries \in Nat /\ group \in Nat \cup {NoGroup} /\ NoGroup \notin Nat
  BY StreamAssumption DEF StreamInv, TypeOK
(* A step of r that neither adds nor takes. *)
<1>4. ASSUME NEW r \in Runner, Local(r) PROVE Balance(added, taken)'
  <2>0. Grown' = Grown /\ Moved' = Moved
    BY <1>4, LocalFrame DEF server, Grown, Moved
  <2>1. CASE Arguments(r) \/ Finish(r) \/ Fail(r)
    <3>1. /\ i' = i
          /\ \/ pc' = [pc EXCEPT ![r] = "create"] /\ pc[r] = "start"
             \/ pc' = [pc EXCEPT ![r] = "done"]
             \/ pc' = [pc EXCEPT ![r] = "aborted"]
      BY <2>1 DEF Arguments, Finish, Fail, Unanswered, Goto
    <3> QED
      BY <1>0, <1>2, <1>3, <2>0, <3>1 DEF Balance, Counted
  <2>2. CASE StartReading(r)
    <3>1. /\ pc' = [pc EXCEPT ![r] = "read"] /\ i' = [i EXCEPT ![r] = 0]
          /\ pc[r] = "add" /\ i[r] = args[r].add
      BY <1>3, <2>2 DEF StartReading, Goto
    <3> QED
      BY <1>0, <1>2, <1>3, <2>0, <3>1 DEF Balance, Counted
  <2>3. ~ ReadNothing(r)
    BY <1>1, <1>3, EntryLeft DEF ReadNothing, Reading
  <2>4. CASE ReadRefused(r)
    <3>1. pc' = pc /\ pc[r] = "read" /\ i' = [i EXCEPT ![r] = @ + 1]
      BY <2>4 DEF ReadRefused, Reading, Answered
    <3> QED
      BY <1>0, <1>2, <1>3, <2>0, <3>1 DEF Balance, Counted
  <2> QED
    BY <1>4, <2>1, <2>2, <2>3, <2>4 DEF Local
<1>5. ASSUME NEW r \in Runner, Create(r) PROVE Balance(added, taken)'
  <2>1. /\ i' = i /\ UNCHANGED <<older, entries>>
        /\ pc[r] = "create"
        /\ pc' = [pc EXCEPT ![r] = "add"] \/ pc' = [pc EXCEPT ![r] = "aborted"]
    BY <1>5 DEF Create, Unanswered, Goto
  <2>2. Grown' = Grown /\ Moved' = Moved
    BY <1>3, <1>5 DEF Create, Grown, Moved, StreamInv, Delivered, BeforeGroup
  <2>3. i[r] = 0 /\ added[r] = 0 /\ taken[r] = 0
    BY <1>2, <2>1 DEF StreamInv, Checked, Balance
  <2> QED
    BY <1>0, <1>2, <1>3, <2>1, <2>2, <2>3 DEF Balance, Counted
<1>6. ASSUME NEW r \in Runner, AddEntry(r)
      PROVE  \E more \in [Runner -> Nat] : Balance(more, taken)'
  <2>1. /\ i' = [i EXCEPT ![r] = @ + 1] /\ UNCHANGED <<older, group>> /\ entries' = entries + 1
        /\ pc[r] = "add"
        /\ pc' = pc \/ pc' = [pc EXCEPT ![r] = "aborted"]
    BY <1>6 DEF AddEntry, Answered, Unanswered, Goto
  <2>2. Grown' = Grown + 1 /\ Moved' = Moved
    BY <1>3, <2>1 DEF Grown, Moved
  <2>3. PICK more \in [Runner -> Nat] :
          \A q \in Runner : more[q] = IF q = r THEN added[r] + 1 ELSE added[q]
    <3>1. [added EXCEPT ![r] = @ + 1] \in [Runner -> Nat]
      OBVIOUS
    <3> QED
      BY <3>1
  <2>4. IsFiniteSet(Counted(added)) /\ Cardinality(Counted(added)) = Grown
    BY <1>2 DEF Balance
  <2>5. IsFiniteSet(Counted(more)) /\ Cardinality(Counted(more)) = Grown + 1
    BY <2>3, <2>4, CountOneMore
  <2>6. Balance(more, taken)'
    BY <1>0, <1>2, <1>3, <2>1, <2>2, <2>3, <2>5 DEF Balance
  <2> QED
    BY <2>6
<1>7. ASSUME NEW r \in Runner, ReadEntry(r)
      PROVE  \E more \in [Runner -> Nat] : Balance(added, more)'
  <2>1. /\ i' = [i EXCEPT ![r] = @ + 1] /\ UNCHANGED <<older, entries>> /\ group' = group + 1
        /\ pc[r] = "read" /\ i[r] < args[r].read
        /\ pc' = pc \/ pc' = [pc EXCEPT ![r] = "aborted"]
    BY <1>7 DEF ReadEntry, Reading, Answered, Unanswered, Goto
  <2>2. Grown' = Grown /\ Moved' = Moved + 1
    BY <1>3, <2>1 DEF Grown, Moved, StreamInv, Checked
  <2>3. PICK more \in [Runner -> Nat] :
          \A q \in Runner : more[q] = IF q = r THEN taken[r] + 1 ELSE taken[q]
    <3>1. [taken EXCEPT ![r] = @ + 1] \in [Runner -> Nat]
      OBVIOUS
    <3> QED
      BY <3>1
  <2>4. IsFiniteSet(Counted(taken)) /\ Cardinality(Counted(taken)) = Moved
    BY <1>2 DEF Balance
  <2>5. IsFiniteSet(Counted(more)) /\ Cardinality(Counted(more)) = Moved + 1
    BY <2>3, <2>4, CountOneMore
  <2>6. more[r] <= i[r] + 1 /\ more[r] <= added[r]
    BY <1>1, <1>2, <1>3, <2>1, <2>3 DEF Balance, Modest
  <2>7. Balance(added, more)'
    BY <1>0, <1>2, <1>3, <2>1, <2>2, <2>3, <2>5, <2>6 DEF Balance, Counted
  <2> QED
    BY <2>7
<1>8. CASE UNCHANGED vars
  <2>1. Balance(added, taken)'
    BY <1>2, <1>8 DEF Balance, Counted, Grown, Moved, vars, server
  <2> QED
    BY <2>1
<1> QED
  BY <1>4, <1>5, <1>6, <1>7, <1>8, StepCases

LEMMA AnsweredStep == StreamInv /\ CountInv /\ [Next]_vars => AnsweredAll'
<1> SUFFICES ASSUME StreamInv, CountInv, [Next]_vars, Modest'
             PROVE  AnsweredAll'
  BY DEF AnsweredAll
<1>0. args' = args
  BY StepCases, LocalFrame DEF Create, AddEntry, ReadEntry, vars
<1>1. Modest /\ AnsweredAll /\ Balanced
  BY <1>0 DEF Modest, CountInv
<1>2. /\ \A r \in Runner :
            /\ args[r].read \in Int /\ args[r].block \in Int /\ i[r] \in Nat
            /\ pc[r] = "read" => i[r] <= args[r].read
      /\ pc \in [Runner -> PC] /\ i \in [Runner -> Nat] /\ got \in [Runner -> SUBSET Nat]
      /\ entries \in Nat
  BY StreamAssumption DEF StreamInv, TypeOK
<1>3. ASSUME NEW r \in Runner, Local(r) PROVE AnsweredAll'
  <2>0. got' = got
    BY <1>3, LocalFrame
  <2>1. CASE Arguments(r) \/ Fail(r)
    <3>1. /\ i' = i
          /\ \/ pc' = [pc EXCEPT ![r] = "create"] /\ pc[r] = "start"
             \/ pc' = [pc EXCEPT ![r] = "aborted"]
      BY <2>1 DEF Arguments, Fail, Unanswered, Goto
    <3> QED
      BY <1>0, <1>1, <1>2, <2>0, <3>1 DEF AnsweredAll
  <2>2. CASE StartReading(r)
    <3>1. pc' = [pc EXCEPT ![r] = "read"] /\ i' = [i EXCEPT ![r] = 0] /\ pc[r] = "add"
      BY <2>2 DEF StartReading, Goto
    <3> QED
      BY <1>0, <1>1, <1>2, <2>0, <3>1, FS_EmptySet DEF AnsweredAll
  <2>3. ~ ReadNothing(r)
    BY <1>1, <1>2, EntryLeft DEF ReadNothing, Reading
  <2>4. CASE ReadRefused(r)
    <3>1. pc' = pc /\ pc[r] = "read" /\ i' = [i EXCEPT ![r] = @ + 1] /\ args[r].block < 0
      BY <2>4 DEF ReadRefused, Reading, Answered
    <3>2. ~ (args[r].block >= 0)
      BY <1>2, <3>1
    <3> QED
      BY <1>0, <1>1, <1>2, <2>0, <3>1, <3>2 DEF AnsweredAll
  <2>5. CASE Finish(r)
    <3>1. /\ pc' = [pc EXCEPT ![r] = "done"] /\ i' = i /\ pc[r] = "read"
          /\ i[r] = args[r].read
      BY <1>2, <2>5 DEF Finish, Goto
    <3> QED
      BY <1>0, <1>1, <1>2, <2>0, <3>1 DEF AnsweredAll
  <2> QED
    BY <1>3, <2>1, <2>2, <2>3, <2>4, <2>5 DEF Local
<1>4. ASSUME NEW r \in Runner, Create(r) \/ AddEntry(r) PROVE AnsweredAll'
  <2>1. /\ got' = got
        /\ \A q \in Runner :
             pc'[q] \in {"start", "create", "add"} => pc[q] \in {"start", "create", "add"}
        /\ \A q \in Runner : pc'[q] \in {"read", "done"} => pc'[q] = pc[q] /\ i'[q] = i[q]
    BY <1>2, <1>4 DEF Create, AddEntry, Answered, Unanswered, Goto
  <2> QED
    BY <1>0, <1>1, <2>1 DEF AnsweredAll
<1>5. ASSUME NEW r \in Runner, ReadEntry(r) PROVE AnsweredAll'
  <2>1. /\ i' = [i EXCEPT ![r] = @ + 1] /\ pc[r] = "read"
        /\ group \in Nat /\ group' = group + 1
        /\ \/ got' = [got EXCEPT ![r] = @ \cup {group'}] /\ pc' = pc
           \/ got' = got /\ pc' = [pc EXCEPT ![r] = "aborted"]
    BY <1>5, StreamAssumption
    DEF ReadEntry, Reading, Answered, Unanswered, Goto, StreamInv, TypeOK, Checked
  <2>2. group' \notin got[r]
    BY <1>2, <2>1, StreamAssumption DEF StreamInv, TypeOK, Delivered, Placed
  <2>3. CASE got' = [got EXCEPT ![r] = @ \cup {group'}] /\ pc' = pc
    <3>1. IsFiniteSet(got[r])
      BY <1>1 DEF AnsweredAll
    <3>2. IsFiniteSet(got'[r]) /\ Cardinality(got'[r]) = Cardinality(got[r]) + 1
      BY <1>2, <2>2, <2>3, <3>1, FS_AddElement
    <3> QED
      BY <1>0, <1>1, <1>2, <2>1, <2>3, <3>2 DEF AnsweredAll
  <2>4. CASE got' = got /\ pc' = [pc EXCEPT ![r] = "aborted"]
    BY <1>0, <1>1, <1>2, <2>1, <2>4 DEF AnsweredAll
  <2> QED
    BY <2>1, <2>3, <2>4
<1>6. CASE UNCHANGED vars
  BY <1>1, <1>6 DEF AnsweredAll, vars
<1> QED
  BY <1>3, <1>4, <1>5, <1>6, StepCases

LEMMA CountStep == StreamInv /\ CountInv /\ [Next]_vars => CountInv'
BY BalancedStep, AnsweredStep DEF CountInv

(* If no run reads more than it adds, each that ends without a failure     *)
(* ends with an entry for every read, for any number of runs: whatever     *)
(* the others took of what it added, and wherever they failed.             *)
THEOREM ModestReadAll == Spec => []ModestRunsReadAll
<1>1. CountInv => ModestRunsReadAll
  BY DEF CountInv, AnsweredAll, ModestRunsReadAll
<1> QED
  BY <1>1, StreamInit, StreamStep, CountInit, CountStep, PTL DEF Spec

=============================================================================
