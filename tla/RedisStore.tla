----------------------------- MODULE RedisStore -----------------------------
(***************************************************************************)
(* The Redis server, as far as the work-queue programs use it: the main    *)
(* list <queue>, the list <queue>:processing and the expiring keys         *)
(* <queue>:leased_by_session:<hash>.  The server executes one command at a *)
(* time, so every command is one atomic change of the three variables.     *)
(*                                                                         *)
(* The main list keeps its order, left end first: the programs append with *)
(* RPUSH and take with (B)RPOPLPUSH, both at the right end.  Nobody ever   *)
(* looks at the order of the processing list (LLEN and LREM-by-value are   *)
(* its only readers), so it is the number of copies of each item.          *)
(***************************************************************************)
EXTENDS Naturals, Sequences

CONSTANTS Item,      \* the payloads that may be pushed
          LeaseKey,  \* the names a lease key can have
          NoLease    \* the answer of the server for a key that does not exist

VARIABLES mainQ,     \* list <queue>
          procQ,     \* list <queue>:processing, as copies per item
          leases     \* the lease keys and the values they hold

storeVars == <<mainQ, procQ, leases>>

StoreTypeOK(Value) ==
  /\ mainQ \in Seq(Item)
  /\ procQ \in [Item -> Nat]
  /\ leases \in [LeaseKey -> Value \cup {NoLease}]

StoreInit ==
  /\ mainQ = <<>>
  /\ procQ = [i \in Item |-> 0]
  /\ leases = [k \in LeaseKey |-> NoLease]

-----------------------------------------------------------------------------

(* LLEN = 0, on each list *)
MainEmpty == mainQ = <<>>
ProcEmpty == \A i \in Item : procQ[i] = 0

InMain(i) == \E n \in 1 .. Len(mainQ) : mainQ[n] = i

(* The items on each list *)
Waiting == {i \in Item : InMain(i)}
InProgress == {i \in Item : procQ[i] > 0}

RPush(i) ==
  /\ mainQ' = Append(mainQ, i)
  /\ UNCHANGED <<procQ, leases>>

(* The answer of (B)RPOPLPUSH and the move it makes when there is one. *)
Rightmost == mainQ[Len(mainQ)]

(* Variants: RPOP, which forgets the destination, and LINDEX followed by   *)
(* LPUSH, which leaves the item where it was.                              *)
RPopOnly ==
  /\ ~ MainEmpty
  /\ mainQ' = SubSeq(mainQ, 1, Len(mainQ) - 1)
  /\ UNCHANGED <<procQ, leases>>

CopyRightmost ==
  /\ ~ MainEmpty
  /\ procQ' = [procQ EXCEPT ![Rightmost] = @ + 1]
  /\ UNCHANGED <<mainQ, leases>>

RPopLPush ==
  /\ ~ MainEmpty
  /\ mainQ' = SubSeq(mainQ, 1, Len(mainQ) - 1)
  /\ procQ' = [procQ EXCEPT ![Rightmost] = @ + 1]
  /\ UNCHANGED leases

SetEx(k, v) ==
  /\ leases' = [leases EXCEPT ![k] = v]
  /\ UNCHANGED <<mainQ, procQ>>

(* LREM with count 0 removes every copy of the value. *)
LRemAll(i) ==
  /\ procQ' = [procQ EXCEPT ![i] = 0]
  /\ UNCHANGED <<mainQ, leases>>

Del(k) ==
  /\ leases' = [leases EXCEPT ![k] = NoLease]
  /\ UNCHANGED <<mainQ, procQ>>

(* The time to live of a lease key runs out. *)
Expire(k) ==
  /\ leases[k] # NoLease
  /\ Del(k)

(* The server is started again.  Its container has no volume and the       *)
(* database is in memory: everything is gone.                              *)
Wipe ==
  /\ mainQ' = <<>>
  /\ procQ' = [i \in Item |-> 0]
  /\ leases' = [k \in LeaseKey |-> NoLease]

=============================================================================
