----------------------------- MODULE Publisher -----------------------------
(***************************************************************************)
(* A publisher: one process that pushes WorkItem-1, WorkItem-2, ... and    *)
(* ends.  RedisPublisher of cuda-redis-py/publisher.py, as run by          *)
(* "daemon.py --action=pub", is the reference; the other producers of the  *)
(* repository are the same loop with another last number.  The publisher   *)
(* Job restarts the process from the beginning when it fails               *)
(* (restartPolicy: OnFailure), so a failure in the middle publishes the    *)
(* first items again.  Item n is WorkItem-n.                               *)
(***************************************************************************)
EXTENDS RedisStore

CONSTANTS Count,           \* argument of publish(): one more than the last item
          MaxPubRestarts   \* bound: failures of the publisher explored

ASSUME PublisherAssumption ==
  /\ Count \in Nat \ {0}
  /\ 1 .. (Count - 1) \subseteq Item
  /\ MaxPubRestarts \in Nat

VARIABLES pubPc,        \* "publishing", "down" or "done"
          pubIdx,       \* idx of the loop in publish()
          pubRestarts   \* failures so far

pubVars == <<pubPc, pubIdx, pubRestarts>>

PubTypeOK ==
  /\ pubPc \in {"publishing", "down", "done"}
  /\ pubIdx \in 1 .. Count
  /\ pubRestarts \in Nat

PubInit ==
  /\ pubPc = "publishing"
  /\ pubIdx = 1
  /\ pubRestarts = 0

PubDone == pubPc = "done"

-----------------------------------------------------------------------------

(* Variant: the range taken to include its end, range(1, count + 1). *)
PublishThroughCount ==
  /\ pubPc = "publishing"
  /\ pubIdx <= Count
  /\ RPush(pubIdx)
  /\ pubIdx' = pubIdx + 1
  /\ UNCHANGED <<pubPc, pubRestarts>>

(* One turn of "for idx in range(1, count)". *)
Publish ==
  /\ pubPc = "publishing"
  /\ pubIdx < Count
  /\ RPush(pubIdx)
  /\ pubIdx' = pubIdx + 1
  /\ UNCHANGED <<pubPc, pubRestarts>>

(* The range is exhausted: the process exits with 0, the Job is complete. *)
PubExit ==
  /\ pubPc = "publishing"
  /\ pubIdx = Count
  /\ pubPc' = "done"
  /\ UNCHANGED <<pubIdx, pubRestarts, storeVars>>

(* The process dies, or a command raises ConnectionError.  A failure after *)
(* the server executed RPUSH and before the answer is a failure in the     *)
(* state that follows Publish.                                             *)
PubCrash ==
  /\ pubPc = "publishing"
  /\ pubRestarts < MaxPubRestarts
  /\ pubPc' = "down"
  /\ pubRestarts' = pubRestarts + 1
  /\ UNCHANGED <<pubIdx, storeVars>>

PubRestart ==
  /\ pubPc = "down"
  /\ pubPc' = "publishing"
  /\ pubIdx' = 1
  /\ UNCHANGED <<pubRestarts, storeVars>>

(* What the publisher process does by itself. *)
PubStep == Publish \/ PubExit

=============================================================================
