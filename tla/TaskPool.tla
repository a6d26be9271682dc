------------------------------ MODULE TaskPool ------------------------------
(***************************************************************************)
(* What the work queue promises, without queues, leases or processes: an   *)
(* item that is offered is waiting or in progress until somebody has done  *)
(* the work.  An item may be offered again and may be taken again; it may  *)
(* never leave the pool undone, unless the pool itself is lost.            *)
(***************************************************************************)
CONSTANT Task

VARIABLES waiting,      \* offered and not taken
          inProgress,   \* taken and not reported complete
          finished,     \* the work was done at least once
          lost          \* it was in the pool when the pool was lost

poolVars == <<waiting, inProgress, finished, lost>>

PoolInit ==
  /\ waiting = {}
  /\ inProgress = {}
  /\ finished = {}
  /\ lost = {}

Offer(t) ==
  /\ waiting' = waiting \cup {t}
  /\ UNCHANGED <<inProgress, finished, lost>>

(* One copy is taken; another one may still be waiting. *)
Take(t) ==
  /\ t \in waiting
  /\ inProgress' = inProgress \cup {t}
  /\ waiting' \in {waiting, waiting \ {t}}
  /\ UNCHANGED <<finished, lost>>

(* Whoever took a task may finish it although the pool was lost meanwhile. *)
Finish(t) ==
  /\ t \in inProgress \cup lost
  /\ finished' = finished \cup {t}
  /\ UNCHANGED <<waiting, inProgress, lost>>

Report(t) ==
  /\ t \in finished
  /\ inProgress' = inProgress \ {t}
  /\ UNCHANGED <<waiting, finished, lost>>

Lose ==
  /\ lost' = lost \cup waiting \cup inProgress
  /\ waiting' = {}
  /\ inProgress' = {}
  /\ UNCHANGED finished

PoolNext ==
  \/ \E t \in Task : Offer(t) \/ Take(t) \/ Finish(t) \/ Report(t)
  \/ Lose

PoolSpec == PoolInit /\ [][PoolNext]_poolVars

=============================================================================
