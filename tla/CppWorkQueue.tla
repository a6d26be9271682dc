---------------------------- MODULE CppWorkQueue ----------------------------
(***************************************************************************)
(* The application of gpu_workload_v1: pub_daemon, the pods that run       *)
(* sub_daemon, and the Redis server between them.                          *)
(***************************************************************************)
EXTENDS WorkQueue, CppWorker

TypeOK == QueueTypeOK

Init == QueueInit

WorkerRun(w) == WorkerStep(w) /\ UNCHANGED <<pubVars, serverVars>>

Terminated == Ended /\ UNCHANGED queueVars

Next ==
  \/ Surroundings
  \/ \E w \in Worker : WorkerRun(w)
  \/ Terminated

Spec == Init /\ [][Next]_queueVars

(* As in PyWorkQueue: sequential programs, a kubelet that restarts what    *)
(* failed, a server that deletes expired keys.                             *)
Fairness ==
  /\ WF_queueVars(PublisherRuns)
  /\ WF_queueVars(PublisherRestarts)
  /\ \A w \in Worker : WF_queueVars(WorkerRun(w)) /\ WF_queueVars(WorkerRestarts(w))
  /\ \A k \in LeaseKey : WF_queueVars(LeaseExpires(k))

FairSpec == Spec /\ Fairness

-----------------------------------------------------------------------------
(* Safety *)

(* A worker leaves only when both lists have an element, and the element   *)
(* of the processing list is not its own.  So the last one never leaves,   *)
(* unless a worker died with an item in its hands.                         *)
SomeoneStays == AllExited => orphans # {}

-----------------------------------------------------------------------------
(* Liveness *)

(* The one that stays sees to it that every item that is published is      *)
(* worked on or lost with the server, unless a worker died with an item in *)
(* its hands: then the others may leave with items waiting.                *)
WorksThroughUnlessOrphaned ==
  <>(1 .. (Count - 1) \subseteq worked \cup lost \/ orphans # {})

-----------------------------------------------------------------------------
(* What a message of the program says and the program does not do.         *)

(* sub_daemon.cpp prints "Last item processed exiting": a worker leaves no *)
(* item waiting or no item in progress, and never items of both kinds.     *)
(* (Weaker than the message, which rules out each of the two.)             *)
ExitMeansLastItem ==
  [][\A w \in Worker : pc[w] # "exited" /\ pc'[w] = "exited" =>
       MainEmpty \/ ProcEmpty]_queueVars

=============================================================================
