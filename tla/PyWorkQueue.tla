---------------------------- MODULE PyWorkQueue ----------------------------
(***************************************************************************)
(* The application of gpu_workload_v2: the publisher Job, the worker Job   *)
(* with its pods, and the Redis server between them.                       *)
(***************************************************************************)
EXTENDS WorkQueue, PyWorker

(* History, while w is on its way out of the loop: was the publisher done  *)
(* when w read the length of the main list, and which item was it to       *)
(* publish next?                                                           *)
VARIABLES sawDone, sawIdx

looks == <<sawDone, sawIdx>>
vars == <<queueVars, looks>>

TypeOK ==
  /\ QueueTypeOK
  /\ sawDone \in [Worker -> BOOLEAN]
  /\ sawIdx \in [Worker -> 1 .. Count]

Init ==
  /\ QueueInit
  /\ sawDone = [w \in Worker |-> FALSE]
  /\ sawIdx = [w \in Worker |-> 1]

Remember(w) ==
  LET leaving == pc'[w] \in {"check_proc", "exited"}
      looking == pc[w] = "check_main"
  IN  /\ sawDone' = [sawDone EXCEPT ![w] = leaving /\ IF looking THEN PubDone ELSE @]
      /\ sawIdx' = [sawIdx EXCEPT
                      ![w] = IF ~ leaving THEN 1 ELSE IF looking THEN pubIdx ELSE @]

WorkerRun(w) ==
  /\ WorkerStep(w)
  /\ Remember(w)
  /\ UNCHANGED <<pubVars, serverVars>>

Terminated == Ended /\ UNCHANGED vars

Next ==
  \/ Surroundings /\ UNCHANGED looks
  \/ \E w \in Worker : WorkerRun(w)
  \/ Terminated

Spec == Init /\ [][Next]_vars

(***************************************************************************)
(* Every process that can take a step eventually does: the publisher and   *)
(* the workers are sequential programs, the kubelet restarts a failed      *)
(* container, the server deletes expired keys.  Failures are not fair.     *)
(***************************************************************************)
Fairness ==
  /\ WF_vars(PublisherRuns /\ UNCHANGED looks)
  /\ WF_vars(PublisherRestarts /\ UNCHANGED looks)
  /\ \A w \in Worker :
       WF_vars(WorkerRun(w)) /\ WF_vars(WorkerRestarts(w) /\ UNCHANGED looks)
  /\ \A k \in LeaseKey : WF_vars(LeaseExpires(k) /\ UNCHANGED looks)

FairSpec == Spec /\ Fairness

-----------------------------------------------------------------------------
(* Safety *)

(* The two lengths of empty() are read one after the other.  When the      *)
(* first was read after the publisher was done, leaving the loop is right: *)
(* both lists are empty then, and for ever.                                *)
CleanExit ==
  \A w \in Worker : pc[w] = "exited" /\ sawDone[w] => MainEmpty /\ ProcEmpty

(* A worker that leaves early, because the publisher had not started or    *)
(* had not come far, leaves only what was pushed after its last look: what *)
(* was pushed before was worked on, by whichever worker, or was in the     *)
(* lists of a server that was restarted.  (A publisher that starts again   *)
(* begins with 1 again, and counts as such.)                               *)
SeenIsDone ==
  \A w \in Worker :
    pc[w] = "exited" => 1 .. (sawIdx[w] - 1) \subseteq worked \cup lost

(* Without a restarted publisher the lease that complete() deletes is the  *)
(* worker's own, or it had expired: never that of another worker.  And the *)
(* item is off the processing list before its lease is: complete() leaves  *)
(* no item in progress without a lease.                                    *)
ReleasesOwnLease ==
  [][FirstRun =>
       \A w \in Worker : pc[w] = "complete_del" /\ pc'[w] = "check_main" =>
         /\ leases[ItemKey(item[w])] \in {Session(w), NoLease}
         /\ procQ[item[w]] = 0]_vars

-----------------------------------------------------------------------------
(* Liveness *)

(* A worker that starts its check after the publisher is done sees to it   *)
(* that the main list becomes empty, even if workers die on the way.       *)
MainIsDrained ==
  (PubDone /\ \E w \in Worker : pc[w] = "check_main") ~> MainEmpty

(* The worker Job completes, unless a worker died with an item in its      *)
(* hands.                                                                  *)
CompletesUnlessOrphaned == <>(AllExited \/ orphans # {})

-----------------------------------------------------------------------------
(* What comments and messages of the program say and the program does not  *)
(* do.                                                                     *)

(* daemon.py prints "Queue empty, exiting"; empty() "Returns whether both  *)
(* main and processing queue is empty": a worker that leaves the loop      *)
(* leaves two empty lists.                                                 *)
ExitMeansEmpty ==
  [][\A w \in Worker : pc[w] # "exited" /\ pc'[w] = "exited" =>
       MainEmpty /\ ProcEmpty]_vars

(* lease(): "After that duration the current worker can be assumed as      *)
(* non-functional and other workers can pick the same item."  An item      *)
(* whose worker died, and whose lease will therefore run out, is taken up  *)
(* by a worker again.                                                      *)
ExpiredItemIsPickedUp ==
  \A i \in Item :
    (/\ procQ[i] > 0
     /\ leases[ItemKey(i)] # NoLease
     /\ ~ \E w \in Worker : Holds(w, i))
      ~> (procQ[i] = 0 \/ \E w \in Worker : Holds(w, i))

=============================================================================
