---------------------------- MODULE ComposeQueue ----------------------------
(***************************************************************************)
(* testbed/docker-compose-v1 and -v2: redis-consumer-py and a producer as  *)
(* containers.  The consumer is where the worker of gpu_workload_v2 came   *)
(* from, with its commands and its loop; but nobody starts a container     *)
(* again that ended, well or not, nor the server, and "depends_on" orders  *)
(* the starts of producer and consumer only: the first look may find       *)
(* nothing pushed yet.  So this is the queue of WorkQueue with neither     *)
(* PublisherRestarts nor WorkerRestarts nor ServerRestarts.                *)
(***************************************************************************)
EXTENDS WorkQueue, PyWorker

VARIABLE sawOver   \* history: was the producer over when w last read the
                   \* length of the main list?

composeVars == <<queueVars, sawOver>>

ComposeTypeOK == QueueTypeOK /\ sawOver \in [Worker -> BOOLEAN]

ComposeInit == QueueInit /\ sawOver = [w \in Worker |-> FALSE]

ProducerOver == pubPc \in {"done", "down"}

NobodyLeft == \A w \in Worker : pc[w] \in {"exited", "down"}

-----------------------------------------------------------------------------

ProducerRuns == PublisherRuns /\ UNCHANGED sawOver

ProducerFails == PublisherFails /\ UNCHANGED sawOver

(* Variant: the list of items in progress is not asked for. *)
CheckMainList(w) == CheckMainOnly(w) /\ sawOver' = [sawOver EXCEPT ![w] = ProducerOver]

(* empty(), lease() and complete() of RQueue *)
Check(w) ==
  \/ CheckMain(w) /\ sawOver' = [sawOver EXCEPT ![w] = ProducerOver]
  \/ CheckProc(w) /\ UNCHANGED sawOver

LeaseItem(w) == (LeasePop(w) \/ LeaseTimeout(w) \/ LeaseSet(w)) /\ UNCHANGED sawOver

WorkOn(w) == Work(w) /\ UNCHANGED sawOver

(* Variant: complete() deletes the lease and leaves the list alone. *)
DoneDelOnly(w) == (CompleteNoRem(w) \/ CompleteDel(w)) /\ UNCHANGED sawOver

Done(w) == (CompleteRem(w) \/ CompleteDel(w)) /\ UNCHANGED sawOver

ConsumerRun(w) ==
  /\ Check(w) \/ LeaseItem(w) \/ WorkOn(w) \/ Done(w)
  /\ UNCHANGED <<pubVars, serverVars>>

ConsumerFails(w) == WorkerFails(w) /\ UNCHANGED sawOver

KeyExpires(k) == LeaseExpires(k) /\ UNCHANGED sawOver

ContainersEnded ==
  /\ ProducerOver /\ NobodyLeft
  /\ UNCHANGED composeVars

ComposeNext ==
  \/ ProducerRuns \/ ProducerFails
  \/ \E w \in Worker : ConsumerRun(w) \/ ConsumerFails(w)
  \/ \E k \in LeaseKey : KeyExpires(k)
  \/ ContainersEnded

ComposeSpec == ComposeInit /\ [][ComposeNext]_composeVars

(* Sequential processes take their next step; failures need not come. *)
ComposeFairness ==
  WF_composeVars(ProducerRuns) /\ \A w \in Worker : WF_composeVars(ConsumerRun(w))

FairComposeSpec == ComposeSpec /\ ComposeFairness

-----------------------------------------------------------------------------
(* Safety *)

(* A consumer that looked after the producer was over, and left, left      *)
(* nothing: what was published is worked on, even where others died.  (One *)
(* that looked earlier may have left anything.)                            *)
LateExitIsRight ==
  \A w \in Worker :
    pc[w] = "exited" /\ sawOver[w] =>
      MainEmpty /\ ProcEmpty /\ 1 .. (pubIdx - 1) \subseteq worked

(* When everybody is gone, what was published is worked on, or waits, or   *)
(* is in the processing list because a consumer died with it: somebody who *)
(* comes to clean up finds all the rest in the two lists.                  *)
LeftBehind ==
  ProducerOver /\ NobodyLeft =>
    1 .. (pubIdx - 1) \subseteq worked \cup Waiting \cup (InProgress \cap orphans)

-----------------------------------------------------------------------------
(* Liveness *)

(* Nobody takes over from a consumer that died with an item: the others    *)
(* look for ever.  That apart, every consumer ends.                        *)
EndsUnlessOrphaned == <>(NobodyLeft \/ orphans # {})

(* A consumer that starts to look after the producer is over sees to it    *)
(* that the main list is drained, unless it and all that are left die.     *)
DrainedOrDead ==
  (ProducerOver /\ \E w \in Worker : pc[w] = "check_main")
    ~> (MainEmpty \/ (NobodyLeft /\ crashes > 0))

=============================================================================
