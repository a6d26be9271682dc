# Work queues with leases: models, checks and proofs

The repository is a set of study notes on Kubernetes with manifests, a few demo
servers, and one piece of program logic that is worth a specification: a **work
queue on Redis**. A publisher pushes items to a list. Workers move an item to a
second list (`BRPOPLPUSH`), write a lease that expires (`SETEX`), do the work, and
tell the server that it is complete (`LREM`, `DEL`). The repository holds this queue
in six programs that differ where it hurts: in how a worker finds out that it may
leave, in what it makes of an answer that does not come, and in who starts it again.
A seventh program tries the streams of Redis with a consumer group.

This directory specifies them in TLA+, checks them with TLC on small instances and
proves, with TLAPS, what holds for every number of workers, items and failures.

## 1. Inventory

| part | source | state | operations | model |
|---|---|---|---|---|
| Redis server | external; `server-pod.yaml` | main list, processing list, lease keys | `LLEN` `RPUSH` `BRPOPLPUSH` `SETEX` `LREM` `DEL`, expiry, restart with an empty database | RedisStore, WorkQueue |
| Python publisher | `prototypes/image-repos/cuda-redis-py/publisher.py`, `daemon.py --action=pub`, `publisher-job.yaml` | loop index | push next, exit, fail, restart from item 1 | Publisher |
| Python worker | `worker.py`, `daemon.py --action=sub`, `worker-job.yaml` | position in the loop, item, session | `empty()`, `lease()`, work, `complete()`, fail, restart | LeaseWorker, PyWorker, PyWorkQueue |
| C++ publisher and worker | `prototypes/image-repos/cuda-redis-cpp/redis-utils`, Jobs of `gpu_workload_v1` | the same | the same commands; another `empty()`; keys by `std::hash` | LeaseWorker, CppWorker, CppWorkQueue |
| earlier C++ worker | `testbed/redis-cpp-queue` | the same | loop ends on an item `EOQ`; nobody restarts it | EoqQueue |
| earlier Python worker | `testbed/redis-consumer-py`, `redis-producer-py`, `docker-compose-v1.yaml`, `-v2` | the same | as the Python worker; nobody restarts it | ComposeQueue |
| hiredis queue, first version | `testbed/c-hiredis-combined` (the same source in `c-hiredis-consumer`) | the same, and whether the `redisContext` still works | the same commands; `END` for "no item"; nothing is thrown when the connection breaks | HiredisQueue, EndQueue |
| hiredis queue, second version | `testbed/redis-consumer-c`, `redis-producer-c`, `docker-compose-v3.yaml` | the same | the popped item never reaches the caller | HiredisQueue, LeakQueue |
| stream demo | `testbed/hiredis-stream-example/stream.c` | arguments, loop counter; the stream and its group | `XGROUP CREATE`, `XADD`, `XREADGROUP` | StreamDemo |
| demo servers | `fundamentals/code/**/server.js` (copies under `practices/`) | request counter; a file per request | answer, answer 500 from the n-th request on | none (section 5) |
| manifests and notes | `*.yaml`, `*.md` | none | none | where they start, restart or multiply a process |

**Interaction.** The processes share nothing but the server, which executes one
command at a time. So every command is an atomic step, and everything between two
commands of a process may be interleaved with the others.

**What is hard here.**

* `empty()` is two commands, not one (`worker.py:47`); the same for its C++ relatives,
  whose condition is another one (`subscriber.cpp:28`, `rqueue.cpp:125`).
* A worker may die between any two commands: after the pop and before the lease, at
  its work, between `LREM` and `DEL`. A restarted pod is a new session that knows
  nothing of the old one.
* Nobody returns an item from the processing list. The item of a dead worker stays
  there, and every `empty()` of the others looks at that list.
* A restarted publisher publishes the first items again; copies share a payload, a
  lease key, and the `LREM` that removes them all.
* The Redis pod has no volume: started again it has no lists and no leases, while
  workers hold items and the publisher goes on from where it is.
* Leases expire while their holder still works; `DEL` does not ask whose lease it is.
* hiredis does not throw: after a broken connection `_llen()` returns an
  uninitialised variable and `_rpoplpush()` reports an empty queue.
* Redis takes from the end it pushes to: an `EOQ` overtakes what waits.
* The testbed's containers are not started again: what one leaves, nobody takes over.
* All runs of `stream.c` read as one member of one group, without acknowledgement: what
  one adds another reads, and an answer that is lost is an entry that is lost.

**What makes each part correct.** The server's view of what is in progress agrees with
the workers'; an item does not leave the queue undone; it is handed out once unless the
publisher repeated it; a lease that names a worker is about what the worker does, and a
worker releases no other worker's lease; a worker leaves when there is nothing left,
and the Job completes. Of the streams: each entry is delivered once, and a program that
reads no more than it added gets what it asks for.

## 2. Modules

    RedisStore            the server: two lists, lease keys, one action per command
      Publisher           the publisher process and its restarts
      LeaseWorker         lease(), the work, complete(), failures of a worker
        PyWorker          the loop and empty() of daemon.py / worker.py
        CppWorker         the loop and empty() of sub_daemon.cpp / subscriber.cpp
      WorkQueue           Publisher + LeaseWorker + server restarts, empty() left open
        PyWorkQueue       gpu_workload_v2: WorkQueue with PyWorker
        CppWorkQueue      gpu_workload_v1: WorkQueue with CppWorker
        ComposeQueue      redis-consumer-py: WorkQueue with PyWorker, nobody restarts
      EoqQueue            redis-cpp-queue: Publisher + LeaseWorker, a loop that ends on EOQ
      HiredisQueue        util::RedisQueue: Publisher, connections that break
        EndQueue          c-hiredis-combined
        LeakQueue         redis-consumer-c
    StreamDemo            stream.c: several runs on one stream and group
    TaskPool              what a queue promises, without queues
    MC*                   instances for TLC
    *_proofs              theorems

**RedisStore** is external: it is modelled from how the programs use the server. The
main list is a sequence because the programs push and pop at the same end. The
processing list is the number of copies of each payload: its order has no reader
(`LLEN` and `LREM` by value are all there is). A lease key holds a value or
`NoLease`; it may expire at any time, because no duration in the code (5 s lease, 2 s
of work, 2 s timeout) is enforced against another one. `Wipe` is the restart of the
server with an empty database.

**Publisher** follows `publish()`: `pubIdx` is `idx` of the loop, `Count` its argument
(20 in `daemon.py`; 16 stands for the loop to 15 of `pub_daemon.cpp`, 11 for the loops
to 10). A failure in the middle takes it back to the first item, as its Job does
(`PubRestart`; the testbed's queues, which nobody restarts, do not take that step).
Item n stands for the payload `WorkItem-n`.

**LeaseWorker** has one action per command. `pc[w]` names the command a worker sends
next:

| `pc` | code |
|---|---|
| `check_main`, `check_proc` | the two `LLEN` of `empty()` |
| `lease_pop` | blocked in `BRPOPLPUSH` |
| `lease_set` | item popped, `SETEX` not sent |
| `work` | the work (`time.sleep(2)`) |
| `complete_rem`, `complete_del` | `LREM` and `DEL` of `complete()` |
| `exited`, `down` | left the loop; failed and not yet restarted |

A command that the server executed and whose answer was lost, with the exception that
follows, is `Crash` in the state after the command. `life[w]` numbers the processes of
a pod, so `Session(w)` is fresh for each as a `uuid4` is. `worked` and `orphans` are
history: no guard reads them.

**WorkQueue** composes the two and leaves `empty()` open: `Look` lets a worker go
anywhere. What is proved of it holds of the three programs that implement it
(`PyIsQueue`, `CppIsQueue`, `ComposeIsQueue`). `ServerRestarts` empties the store under the running
processes: a client that waits for an answer at that moment fails, which is `Crash` or
`PubCrash`; of those that are busy with something else redis-py connects again with its
next command and notices nothing, while redis++ throws (`Crash` and `PubCrash` again).
The model allows both of either program. The history `lost` keeps what was in the lists.
**PyWorkQueue** adds two more history variables, `sawDone` and `sawIdx`: whether the
publisher was done, and which item it was to push next, when a worker that is on its way
out of the loop last read the length of the main list.

**ComposeQueue** is the Python testbed. The class and the loop are those of the worker
above, so it reuses PyWorker; what differs is the surroundings, those of WorkQueue without
the restarts of publisher, worker and server. `depends_on` orders the starts of the
containers and nothing else, and a container that ended, well or not, is over. `sawOver` is `sawDone` for a producer that may also have died.

**EoqQueue** has the commands of LeaseWorker in a loop that asks nobody whether the queue
is empty: it turns, leases, and ends before `complete()` on an item `Eoq`. The line that
would send one is a comment, so `SendEoq` stands for somebody at a Redis client and may
happen at any time. `NoItem` after a timeout goes round the loop, as in the code.

**HiredisQueue** adds `linked[c]`: the `redisContext` works. Without it a command is not
seen by the server and `_llen() = 0` is any Boolean, anew at each call (it returns an
uninitialised variable). **EndQueue** and **LeakQueue** are the two loops. In LeakQueue
`SETEX`, the work, `LREM` and `DEL` have no action: `_rpoplpush` gets the caller's
pointer by value, so the branch that would reach them is dead in this program.

**StreamDemo** tells entries by their place in the stream, so a group is the place of the
last entry it delivered. `args` holds the three numbers of a run; `Arguments` refuses
two of them below 0 and lets the third pass, as the code does. `XREADGROUP` has three
answers: an entry (`ReadEntry`, at once or while it waits), none in time
(`ReadNothing`, never with a block time of 0), an error (`ReadRefused`, block time below
0), and each counts as one turn of the loop. An answer that does not come ends the run
(`assertReply`), after the server did its part or before.

**TaskPool** is the abstract specification: tasks are offered, taken, finished and
reported; a task may be offered and taken again, and it leaves the pool only when it
was finished, or with the whole pool (`Lose`). `ImplementsPool` maps the main list to
`waiting`, the processing list to `inProgress`, `worked` to `finished` and the history
of server restarts to `lost` (the empty set where the server is not restarted).
Publishing offers, `LeasePop` takes, `Work` finishes, `CompleteRem` reports; everything
else stutters. The interesting steps are `Work` and `CompleteRem` of a worker whose copy
another worker's `LREM`, or a restart of the server, has removed.

Definitions marked "Variant" are plausible mistakes at the place they stand (an `LREM`
left out, or sent after the `DEL`, another condition in `empty()`), kept to show that each
property notices one of them. No specification uses them.

## 3. Runs

| run | instance | result |
|---|---|---|
| PySafety | 2 workers, 2 items, 2 worker failures, 1 of the publisher, 1 restart of the server | holds: TypeOK, InProgressAccounted, LeasesNameHolders, SingleDelivery, NothingVanishes, CleanExit, SeenIsDone, ReleasesOwnLease, ImplementsPool (2.0M states) |
| PyLiveness | 2 workers, 2 items, 1 worker failure, 1 of the publisher | holds: MainIsDrained, CompletesUnlessOrphaned (177k states) |
| CppQueue | 2 workers, 2 items with one hash, 1 worker failure, 1 of the publisher, 1 restart of the server | holds: TypeOK, LeasesNameHolders, SomeoneStays, ImplementsPool, WorksThroughUnlessOrphaned (441k states) |
| EoqQueue | 3 workers, 2 items and 2 EOQs with one hash, 1 worker failure, 1 of the publisher | holds: TypeOK, OneEoqPerWorker, StoppedByEach, ImplementsPool, WorksThrough (134k states) |
| ComposeQueue | 3 consumers, 2 items, 2 failures, 1 of the producer | holds: ComposeTypeOK, LateExitIsRight, LeftBehind, EndsUnlessOrphaned, DrainedOrDead (186k states) |
| EndQueue | 2 consumers, 3 items with one hash, 2 failures, 1 of the producer | holds: TypeOK, ProcessingIsHeld, LeaveNothingBehind, ImplementsPool, EveryoneLeaves, DrainedAfterProducing (110k states) |
| LeakQueue | 2 consumers, 3 items, 2 failures, 1 of the producer | holds: TypeOK, NothingIsLost, ExitLeavesItemsBehind, SomeoneFinishes (12k states) |
| StreamDemo | 2 runs, every combination of arguments from -1 to 2, at most 1 older entry, 1 failure | holds: TypeOK, Accounted, ModestRunsReadAll, ModestRunsEnd (437k states) |
| PyEarlyExit | no failures | **violated**: ExitMeansEmpty |
| PyOrphan | 1 worker failure | **violated**: ExpiredItemIsPickedUp |
| CppExit | no failures | **violated**: ExitMeansLastItem |
| LeakExit | no failures | **violated**: ExitMeansAllProcessed |

What the violated ones show:

* **PyEarlyExit.** Both lists are empty when a worker reads the length of the main
  list. The publisher pushes an item. The worker reads the length of the processing
  list, finds 0, prints "Queue empty, exiting" and is gone. `SeenIsDone` says how far
  this goes: a worker that leaves, be it because it started before the publisher, leaves
  undone only what was pushed after its last look. And once the publisher was done before
  the first reading, an exit is right (`CleanExit`).
* **PyOrphan.** `lease()` promises that after the lease "other workers can pick the same
  item". A worker dies with an item and a lease on it, and the lease expires. Nothing
  reads the lease keys (`_lease_exists` has no caller) and nothing moves an item back. The
  item stays in the processing list, and as `empty()` looks at that list, a worker that is
  in its loop, the restarted one included, waits for ever.
* **CppExit.** `empty()` is true when both lists have an element. A worker leaves while
  an item waits and another worker holds one: the property asks less than the message
  "Last item processed" says, namely that one of the lists be empty, and even that is
  false. What saves the queue is that the worker
  whose own item is the only one in progress cannot leave: `SomeoneStays`, and with
  fairness `WorksThroughUnlessOrphaned`. The price is that the Job never completes.
* **LeakExit.** "All items processed, exiting..." is printed with every item the consumer
  took in the processing list, for ever.

What the passing ones say of the behaviours one would worry about:

* A restart of the server costs the items that were in its lists and no others
  (`NothingVanishes`), and a worker that held one may still finish it. It does not break
  the leases: a worker that notices nothing writes and deletes only leases of its own
  items (`LeasesNameHolders`).
* `EOQ` is not a shutdown of the queue: each stops one worker, stays in the processing
  list, and may do so with items waiting (`OneEoqPerWorker`, `StoppedByEach`). All the
  items are worked on as long as there are more workers than EOQs and failures
  (`WorksThrough`).
* Of the testbed's consumers one that looks too early, before the producer has pushed
  anything, leaves for good; one that looked after the producer was over and left is
  right, even if others died (`LateExitIsRight`). A consumer that died with an item
  keeps all the others looking for ever (`EndsUnlessOrphaned`); apart from that item
  everything published is done or found in the main list (`LeftBehind`).
* Two runs of `stream.c` take each other's entries. Still, if neither reads more than it
  adds, each that ends well has read as much as it asked for, and neither waits for ever,
  not even with a block time of 0 (`ModestRunsReadAll`, `ModestRunsEnd`): a run adds
  before it reads.

**Bounds.** `MaxCrashes`, `MaxPubRestarts`, `MaxServerRestarts`, `MaxLosses`, `MaxEoqs`,
`MaxOlder` and `MaxFailures` bound what is explored; `Item`, `Count` and the sets of
processes are small. Two workers are enough for the races: every property relates one
worker to the server or to one other worker, and the theorems, where there is one, cover
every number. Three are used where it takes one that stops, one that dies and one that
stays (EoqQueue, ComposeQueue). Two failures let one pod die in two different places or
both pods die; with two items a worker can be busy while another item waits; the hiredis
queues are small enough for three. One restart of the publisher makes copies of every
item. One restart of the server separates what was before from what is after, and a
second would meet the states of the first. It is left out of PyLiveness, where it can
only empty the lists that the properties want to see empty. The Python runs give every
item a key of its own (SHA-224), the C++ and hiredis runs one key to all, the worst
`std::hash` may do. The arguments of StreamDemo contain the refused, the empty and the
special case of each of the three numbers. Symmetry over the workers is used in PySafety
only, which has no liveness property.

Deadlock is checked in every run. The end of all processes is an explicit `Terminated`
step; in StreamDemo it includes runs that wait with a block time of 0 for an entry nobody
adds, which is what such a run does, and `ModestRunsEnd` says when it is not met.

**Fairness.** Weak fairness of each process's next step: the programs are sequential and
the operating system runs them. Weak fairness of restarts where something restarts:
`restartPolicy: OnFailure` and `restart: on-failure`; ComposeQueue, EoqQueue, EndQueue and
StreamDemo have none. Weak fairness of expiry in the Job models: Redis deletes expired
keys. Failures, restarts of the server, EOQs, and which of two blocked workers gets an
item, are not fair. Nothing needs strong fairness: a worker blocked in `BRPOPLPUSH` always
has a step, the pop or the timeout, and the only command that may wait without end is
`XREADGROUP` with a block time of 0, whose step is enabled from the moment an entry is
there until another run takes it.

## 4. Theorems

All are proved for every set of processes, items and keys, every `Count` and every number
of failures, from the assumptions named in the modules: `PublisherAssumption` (the
numbers below `Count` are items), `WorkerAssumption` (there is a worker; `NoItem` and
`NoLease` are not items and sessions; `KeyOf` maps items to keys), `ServerAssumption`,
`ConsumerAssumption` and `BufferAssumption` (the same for the hiredis queues),
`EoqAssumption` (`Eoq` is an item nobody publishes; the workers are a finite set, so that
they can be counted), `StreamAssumption` (arguments are integers) and, for Python only,
`DigestAssumption` (the digest tells items apart). No proof uses fairness.

`RedisStore_proofs` has what `RPOPLPUSH` and `RPUSH` do to both lists, and that a main
list without repetition stays one. `WorkQueue_proofs` proves eight theorems of the queue
with an open `empty()`:

| theorem | invariant behind it |
|---|---|
| `TypeCorrect` | `TypeInv`: with the types, a worker between pop and `DEL` has an item (`HasItem`) |
| `ProgressCorrect` (InProgressAccounted) | `ProgressInv`: before `LREM` the item was worked on, so a copy that another `LREM` or the server's restart removed is accounted for |
| `LeasesCorrect` (LeasesNameHolders) | `LeaseInv`: no lease bears a session newer than the pod's present one, so a restarted worker meets no lease of its own |
| `DeliveredOnce` (SingleDelivery) | `DeliveryInv`: until the publisher is started again (`FirstRun`; it may have failed), the main list has no payload twice, nothing in it was touched, and a touched item has one copy and one handler |
| `NothingVanishesCorrect` (NothingVanishes) | `VanishInv`: every index below `pubIdx` is somewhere; it needs `ProgressInv` at `LREM` |
| `QueueIsPool` (ImplementsPool) | `TypeInv` and `ProgressInv`; one lemma per kind of step, `Wipe` being `Lose` |
| `DeathStrandsCorrect` (DeathStrands) | `ProgressInv` and `DeliveryInv`: the item of a dying worker is in the processing list, once, and no other worker has it |
| `StrandedForGood` (StrandedStays) | `TypeInv`: a step takes an item out of the processing list only if some worker holds it, and into a worker's hands only from the main list |

`PyWorkQueue_proofs`, about the Python worker in both its surroundings (PyWorkQueue and
ComposeQueue), and `CppWorkQueue_proofs` first prove that each application is such a queue
(`PyIsQueue`, `ComposeIsQueue`, `CppIsQueue`: each step is a step of the queue), inherit its
theorems, and add what depends on the program:

* `ExitCorrect` (CleanExit), from `ReadingsHold`: when the publisher was done at the first
  reading, an empty main list stays empty, and then the processing list only shrinks. With
  `VanishInv` this gives `WorkIsDoneCorrect` (WorkIsDone): after a late look nothing is left
  to do.
* `SeenIsDoneCorrect` (SeenIsDone), from `SeenInv`: by NothingVanishes what had been pushed
  before a look that found the main list empty is in progress, worked on or lost
  (`check_proc`), and it leaves the processing list only when it was worked on, or with the
  server (`LeavesDone`, from `ProgressInv`).
* `LateExitCorrect` (LateExitIsRight) and `LeftBehindCorrect` (LeftBehind) for ComposeQueue,
  from `OverHolds`. Both exits rest on the same lemmas about a worker's two readings
  (`FoundEmpty`: what it has found empty is empty); they differ in what ends the
  publishing, a Job that is done or a container that may also have died.
* `OwnLeaseReleased` (ReleasesOwnLease), from `OwnerInv`: an item that has a lease is not in
  the main list, and a lease of an item in a worker's hands is that worker's; and from
  `RemovedInv`: between `LREM` and `DEL` the item is off the processing list. Both need
  `DeliveryInv`, the first also the assumption on the digest.
* `StrandedHangsJob` (JobHangs): with an item stranded no Python worker leaves, for `empty()`
  reads the processing list. With `DeathStrandsCorrect` and `StrandedForGood` this is the
  price of one failure, for any number of workers: a worker that dies with an unfinished
  item strands it, the item stays where it is, and nobody leaves any more, until the
  publisher or the server is started again. It is the safety half of what PyOrphan shows,
  and why CompletesUnlessOrphaned has its second disjunct.
* `OrphanHangsConsumers` (ConsumersHang), the same for ComposeQueue, where nothing is started
  again and so nothing helps: from `OrphansStranded`, the unfinished item of a dead consumer
  is stranded from its death on.
* `SomeoneAlwaysStays` (SomeoneStays): the last C++ worker would have to find an element in the
  processing list, which by `InProgressAccounted` some worker holds or a dead one held.

`EoqQueue_proofs`:

* `EoqTypeCorrect`, from types and `HasItem`.
* `EoqStopsOne` (OneEoqPerWorker), from `EoqInv`: besides the count, a worker with an `EOQ`
  is on its way to `Break`, so it never comes to `LREM`. The count needs the cardinality of
  a finite set of workers to which one is added.
* `OneForEach` (StoppedByEach), from `CountInv`: every EOQ that was sent is a place of the
  main list or in the processing list, and every failure is a worker that is down. With
  `EoqInv` the workers that left and those that failed are no more than EOQs and failures.
* `EoqIsPool` (ImplementsPool), with its own `ProgressInv`.

`EndQueue_proofs`. A consumer that has an item not reported complete is `Busy`:

* `EndTypeCorrect`, from `TypeInv`.
* `ProcessingHeldCorrect` (ProcessingIsHeld), from `ListInv` (every payload is at most once
  in the two lists together: the producer is not restarted) and `HeldInv` (what a busy
  consumer holds is there once, no two hold the same, and a consumer without a connection
  holds only what counts as stray). The first is what makes the second survive `LREM`.
* `NothingLeftBehind` (LeaveNothingBehind), from `NoLossInv`: without a failure nothing is
  stray, everybody is connected, and every lease key is that of some consumer's item: it is
  the consumer that deletes last, of those whose items share a hash, that clears it.
* `EndIsPool` (ImplementsPool), from `WorkedInv`: before `LREM` the item was worked on.

`LeakQueue_proofs`: `LeakTypeCorrect`; `LeakedNotLost` (NothingIsLost), from `ListInv` (each
payload that was pushed is in one of the lists and once); `LeakBeforeExit`
(ExitLeavesItemsBehind): an element of the processing list stays, so what a connected
consumer saw when it left is still there.

`StreamDemo_proofs`, for any number of runs and any arguments: `StreamTypeCorrect`, with the
bounds of the two loops, from `Checked` (a run past its arguments has none below 0, and one
past `Create` has a group); `EntriesAccounted` (Accounted), from `BeforeGroup` (nobody has an
entry before there is a group), `Placed` (every place from the group's start to its last
delivery is with a run or lost, and no other is) and `Apart`.
`ModestReadAll` (ModestRunsReadAll) compares what all runs added with what all runs read,
whatever their number. `Balanced` says that the runs' shares add up: what each added to the
growth of the stream, what each took to the group's progress, and no run took more than it
added. A run with a read to come took less, so the group is behind the stream and there is
an entry to answer it (`EntryLeft`); `AnsweredAll` counts the answers. A sum is the size of a
finite set of pairs (run, n) (`Counted`) that grows by one pair a step, which spares the
proof an induction over the runs.

**Model-checked only.** All liveness properties (MainIsDrained, CompletesUnlessOrphaned,
WorksThroughUnlessOrphaned, WorksThrough, EndsUnlessOrphaned, DrainedOrDead, EveryoneLeaves,
DrainedAfterProducing, SomeoneFinishes, ModestRunsEnd): they need fairness and ENABLED, which
the prover does not reach. Every other property of the passing runs is stated by a theorem.
DeathStrands, StrandedStays, JobHangs and ConsumersHang are stated in the proof modules and are
not among the runs' properties; TLC finds the first three to hold of the instance of PySafety
and the last of that of ComposeQueue.

## 5. Not modelled, and why

* The branch `blocking=False` of `lease()` and `_lease_exists()`: no caller. (The branch
  sends the blocking command without a timeout, so it would wait where it should not.)
* Parsing of arguments (`*argv[2]` as a port in `sub_daemon.cpp`), printing, connection
  set-up other than its failure.
* The node servers and rolling updates: each server is one counter and one comparison in a
  single-threaded handler. What is of interest, how a roll-out meets a version that
  fails from its tenth request on, is done by Kubernetes and by no code of the repository.
* The configmap demo server: it keeps no state and reads a file for every request.
* Persistence of the server: its pods have no volume.
* The limit on restarts of a Job (`backoffLimit` is Kubernetes' default): the bounds on
  failures stay below it.
* Manifests of stock images and the notes: no program logic.
