----------------------------- MODULE StreamDemo -----------------------------
(***************************************************************************)
(* testbed/hiredis-stream-example/stream.c: several runs of the program    *)
(* share one stream and one consumer group.  A run                         *)
(*                                                                         *)
(*   checks its arguments                        Arguments                 *)
(*   XGROUP CREATE ... $ MKSTREAM                Create                    *)
(*   add times: XADD                             AddEntry, StartReading    *)
(*   read times: XREADGROUP BLOCK COUNT 1 NOACK  ReadEntry, ReadNothing,   *)
(*                                               ReadRefused, Finish       *)
(*                                                                         *)
(* Entries are told by their place in the stream.  The server gives an     *)
(* entry to one reader of a group; with NOACK it is then forgotten.        *)
(***************************************************************************)
EXTENDS Integers, FiniteSets

CONSTANTS Runner,       \* the runs of the program
          Argument,     \* the values its three arguments may have
          NoGroup,      \* before the group is made
          MaxOlder,     \* bound: entries added by others before
          MaxFailures   \* bound: runs that fail

ASSUME StreamAssumption ==
  /\ Argument \subseteq Int
  /\ NoGroup \notin Nat
  /\ MaxOlder \in Nat
  /\ MaxFailures \in Nat

VARIABLES args,      \* run -> its arguments
          pc,        \* run -> where it is
          i,         \* run -> the counter of its loop
          older,     \* entries that were there before the first run
          entries,   \* entries of the stream
          group,     \* last entry the group has delivered
          got,       \* run -> entries it has read
          lost,      \* entries delivered in an answer that never came
          failures

server == <<older, entries, group>>
vars == <<args, pc, i, older, entries, group, got, lost, failures>>

Over == {"done", "aborted"}
PC == {"start", "create", "add", "read"} \cup Over

TypeOK ==
  /\ args \in [Runner -> [add : Argument, read : Argument, block : Argument]]
  /\ pc \in [Runner -> PC]
  /\ i \in [Runner -> Nat]
  /\ older \in Nat /\ entries \in Nat /\ group \in Nat \cup {NoGroup}
  /\ got \in [Runner -> SUBSET Nat] /\ lost \subseteq Nat
  /\ failures \in Nat
  /\ \A r \in Runner : /\ pc[r] = "add" => i[r] <= args[r].add
                       /\ pc[r] = "read" => i[r] <= args[r].read

Init ==
  /\ args \in [Runner -> [add : Argument, read : Argument, block : Argument]]
  /\ pc = [r \in Runner |-> "start"]
  /\ i = [r \in Runner |-> 0]
  /\ older \in 0 .. MaxOlder
  /\ entries = older
  /\ group = NoGroup
  /\ got = [r \in Runner |-> {}]
  /\ lost = {}
  /\ failures = 0

-----------------------------------------------------------------------------

Goto(r, label) == pc' = [pc EXCEPT ![r] = label]

(* An answer that does not come makes the run abort (assertReply). *)
Unanswered(r) ==
  /\ failures < MaxFailures
  /\ failures' = failures + 1
  /\ Goto(r, "aborted")

(* dumpReply() prints the answer.  It aborts on a type it does not know;   *)
(* it knows all that the answer to an XREADGROUP is made of.               *)
Answered(r) == UNCHANGED <<pc, failures>>

(* Variant: only the first argument is looked at. *)
ArgumentsAddOnly(r) ==
  /\ pc[r] = "start"
  /\ IF args[r].add < 0 THEN Goto(r, "aborted") ELSE Goto(r, "create")
  /\ UNCHANGED <<args, i, server, got, lost, failures>>

(* A block time below 0 is let through.  (A run with too few arguments     *)
(* aborts before it does anything, as one that is refused does here.)      *)
Arguments(r) ==
  /\ pc[r] = "start"
  /\ IF args[r].add < 0 \/ args[r].read < 0 THEN Goto(r, "aborted") ELSE Goto(r, "create")
  /\ UNCHANGED <<args, i, server, got, lost, failures>>

(* Variant: a group that exists is made again, at the end of the stream. *)
CreateAgain(r) ==
  /\ pc[r] = "create"
  /\ group' = entries
  /\ (Goto(r, "add") /\ UNCHANGED failures) \/ Unanswered(r)
  /\ UNCHANGED <<args, i, older, entries, got, lost>>

(* Where the group exists the answer is an error, which nobody looks at. *)
Create(r) ==
  /\ pc[r] = "create"
  /\ group' = IF group = NoGroup THEN entries ELSE group
  /\ (Goto(r, "add") /\ UNCHANGED failures) \/ Unanswered(r)
  /\ UNCHANGED <<args, i, older, entries, got, lost>>

AddEntry(r) ==
  /\ pc[r] = "add"
  /\ i[r] < args[r].add
  /\ entries' = entries + 1
  /\ i' = [i EXCEPT ![r] = @ + 1]
  /\ Answered(r) \/ Unanswered(r)
  /\ UNCHANGED <<args, older, group, got, lost>>

(* Variant: the first loop ends one entry too early. *)
StartReadingEarly(r) ==
  /\ pc[r] = "add"
  /\ i[r] + 1 >= args[r].add
  /\ i' = [i EXCEPT ![r] = 0]
  /\ Goto(r, "read")
  /\ UNCHANGED <<args, server, got, lost, failures>>

StartReading(r) ==
  /\ pc[r] = "add"
  /\ i[r] >= args[r].add
  /\ i' = [i EXCEPT ![r] = 0]
  /\ Goto(r, "read")
  /\ UNCHANGED <<args, server, got, lost, failures>>

Reading(r) ==
  /\ pc[r] = "read"
  /\ i[r] < args[r].read
  /\ i' = [i EXCEPT ![r] = @ + 1]

(* The next entry of the group, at once or while the command waits. *)
ReadEntry(r) ==
  /\ Reading(r)
  /\ args[r].block >= 0 /\ group < entries
  /\ group' = group + 1
  /\ \/ /\ Answered(r)
        /\ got' = [got EXCEPT ![r] = @ \cup {group'}] /\ UNCHANGED lost
     \/ /\ Unanswered(r)
        /\ lost' = lost \cup {group'} /\ UNCHANGED got
  /\ UNCHANGED <<args, older, entries>>

(* No entry came for a time.  A block time of 0 has no end. *)
ReadNothing(r) ==
  /\ Reading(r)
  /\ args[r].block > 0 /\ group = entries
  /\ Answered(r)
  /\ UNCHANGED <<args, server, got, lost>>

(* The server answers with an error, which is printed and counts as read. *)
ReadRefused(r) ==
  /\ Reading(r)
  /\ args[r].block < 0
  /\ Answered(r)
  /\ UNCHANGED <<args, server, got, lost>>

Finish(r) ==
  /\ pc[r] = "read"
  /\ i[r] >= args[r].read
  /\ Goto(r, "done")
  /\ UNCHANGED <<args, i, server, got, lost, failures>>

(* The connection is refused or breaks before a command reaches the server *)
(* or while it waits.                                                      *)
Fail(r) ==
  /\ pc[r] \notin Over
  /\ Unanswered(r)
  /\ UNCHANGED <<args, i, server, got, lost>>

Read(r) == ReadEntry(r) \/ ReadNothing(r) \/ ReadRefused(r) \/ Finish(r)

Run(r) == Arguments(r) \/ Create(r) \/ AddEntry(r) \/ StartReading(r) \/ Read(r)

(* Every run is over, or waits for an entry that nobody adds. *)
AllOver == \A r \in Runner : pc[r] \in Over

Waits(r) ==
  pc[r] = "read" /\ i[r] < args[r].read /\ args[r].block = 0 /\ group = entries

Terminated == (\A r \in Runner : pc[r] \in Over \/ Waits(r)) /\ UNCHANGED vars

Next == (\E r \in Runner : Run(r) \/ Fail(r)) \/ Terminated

Spec == Init /\ [][Next]_vars

(* A running program goes on; answers need not get lost. *)
FairSpec == Spec /\ \A r \in Runner : WF_vars(Run(r))

-----------------------------------------------------------------------------
(* Safety *)

(* The group delivers the entries added since it was made, in order, each  *)
(* to one reader: none is read twice or left out, but one whose answer got *)
(* lost is not delivered again (NOACK).                                    *)
Accounted ==
  /\ group # NoGroup =>
       /\ group <= entries
       /\ lost \cup UNION {got[r] : r \in Runner} = (older + 1) .. group
  /\ \A r, s \in Runner : got[r] \cap lost = {} /\ (r # s => got[r] \cap got[s] = {})

(* A run adds before it reads.  So if no run reads more than it adds, each *)
(* that was not refused ends with an entry for every read: whatever the    *)
(* others took of what it added, and wherever they failed, there is one    *)
(* left for it.                                                            *)
Modest == \A r \in Runner : args[r].read <= args[r].add

ModestRunsReadAll ==
  Modest =>
    \A r \in Runner :
      pc[r] = "done" /\ args[r].block >= 0 => Cardinality(got[r]) = args[r].read

-----------------------------------------------------------------------------
(* Liveness *)

(* And then no run waits for ever, not even with a block time of 0. *)
ModestRunsEnd == Modest ~> AllOver

=============================================================================
