---------------------------- MODULE HiredisQueue ----------------------------
(***************************************************************************)
(* class util::RedisQueue of the hiredis testbeds: a producer, consumers   *)
(* and the Redis server between them.  A consumer sends its commands over  *)
(* one redisContext.  When that connection breaks nothing is thrown:       *)
(* redisCommand() answers NULL from then on, and every method goes on with *)
(* what it makes of that.  EndQueue and LeakQueue are the two programs     *)
(* around this class.                                                      *)
(***************************************************************************)
EXTENDS Publisher

CONSTANTS Consumer,    \* the consumer processes
          MaxLosses    \* bound: broken connections and dead consumers explored

ASSUME ConsumerAssumption ==
  /\ Consumer # {}
  /\ NoLease \notin Item
  /\ MaxLosses \in Nat

VARIABLES pc,        \* the next command of each consumer
          linked,    \* its redisContext works
          losses     \* connections broken and consumers dead so far

linkVars == <<linked, losses>>

Goto(c, label) == pc' = [pc EXCEPT ![c] = label]

-----------------------------------------------------------------------------

(* What _llen() can be compared with 0 to: without a reply it returns a    *)
(* variable nobody initialised.                                            *)
LenIsZero(c, zero) == IF linked[c] THEN {zero} ELSE BOOLEAN

(* empty(): "_llen(MAIN) == 0 && _llen(PROCESSING)"; the second length is  *)
(* only asked for when the first is 0, and counts as true when it is not.  *)
AskMain(c, at, stay, ask) ==
  /\ pc[c] = at
  /\ \E zero \in LenIsZero(c, MainEmpty) : Goto(c, IF zero THEN ask ELSE stay)
  /\ UNCHANGED <<storeVars, pubVars, linkVars>>

AskProc(c, at, stay, leave) ==
  /\ pc[c] = at
  /\ \E zero \in LenIsZero(c, ProcEmpty) : Goto(c, IF zero THEN stay ELSE leave)
  /\ UNCHANGED <<storeVars, pubVars, linkVars>>

(* _rpoplpush() gets no item: two seconds passed, or there is no reply.    *)
NothingPopped(c) == MainEmpty \/ ~ linked[c]

(* Any other command: without a connection the server does not see it.     *)
Send(c, command) == IF linked[c] THEN command ELSE UNCHANGED storeVars

-----------------------------------------------------------------------------

LoseLink(c) ==
  /\ losses < MaxLosses
  /\ linked[c]
  /\ linked' = [linked EXCEPT ![c] = FALSE]
  /\ losses' = losses + 1

(* Nobody starts the producer again when it dies; "reply -> integer" of a  *)
(* missing reply is one way to die.                                        *)
Produce == PubStep

ProducerDies == PubCrash

ProducerOver == pubPc \in {"done", "down"}

=============================================================================
