--------------------------- MODULE MCPyWorkQueue ---------------------------
(* Small instances of PyWorkQueue for TLC. *)
EXTENDS PyWorkQueue, TLC

(* Item n is "WorkItem-n"; its digest is told apart by the number. *)
MCKeyOf == [i \in Item |-> i]

WorkerSymmetry == Permutations(Worker)
=============================================================================
