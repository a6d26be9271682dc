----------------------------- MODULE MCEndQueue -----------------------------
(* Small instances of EndQueue for TLC. *)
EXTENDS EndQueue

(* All payloads have one hash. *)
MCOneKey == [i \in Item |-> 1]
=============================================================================
