----------------------------- MODULE MCEoqQueue -----------------------------
(* Small instances of EoqQueue for TLC. *)
EXTENDS EoqQueue, TLC

(* All payloads, EOQ included, have one hash. *)
MCOneKey == [i \in Item |-> 1]
=============================================================================
