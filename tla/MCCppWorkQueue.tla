--------------------------- MODULE MCCppWorkQueue ---------------------------
(* Small instances of CppWorkQueue for TLC. *)
EXTENDS CppWorkQueue

(* std::hash may give all payloads one key, or one each. *)
MCOneKey == [i \in Item |-> 1]
MCKeyOf == [i \in Item |-> i]
=============================================================================
