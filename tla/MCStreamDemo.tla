---------------------------- MODULE MCStreamDemo ----------------------------
(* Small instances of StreamDemo for TLC. *)
EXTENDS StreamDemo

MCArgument == -1 .. 2
=============================================================================
