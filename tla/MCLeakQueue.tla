---------------------------- MODULE MCLeakQueue ----------------------------
(* Small instances of LeakQueue for TLC. *)
EXTENDS LeakQueue
=============================================================================
