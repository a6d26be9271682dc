--------------------------- MODULE MCComposeQueue ---------------------------
(* Small instances of ComposeQueue for TLC. *)
EXTENDS ComposeQueue, TLC

(* The digest of item n. *)
MCDigest == [i \in Item |-> i]
=============================================================================
