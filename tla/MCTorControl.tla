---------------------------- MODULE MCTorControl ----------------------------
(* Instances of TorControl for TLC. *)
EXTENDS TorControl
=============================================================================
