---------------------------- MODULE MCTorSession ----------------------------
(* Instances of TorSession for TLC. *)
EXTENDS TorSession
=============================================================================
