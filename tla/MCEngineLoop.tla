---------------------------- MODULE MCEngineLoop ----------------------------
(* Instances of EngineLoop for TLC. *)
EXTENDS EngineLoop

CONSTANTS me, p1

TwoPeers == {me, p1}
BothModes == BOOLEAN

=============================================================================
