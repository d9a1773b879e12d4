--------------------------- MODULE MCOnionService ---------------------------
(* Instances of OnionService for TLC. *)
EXTENDS OnionService

CONSTANTS c1, c2, w1

TwoAddresses == {c1, c2}
OneWildcard == {w1}

=============================================================================
