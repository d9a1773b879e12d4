------------------------------ MODULE MCStartup ------------------------------
(* Instances of Startup for TLC: every combination of behaviours, texts of
   each outcome of the parser, and up to two registrations, of which one may
   be unreadable.                                                          *)
EXTENDS Startup, FiniteSets

CONSTANTS topic

Host == Word("name", "host")
Port == Word("port", "22")

Texts == {None, Words(<<Host, Port>>), Words(<<Host>>),
          Words(<<Word("bad_onion", "www.label"), Port>>)}

ReadableValues == {Registration("space", "node"), Registration("other", "node")}
Unreadable == {NoSlash, Registration("too_long", "node"), Registration("space", "bad")}

RegisterOptions ==
  {<< >>} \cup {<<r>> : r \in ReadableValues \cup Unreadable}
    \cup {<<r1, r2>> : r1 \in ReadableValues, r2 \in ReadableValues}

MCCommandLines ==
  [discovery : {{}, {"mdns"}, {"mdns", "rendezvous"}}, nat : {{"circuit_relay"}},
   listen : Texts, connect : Texts, subscribe : {None, topic},
   onion : {None, "readable", "unreadable"}, server : {FALSE},
   register : RegisterOptions]
  \cup
  [discovery : SUBSET Discoveries, nat : SUBSET NatMethods,
   listen : {None}, connect : {None}, subscribe : {None}, onion : {None},
   server : BOOLEAN, register : RegisterOptions]

(* A value without a slash is for --register only. *)
MCValues == (ReadableValues \cup Unreadable) \ {NoSlash}

=============================================================================
