----------------------------- MODULE NetworkAddr -----------------------------
(***************************************************************************)
(* NetworkAddress: what the user types for an address, "host:port" or a    *)
(* multiaddr, the multiaddr it is parsed into, and the text a multiaddr is *)
(* written back as.                                                        *)
(*                                                                         *)
(* A text is a multiaddr (its own parser is external: it gives an address  *)
(* or Malformed) or the words between its colons.  A word has a value and  *)
(* says what it can be read as: an IPv4 address, a port of 16 bits, an     *)
(* onion name whose first label is 35 bytes of base32, another name ending *)
(* in .onion, or none of these; "usual" if it is spelled the way           *)
(* as_network_string spells that value (no leading zeros, no capitals).    *)
(***************************************************************************)
EXTENDS Integers, Sequences, FiniteSetsExt, Functions

Word(is, val) == [is |-> is, val |-> val, usual |-> TRUE]
Words(parts) == [form |-> "words", parts |-> parts]
Malformed == << >>
MultiaddrText(addr) == [form |-> "multiaddr", addr |-> addr]

(* A component of an address; an /onion3 has a port of its own. *)
Part(p, val) == [p |-> p, val |-> val]
Onion3(label, port) == [p |-> "onion3", val |-> label, port |-> port]

(* What can be typed: a multiaddr, or one word at least, whose first is taken
   for a host whatever else it could be read as.                           *)
IsWord(w) == w = [is |-> w.is, val |-> w.val, usual |-> w.usual] /\ w.usual \in BOOLEAN
IsText(text) ==
  CASE text.form = "multiaddr" -> text = MultiaddrText(text.addr)
    [] text.form = "words" ->
         /\ text = Words(text.parts)
         /\ text.parts # << >> /\ text.parts \in Seq(Range(text.parts))
         /\ text.parts[1].is \in {"ip4", "onion", "bad_onion", "name"}
         /\ \A i \in DOMAIN text.parts : IsWord(text.parts[i])
    [] OTHER -> FALSE

-----------------------------------------------------------------------------
Address(addr) == [is |-> "address", addr |-> addr]
ParseError == [is |-> "error", addr |-> Malformed]
ParsePanic == [is |-> "panic", addr |-> Malformed]

(* The host decides the address.  No part between colons is an IPv6 address,
   so that the branch for them is never taken; the label of an onion name is
   decoded and its length converted with unwrap().                         *)
FromParts(host, port) ==
  CASE host.is = "ip4"       -> Address(<<Part("ip4", host.val), Part("tcp", port.val)>>)
    [] host.is = "onion"     -> Address(<<Onion3(host.val, port.val)>>)
    [] host.is = "bad_onion" -> ParsePanic
    [] OTHER                 -> Address(<<Part("dns", host.val), Part("tcp", port.val)>>)

(* NetworkAddress::from_str: what follows a second colon is not looked at. *)
Parse(text) ==
  IF text.form = "multiaddr"
  THEN IF text.addr = Malformed THEN ParseError ELSE Address(text.addr)
  ELSE IF Len(text.parts) < 2 \/ text.parts[2].is # "port" THEN ParseError
  ELSE FromParts(text.parts[1], text.parts[2])

-----------------------------------------------------------------------------
HostKinds == {"ip4", "ip6", "dns", "onion3"}
(* Faulty variant: the port of an onion address is forgotten. *)
PlainPortKinds == {"tcp", "udp"}
PortKinds == {"tcp", "udp", "onion3"}

(* The component whose value stays when the address is gone through. *)
LastOf(addr, kinds) == addr[Max({i \in DOMAIN addr : addr[i].p \in kinds})]

HostWord(c) == Word(CASE c.p = "onion3" -> "onion" [] c.p = "ip4" -> "ip4"
                      [] OTHER -> "name", c.val)
PortWord(c) == Word("port", IF c.p = "onion3" THEN c.port ELSE c.val)

Kinds(addr) == {addr[i].p : i \in DOMAIN addr}

(* NetworkAddress::as_network_string, or Malformed for its errors: a
   component that is neither a host nor a port, and no port at all.        *)
AsNetworkString(addr) ==
  IF ~(Kinds(addr) \subseteq HostKinds \cup PortKinds) \/ Kinds(addr) \cap PortKinds = {}
  THEN Malformed
  ELSE << IF Kinds(addr) \cap HostKinds = {} THEN Word("name", "<unknown>")
          ELSE HostWord(LastOf(addr, HostKinds)),
          PortWord(LastOf(addr, PortKinds)) >>

(* host:port and nothing else, as as_network_string would spell it. *)
IsUsual(text) ==
  /\ text.form = "words"
  /\ Len(text.parts) = 2
  /\ \A i \in DOMAIN text.parts : text.parts[i].usual

=============================================================================
