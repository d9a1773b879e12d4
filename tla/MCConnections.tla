---------------------------- MODULE MCConnections ----------------------------
(* Instances of Connections for TLC: texts of every kind the parser tells
   apart.  A peer may dial in from an address the user also typed, and
   Kademlia dials with the peer id appended, which the user may type too.  *)
EXTENDS Connections

Port == Word("port", "22")
PaddedPort == [Port EXCEPT !.usual = FALSE]
Peer == <<Part("ip4", "1.2.3.4"), Part("tcp", "22"), Part("p2p", "peer")>>

MCTexts ==
  { Words(<<Word("ip4", "1.2.3.4"), Port>>),
    Words(<<Word("ip4", "1.2.3.4"), PaddedPort, Word("text", "more")>>),
    Words(<<Word("name", "host"), Port>>),
    Words(<<Word("onion", "label"), Port>>),
    Words(<<Word("bad_onion", "www.label"), Port>>),
    Words(<<Word("name", "host"), Word("text", "ssh")>>),
    Words(<<Word("name", "host")>>),
    MultiaddrText(Peer),
    MultiaddrText(Malformed) }

MCOthers == {<<Part("ip4", "1.2.3.4"), Part("tcp", "22")>>, Peer}

=============================================================================
