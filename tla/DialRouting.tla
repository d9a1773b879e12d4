----------------------------- MODULE DialRouting -----------------------------
(***************************************************************************)
(* Which way a dialled address takes.  create_transport stacks three       *)
(* transports: TorTransport, Socks5Transport and DNS over TCP.  A          *)
(* transport either dials or answers MultiaddrNotSupported(a), and the     *)
(* next one tries with that a, which need not be the address that was      *)
(* asked for: the Tor transport rewrites it, and a proxy address that      *)
(* cannot be used is itself handed on in place of it.                      *)
(*                                                                         *)
(* Addresses are sequences of components.  Stacking (OrTransport) and the  *)
(* DNS/TCP transport are libp2p's; a name is taken to resolve.             *)
(***************************************************************************)
EXTENDS Integers, Sequences

CONSTANTS
  Components,  \* what addresses are made of
  Addresses,   \* addresses the user may ask to dial
  TorProxies,  \* values of --tor-proxy-address, or the default
  SocksProxies \* values of EngineConfig::socks_proxy_address, None if not set

VARIABLES
  useTor,     \* --use-tor: TorTransport::always_use
  torProxy,   \* proxy_addr of TorTransport::outbound
  socksProxy, \* proxy_addr of the plain Socks5Transport
  asked,      \* the address given to dial
  addr,       \* the address the transport at this stage is given
  stage,      \* the transport trying, or "done"
  outcome     \* what came of it

vars == <<useTor, torProxy, socksProxy, asked, addr, stage, outcome>>

None == << >>

(* A component: its protocol, its value, and for /socks5 the address of the
   proxy, empty if the default is meant.                                   *)
Component(p, v) == [p |-> p, v |-> v, via |-> None]
Socks5(proxy) == [p |-> "socks5", v |-> "", via |-> proxy]
Tor == Component("tor", "")

ASSUME ComponentAssumption ==
  \A c \in Components : /\ DOMAIN c = {"p", "v", "via"} /\ c.via \in Seq(Components)
                        /\ c.p # "socks5" => c.via = None

(* The parser takes what follows /socks5 for the proxy's address, and the Tor
   transport always has a proxy.                                           *)
ASSUME AddressAssumption ==
  /\ Addresses \cup TorProxies \cup SocksProxies \subseteq Seq(Components)
  /\ \A a \in Addresses : \A i \in 1 .. Len(a) - 1 : a[i].p # "socks5"
  /\ None \notin TorProxies

Has(a, ps) == \E i \in DOMAIN a : a[i].p \in ps

(* util::multiaddr_get: the first component whose protocol is one of ps *)
Position(a, ps) ==
  CHOOSE i \in DOMAIN a : a[i].p \in ps /\ \A j \in 1 .. i - 1 : a[j].p \notin ps
Get(a, ps) == a[Position(a, ps)]

(* Faulty variant: what follows the component is dropped. *)
ReplaceDropsSuffix(a, ps, new) == SubSeq(a, 1, Position(a, ps) - 1) \o new
(* util::multiaddr_replace *)
Replace(a, ps, new) ==
  SubSeq(a, 1, Position(a, ps) - 1) \o new \o SubSeq(a, Position(a, ps) + 1, Len(a))

(* multiaddr_to_socketaddr and multiaddr_to_pair: where they give an answer,
   and which.                                                              *)
IsSocket(a) == Has(a, {"tcp"}) /\ Has(a, {"ip"})
IsPair(a) == Has(a, {"tcp"}) /\ Has(a, {"ip", "dns"})
ToPair(a) ==
  LET host == IF Has(a, {"ip"}) THEN Get(a, {"ip"}) ELSE Get(a, {"dns"})
  IN  <<host.v, Get(a, {"tcp"}).v>>

-----------------------------------------------------------------------------
(* A transport's answer, as the step it makes the stack take. *)
Dialled(kind, proxy, target) ==
  /\ outcome' = [kind |-> kind, proxy |-> proxy, target |-> target]
  /\ stage' = "done"
  /\ UNCHANGED addr

Failed == [kind |-> "failed", proxy |-> None, target |-> None]

(* Faulty variant: the stack gives up at the first transport. *)
GiveUp(a, next) == addr' = a /\ stage' = "done" /\ UNCHANGED outcome
(* MultiaddrNotSupported(a): the next transport, if any, tries a. *)
NotSupported(a, next) ==
  /\ addr' = a
  /\ stage' = next
  /\ IF next = "done" THEN outcome' = Failed ELSE UNCHANGED outcome

(* Socks5Transport::do_dial *)
SocksDoDial(a, alwaysUse, default, next) ==
  LET a1 == IF alwaysUse /\ ~Has(a, {"socks5"}) /\ default # None
            THEN Append(a, Socks5(default)) ELSE a
      explicit == Get(a1, {"socks5"}).via
      proxy == IF explicit = None THEN default ELSE explicit
  IN  IF ~Has(a1, {"socks5"}) \/ proxy = None THEN NotSupported(a1, next)
      ELSE IF ~IsSocket(proxy) THEN NotSupported(proxy, next)
      ELSE IF ~IsPair(a1) THEN NotSupported(a1, next)
      ELSE Dialled("proxied", ToPair(proxy), ToPair(a1))

(* Faulty variant: addresses that name no proxy are left as they are. *)
LeaveAsIs(a) == a
(* always_use makes every address a /tor address, onion addresses apart. *)
WithTor(a) ==
  IF useTor /\ ~Has(a, {"tor", "onion3"}) THEN Append(a, Tor) ELSE a

(* Faulty variants: the port is left out, or a fixed one taken. *)
OnionWithoutPort(onion) == <<Component("dns", onion.v)>>
OnionOnHttpPort(onion) == <<Component("dns", onion.v), Component("tcp", "80")>>
(* The name under which the proxy knows an onion service. *)
OnionName(onion) == <<Component("dns", onion.v), Component("tcp", "onion-port")>>

(* TorTransport::do_dial *)
TorDial ==
  /\ stage = "tor"
  /\ LET a == WithTor(addr)
     IN  IF Has(a, {"tor"})
         THEN SocksDoDial(Replace(a, {"tor"}, <<Socks5(None)>>),
                          TRUE, torProxy, "socks5")
         ELSE IF Has(a, {"onion3"})
         THEN SocksDoDial(Replace(a, {"onion3"}, OnionName(Get(a, {"onion3"}))),
                          TRUE, torProxy, "socks5")
         ELSE NotSupported(a, "socks5")
  /\ UNCHANGED <<useTor, torProxy, socksProxy, asked>>

(* Socks5Transport::dial, without always_use *)
SocksDial ==
  /\ stage = "socks5"
  /\ SocksDoDial(addr, FALSE, socksProxy, "tcp")
  /\ UNCHANGED <<useTor, torProxy, socksProxy, asked>>

(* The last two components, /p2p apart, are those at i and j. *)
EndsAt(a, i, j) == i < j /\ {k \in DOMAIN a : k >= i /\ a[k].p # "p2p"} = {i, j}

(* External: DNS over TCP wants the address to end in a host and a port, and
   skips /p2p components.                                                  *)
CanDial(a, i, j) == EndsAt(a, i, j) /\ a[i].p \in {"ip", "dns"} /\ a[j].p = "tcp"

DirectDial ==
  /\ stage = "tcp"
  /\ \/ \E i, j \in DOMAIN addr :
          CanDial(addr, i, j) /\ Dialled("direct", None, <<addr[i].v, addr[j].v>>)
     \/ /\ ~ \E i, j \in DOMAIN addr : CanDial(addr, i, j)
        /\ NotSupported(addr, "done")
  /\ UNCHANGED <<useTor, torProxy, socksProxy, asked>>

Init ==
  /\ useTor \in BOOLEAN
  /\ torProxy \in TorProxies
  /\ socksProxy \in SocksProxies
  /\ asked \in Addresses
  /\ addr = asked
  /\ stage = "tor"
  /\ outcome = [kind |-> "pending", proxy |-> None, target |-> None]

Next == TorDial \/ SocksDial \/ DirectDial

Spec == Init /\ [][Next]_vars

-----------------------------------------------------------------------------
Outcomes == {"pending", "failed", "proxied", "direct"}

(* Every variable stays in its range; a dial is over exactly when something
   came of it.                                                             *)
TypeOK ==
  /\ useTor \in BOOLEAN
  /\ torProxy \in TorProxies
  /\ socksProxy \in SocksProxies
  /\ asked \in Addresses
  /\ \A i \in DOMAIN addr : DOMAIN addr[i] = {"p", "v", "via"}
  /\ stage \in {"tor", "socks5", "tcp", "done"}
  /\ outcome.kind \in Outcomes
  /\ outcome.kind = "pending" <=> stage # "done"

Reached == outcome.kind \in {"proxied", "direct"}

(* The proxy the address names, if /socks5 comes before any /tor. *)
Ways == {"tor", "socks5"}
Explicit == IF Has(asked, Ways) THEN Get(asked, Ways).via ELSE None

(* Every proxy that can come into play is given as an IP address and a port.
   Without this the proxy itself is dialled as if it were the peer.        *)
Proxies == {torProxy, socksProxy, Explicit} \ {None}
ProxiesAreSockets == \A proxy \in Proxies : IsSocket(proxy)

(* No proxy that cannot be used asks for a proxy in turn: handed on, it would
   be dialled through that one.                                            *)
NoProxyBehindProxy ==
  \A proxy \in Proxies : IsSocket(proxy) \/ ~Has(proxy, {"socks5"})

(* Where an address leads, by the address alone. *)
Target(a) ==
  IF Has(a, {"onion3"}) THEN <<Get(a, {"onion3"}).v, "onion-port">> ELSE ToPair(a)

(* One host and one port, of which an onion service has its own. *)
AtMostOne(a, ps) == \A i, j \in DOMAIN a : a[i].p \in ps /\ a[j].p \in ps => i = j
OneTarget(a) == AtMostOne(a, {"ip", "dns", "onion3"}) /\ AtMostOne(a, {"tcp", "onion3"})

(* A dial that goes through reaches the host and port asked for, whatever
   rewriting and handing on happened on the way: never those of a proxy.   *)
TargetIsDialled ==
  Reached /\ ProxiesAreSockets /\ OneTarget(asked) => outcome.target = Target(asked)

(* With --use-tor no connection bypasses the proxies, however an address is
   handed on; nor does a /tor, /onion3 or /socks5 address without it.      *)
NoDirectDial ==
  /\ ProxiesAreSockets
  /\ useTor \/ Has(asked, {"tor", "onion3", "socks5"})
  => outcome.kind # "direct"

(* A proxy named in the address before any /tor is used, even with --use-tor
   and for an onion address; otherwise the Tor proxy if --use-tor or the
   address asks for Tor, and only for a bare /socks5 the plain SOCKS proxy. *)
ProxyAsAsked ==
  outcome.kind = "proxied" /\ NoProxyBehindProxy =>
    outcome.proxy = ToPair(IF Explicit # None THEN Explicit
                           ELSE IF useTor \/ Has(asked, {"tor", "onion3"})
                           THEN torProxy ELSE socksProxy)

(* The usual addresses: a host and a port or an onion service, perhaps a
   peer id, perhaps the way to go (not /tor for an onion service).         *)
Usual(a) ==
  \E host, port \in DOMAIN a :
    /\ \/ host < port /\ a[host].p \in {"ip", "dns"} /\ a[port].p = "tcp"
       \/ host = port /\ a[host].p = "onion3"
    /\ \A i \in DOMAIN a \ {host, port} :
         \/ a[i].p = "p2p"
         \/ /\ i > port /\ (a[i].p = "socks5" \/ (a[i].p = "tor" /\ host # port))
            /\ \A j \in DOMAIN a : j > port /\ j # i => a[j].p = "p2p"

(* Every usual address gets through some transport, but for a bare /socks5
   with no proxy to use.                                                   *)
UsualIsDialled ==
  /\ stage = "done"
  /\ ProxiesAreSockets
  /\ Usual(asked)
  /\ Explicit # None \/ ~Has(asked, {"socks5"}) \/ socksProxy # None
       \/ useTor \/ Has(asked, {"onion3"})
  => Reached

(* tor.rs:46 gives /dns/www.google.com/https/tor as an address that is
   dialled through the Tor proxy.                                          *)
DocumentedTorDial ==
  stage = "done" /\ [i \in DOMAIN asked |-> asked[i].p] = <<"dns", "https", "tor">>
    => outcome.kind = "proxied"

=============================================================================
