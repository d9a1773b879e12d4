---------------------------- MODULE MCDialRouting ----------------------------
(* Addresses of up to MaxLen components, /socks5 last; proxies by IP, by name,
   and by name behind another proxy.                                       *)
EXTENDS DialRouting, FiniteSets, SequencesExt

CONSTANT MaxLen

IpProxy(host) == <<Component("ip", host), Component("tcp", "1080")>>
NamedProxy == <<Component("dns", "proxy.example"), Component("tcp", "1080")>>

ChainedProxy == Append(NamedProxy, Socks5(IpProxy("chained")))
MCTorProxies == {IpProxy("tor"), NamedProxy, ChainedProxy}
MCSocksProxies == {None, IpProxy("socks"), NamedProxy}

Plain == {Component("ip", "target"), Component("dns", "target"),
          Component("onion3", "target.onion"), Component("tcp", "80"),
          Component("p2p", "peer"), Component("https", ""), Tor}
Proxying == {Socks5(None), Socks5(IpProxy("explicit")), Socks5(NamedProxy)}

MCComponents ==
  Plain \cup Proxying \cup UNION {Range(a) : a \in
    {IpProxy("explicit"), IpProxy("chained")} \cup MCTorProxies \cup MCSocksProxies}

Socks5Last(a) == \A i \in 1 .. Len(a) - 1 : a[i].p # "socks5"
MCAddresses == {a \in BoundedSeq(Plain \cup Proxying, MaxLen) : Socks5Last(a)}

=============================================================================
