---------------------------- MODULE OnionService ----------------------------
(***************************************************************************)
(* Transient onion services, end to end: the engine's                      *)
(* create_transient_onion_service (authenticate, ADD_ONION, hand the       *)
(* service to the transport over a one-slot channel, listen on its target, *)
(* bootstrap Kademlia), the Tor transport that matches listen addresses    *)
(* and listener events against the services it was handed, and plain       *)
(* listen commands that go through the same transport stack.               *)
(*                                                                         *)
(* One task runs the engine and polls the transports; while a creation is  *)
(* in progress (step # "idle") nothing else of the client moves, but Tor,  *)
(* remote peers and other processes do.  Tor, the operating system's ports *)
(* and libp2p's TCP transport are external.                                *)
(***************************************************************************)
EXTENDS Integers, Sequences, FiniteSets, Functions

CONSTANTS
  Concrete,    \* listen addresses with the host's own address
  Wildcard,    \* listen addresses with a wildcard host
  Interface,   \* the address a wildcard listener reports
  MaxServices, \* bound: services Tor creates
  MaxEvents    \* bound: connections accepted

ASSUME AddressAssumption ==
  /\ Concrete \cap Wildcard = {}
  /\ Interface \notin Concrete \cup Wildcard
ASSUME BoundAssumption == MaxServices \in Nat /\ MaxEvents \in Nat

VARIABLES
  step,       \* where create_transient_onion_service is, "idle", or "stopped"
  request,    \* its listen address
  service,    \* the service ADD_ONION returned, or NoService
  connection, \* Engine::tor_connection: "none", "up", or "dead" and still kept
  hosted,     \* external: services Tor forwards connections of
  made,       \* external: number of services Tor has created
  channel,    \* the channel to the Tor transport
  services,   \* TorTransport::onion_services
  listeners,  \* external: [addr, via] of the bound listeners
  busy,       \* external: addresses other processes have bound
  inbound,    \* external: via |-> events of that transport's TCP listeners
  accepted,   \* external: number of connections accepted
  seen,       \* transport events the swarm has received
  created     \* services whose creation was reported to the user

vars == <<step, request, service, connection, hosted, made, channel, services,
          listeners, busy, inbound, accepted, seen, created>>

(* No two of these addresses share a port. *)
Addrs == Concrete \cup Wildcard
Service == [id : 1 .. MaxServices, target : Addrs]
NoService == [id |-> 0, target |-> Interface]
Via == {"tor", "tcp"}
Capacity == 1  \* mpsc::channel(1)

(* What a listener on addr reports as its listen address. *)
Reported(addr) == IF addr \in Concrete THEN addr ELSE Interface

(* Onion and plain addresses, as the swarm sees them. *)
OnionAddr(s) == [kind |-> "onion", id |-> s.id]
PlainAddr(addr) == [kind |-> "plain", addr |-> addr]
NewAddress(a) == [event |-> "new_address", addr |-> a]
Incoming(n) == [event |-> "incoming", conn |-> n]

Init ==
  /\ step = "idle"
  /\ request = Interface
  /\ service = NoService
  /\ connection = "none"
  /\ hosted = {}
  /\ made = 0
  /\ channel = << >>
  /\ services = << >>
  /\ listeners = {}
  /\ busy \in SUBSET Addrs
  /\ inbound = [v \in Via |-> << >>]
  /\ accepted = 0
  /\ seen = {}
  /\ created = {}

clientVars == <<step, request, service, channel, services, seen, created>>
externalVars == <<connection, hosted, made, listeners, busy, inbound, accepted>>

-----------------------------------------------------------------------------
(* The creation, one action per await or failure point. *)

(* The command names an address; the connection is made only if there is
   none, and a dead one is not replaced.                                   *)
BeginCreate(addr) ==
  /\ step = "idle"
  /\ request' = addr
  /\ service' = NoService
  /\ \/ connection # "none" /\ step' = "auth" /\ UNCHANGED connection
     \/ connection = "none" /\ step' = "auth" /\ connection' = "up"
     \/ connection = "none" /\ UNCHANGED <<step, connection>>  \* refused
  /\ UNCHANGED <<hosted, made, channel, services, listeners, busy, inbound,
                 accepted, seen, created>>

(* AUTHENTICATE: 250, or an error reply or the end of the stream. *)
Authenticate ==
  /\ step = "auth"
  /\ \/ connection = "up" /\ step' = "add"
     \/ step' = "idle"
  /\ UNCHANGED <<request, service, channel, services, seen, created>>
  /\ UNCHANGED externalVars

(* Faulty variant: the service keeps its predecessor's number. *)
SameService == [id |-> made, target |-> request]
NextService == [id |-> made + 1, target |-> request]

(* ADD_ONION succeeds. *)
AddOnion ==
  /\ step = "add"
  /\ connection = "up"
  /\ made < MaxServices
  /\ service' = NextService
  /\ made' = made + 1
  /\ hosted' = hosted \cup {service'}
  /\ step' = "send"
  /\ UNCHANGED <<request, connection, channel, services, listeners, busy,
                 inbound, accepted, seen, created>>

(* ADD_ONION is refused or not sent, or the stream has ended; or Tor has made
   the service and the reply cannot be read: it hosts one the client does
   not know of.                                                            *)
AddOnionFails ==
  /\ step = "add"
  /\ step' = "idle"
  /\ \/ UNCHANGED <<made, hosted>>
     \/ /\ connection = "up"
        /\ made < MaxServices
        /\ made' = made + 1
        /\ hosted' = hosted \cup {NextService}
  /\ UNCHANGED <<request, service, connection, channel, services, listeners,
                 busy, inbound, accepted, seen, created>>

(* Tor has made the service, but the id its reply names cannot be decoded:
   the client panics and ends.                                             *)
AddOnionPanics ==
  /\ step = "add"
  /\ connection = "up"
  /\ made < MaxServices
  /\ made' = made + 1
  /\ hosted' = hosted \cup {NextService}
  /\ step' = "stopped"
  /\ UNCHANGED <<request, service, connection, channel, services, listeners,
                 busy, inbound, accepted, seen, created>>

(* onion_service_channel.send(): waits while the channel is full. *)
SendService ==
  /\ step = "send"
  /\ Len(channel) < Capacity
  /\ channel' = Append(channel, service)
  /\ step' = "listen"
  /\ UNCHANGED <<request, service, services, seen, created>>
  /\ UNCHANGED externalVars

-----------------------------------------------------------------------------
(* Swarm::listen_on through the transport stack. *)

(* Faulty variant: the channel is not emptied. *)
LeaveInChannel == UNCHANGED <<services, channel>>
(* TorTransport::listen_on first takes over what the channel holds. *)
TakeServices == services' = services \o channel /\ channel' = << >>

IsTarget(addr, known) == \E i \in DOMAIN known : known[i].target = addr

(* Can this process bind addr? *)
Free(addr) == addr \notin busy /\ \A l \in listeners : l.addr # addr

(* The address is tried with the Tor transport and, when that does not
   support it, with the plain TCP transport.                               *)
ViaFor(addr) == IF IsTarget(addr, services') THEN "tor" ELSE "tcp"

Bind(addr) ==
  LET via == ViaFor(addr)
  IN  /\ listeners' = listeners \cup {[addr |-> addr, via |-> via]}
      /\ inbound' = [inbound EXCEPT ![via] =
                       Append(@, NewAddress(PlainAddr(Reported(addr))))]

(* The listen call of a creation succeeds; the bootstrap that follows may
   still fail, and then the user is told that the creation failed.         *)
ListenForService ==
  /\ step = "listen"
  /\ TakeServices
  /\ Free(request)
  /\ Bind(request)
  /\ created' \in {created, created \cup {service}}
  /\ step' = "idle"
  /\ UNCHANGED <<request, service, connection, hosted, made, busy, accepted,
                 seen>>

(* The address is taken: an error, after the service was handed over. *)
ListenForServiceFails ==
  /\ step = "listen"
  /\ TakeServices
  /\ ~Free(request)
  /\ step' = "idle"
  /\ UNCHANGED <<request, service, seen, created>>
  /\ UNCHANGED externalVars

(* "/listen addr" *)
PlainListen(addr) ==
  /\ step = "idle"
  /\ TakeServices
  /\ Free(addr)
  /\ Bind(addr)
  /\ UNCHANGED <<step, request, service, connection, hosted, made, busy,
                 accepted, seen, created>>

(* "/listen addr" on a taken address: the error leaves Engine::run. *)
PlainListenFails(addr) ==
  /\ step = "idle"
  /\ TakeServices
  /\ ~Free(addr)
  /\ step' = "stopped"
  /\ UNCHANGED <<request, service, seen, created>>
  /\ UNCHANGED externalVars

-----------------------------------------------------------------------------
(* Transport polling. *)

(* Faulty variant: the latest service is announced. *)
AnnounceLatest(a) == OnionAddr(services[Len(services)])
(* The first service whose target was reported gives the address. *)
Announced(a) ==
  LET i == CHOOSE j \in DOMAIN services :
             /\ services[j].target = a.addr
             /\ \A k \in 1 .. j - 1 : services[k].target # a.addr
  IN  OnionAddr(services[i])

(* TorTransport::poll passes on a listen address that is a service's target,
   as the service's address.  Every other event is taken and dropped.      *)
PollTor ==
  /\ step = "idle"
  /\ inbound["tor"] # << >>
  /\ LET e == Head(inbound["tor"])
     IN  IF e.event = "new_address"
         THEN seen' = IF IsTarget(e.addr.addr, services)
                      THEN seen \cup {NewAddress(Announced(e.addr))}
                      ELSE seen
         ELSE UNCHANGED seen
  /\ inbound' = [inbound EXCEPT !["tor"] = Tail(@)]
  /\ UNCHANGED <<step, request, service, connection, hosted, made, channel,
                 services, listeners, busy, accepted, created>>

(* The plain TCP transport passes everything on. *)
PollTcp ==
  /\ step = "idle"
  /\ inbound["tcp"] # << >>
  /\ seen' = seen \cup {Head(inbound["tcp"])}
  /\ inbound' = [inbound EXCEPT !["tcp"] = Tail(@)]
  /\ UNCHANGED <<step, request, service, connection, hosted, made, channel,
                 services, listeners, busy, accepted, created>>

-----------------------------------------------------------------------------
(* External: a peer connects to a listener, Tor's own connections to the
   target of a hosted service included.                                    *)
Accept(l) ==
  /\ step # "stopped"
  /\ l \in listeners
  /\ accepted < MaxEvents
  /\ accepted' = accepted + 1
  /\ inbound' = [inbound EXCEPT ![l.via] = Append(@, Incoming(accepted + 1))]
  /\ UNCHANGED <<connection, hosted, made, listeners, busy>>
  /\ UNCHANGED clientVars

(* External: Tor drops the control connection, and with it every service
   created on it, none of which was detached.                              *)
TorCloses ==
  /\ connection = "up"
  /\ connection' = "dead"
  /\ hosted' = {}
  /\ UNCHANGED <<made, listeners, busy, inbound, accepted>>
  /\ UNCHANGED clientVars

(* External: another process binds or releases an address. *)
OthersMove(addr) ==
  /\ \A l \in listeners : l.addr # addr
  /\ busy' = IF addr \in busy THEN busy \ {addr} ELSE busy \cup {addr}
  /\ UNCHANGED <<connection, hosted, made, listeners, inbound, accepted>>
  /\ UNCHANGED clientVars

Next ==
  \/ \E addr \in Addrs : \/ BeginCreate(addr)
                         \/ PlainListen(addr) \/ PlainListenFails(addr)
  \/ Authenticate \/ AddOnion \/ AddOnionFails \/ AddOnionPanics \/ SendService
  \/ ListenForService \/ ListenForServiceFails
  \/ PollTor \/ PollTcp
  \/ \E l \in listeners : Accept(l)
  \/ TorCloses
  \/ \E addr \in Addrs : OthersMove(addr)

(* Assumed of Tor: it answers what it is asked or ends the connection, for
   the client has no timeout.  The creation's local steps wait for nobody;
   the swarm polls both transports whenever it is polled.                  *)
Spec == /\ Init /\ [][Next]_vars
        /\ WF_vars(Authenticate) /\ WF_vars(AddOnion \/ AddOnionFails \/ AddOnionPanics)
        /\ WF_vars(SendService)
        /\ WF_vars(ListenForService \/ ListenForServiceFails)
        /\ SF_vars(PollTor) /\ SF_vars(PollTcp)

-----------------------------------------------------------------------------
PlainAddrs == {PlainAddr(a) : a \in Addrs \cup {Interface}}
OnionAddrs == [kind : {"onion"}, id : 1 .. MaxServices]
Steps == {"idle", "auth", "add", "send", "listen", "stopped"}

(* Every variable stays in its range, the channel within its capacity. *)
TypeOK ==
  /\ step \in Steps
  /\ request \in Addrs \cup {Interface}
  /\ service \in Service \cup {NoService}
  /\ connection \in {"none", "up", "dead"}
  /\ hosted \subseteq Service
  /\ made \in 0 .. MaxServices
  /\ channel \in Seq(Service) /\ Len(channel) <= Capacity
  /\ services \in Seq(Service)
  /\ listeners \subseteq [addr : Addrs, via : Via]
  /\ busy \subseteq Addrs
  /\ inbound \in [Via -> Seq({NewAddress(a) : a \in PlainAddrs}
                              \cup {Incoming(n) : n \in 1 .. MaxEvents})]
  /\ accepted \in 0 .. MaxEvents
  /\ seen \subseteq {NewAddress(a) : a \in PlainAddrs \cup OnionAddrs}
                      \cup {Incoming(n) : n \in 1 .. MaxEvents}
  /\ created \subseteq Service

(* The creation never finds the channel full: its only reader is emptied by
   the listen call of the same task, so a full channel would block the
   client for ever.                                                        *)
ChannelHasRoom == step = "send" => Len(channel) < Capacity

(* A service reported to the user as created has its target bound, by a
   listener of the Tor transport, whatever other listeners exist, whoever
   takes the port and however many creations failed before.                *)
CreatedIsBound ==
  \A s \in created : [addr |-> s.target, via |-> "tor"] \in listeners

(* While the control connection lasts, an onion address the swarm announces
   is of a service that Tor hosts and whose target this client has bound,
   though it may not be the service whose creation led to the listener.    *)
AnnouncedIsReachable ==
  connection # "dead" =>
    \A a \in OnionAddrs :
      NewAddress(a) \in seen =>
        \E s \in hosted : /\ s.id = a.id
                          /\ [addr |-> s.target, via |-> "tor"] \in listeners

(* A service created on an address of the host's own is announced, under its
   own address or that of an earlier service with the same target, unless
   the client stops.                                                       *)
CreatedIsAnnounced ==
  \A n \in 1 .. MaxServices, target \in Concrete :
    [id |-> n, target |-> target] \in created ~>
      \/ step = "stopped"
      \/ \E i \in DOMAIN services :
           /\ services[i].target = target
           /\ NewAddress(OnionAddr(services[i])) \in seen

(* What README.md and the note on TorTransport::listen_on say the transport
   is for: a connection accepted on the local port of an onion service, or
   on any other listener, is with the swarm or on its way there.           *)
IncomingReachesSwarm ==
  \A n \in 1 .. accepted :
    \/ Incoming(n) \in seen
    \/ \E v \in Via : Incoming(n) \in Range(inbound[v])

=============================================================================
