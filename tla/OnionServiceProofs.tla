------------------------- MODULE OnionServiceProofs -------------------------
(***************************************************************************)
(* Proofs about OnionService, for every set of addresses and any number of *)
(* services and connections.                                               *)
(***************************************************************************)
EXTENDS OnionService, SequenceTheorems, WellFoundedInduction, TLAPS

(* A creation in progress is for one of the addresses, and the service in
   hand is on it.                                                          *)
Target == step \notin {"idle", "stopped"} => request \in Addrs
InHand == step \in {"send", "listen"} => service \in Service /\ service.target = request

(* The channel holds something exactly between the send and the listen call
   that takes it out.                                                      *)
Handed == channel = IF step = "listen" THEN << service >> ELSE << >>

(* Every service the client has is hosted while the connection lasts. *)
Known == Range(services) \cup IF step \in {"send", "listen"} THEN {service} ELSE {}
Hosting == connection # "dead" => Known \subseteq hosted

(* A listen address on its way to the Tor transport is of its listener. *)
TorListens ==
  \A a \in Addrs :
    NewAddress(PlainAddr(a)) \in Range(inbound["tor"]) =>
      [addr |-> a, via |-> "tor"] \in listeners

(* The inductive invariant. *)
IInv == /\ TypeOK /\ Target /\ InHand /\ Handed /\ Hosting /\ TorListens
        /\ CreatedIsBound /\ AnnouncedIsReachable

-----------------------------------------------------------------------------
(* A set of numbers that is not empty has a least one. *)
LEMMA Least ==
  ASSUME NEW T \in SUBSET Nat, T # {}
  PROVE  \E x \in T : \A y \in T : x <= y
<1> DEFINE R == OpToRel(<, Nat)
<1>1. IsWellFoundedOn(R, Nat)
  BY NatLessThanWellFounded
<1>2. PICK x \in T : \A y \in T : ~(<<y, x>> \in R)
  BY <1>1, WFMin
<1>3. ASSUME NEW y \in T PROVE x <= y
  <2>1. ~(<<y, x>> \in R)
    BY <1>2
  <2>2. ~(y < x)
    BY <2>1 DEF OpToRel
  <2> QED BY <2>2
<1> QED BY <1>3

(* Taking the head of a queue leaves nothing new in it. *)
LEMMA TailRange ==
  ASSUME NEW S, NEW s \in Seq(S), s # << >>
  PROVE  /\ Head(s) \in S /\ Tail(s) \in Seq(S)
         /\ Head(s) \in Range(s) /\ Range(Tail(s)) \subseteq Range(s)
<1>1. /\ Tail(s) \in Seq(S) /\ Head(s) \in S
      /\ Len(Tail(s)) = Len(s) - 1 /\ Len(s) \in Nat \ {0}
      /\ \A i \in 1 .. Len(Tail(s)) : Tail(s)[i] = s[i + 1]
  BY HeadTailProperties, EmptySeq
<1>2. DOMAIN s = 1 .. Len(s) /\ DOMAIN Tail(s) = 1 .. Len(s) - 1
  BY <1>1, LenProperties
<1>3. 1 \in DOMAIN s /\ Head(s) = s[1]
  BY <1>1, <1>2
<1>4. \A i \in DOMAIN Tail(s) : i + 1 \in DOMAIN s
  BY <1>1, <1>2
<1> QED BY <1>1, <1>2, <1>3, <1>4 DEF Range

(* Appending to a queue keeps what is in it. *)
LEMMA AppendRange ==
  ASSUME NEW S, NEW s \in Seq(S), NEW e \in S
  PROVE  Append(s, e) \in Seq(S) /\ Range(Append(s, e)) = Range(s) \cup {e}
<1>1. /\ Append(s, e) \in Seq(S)
      /\ Len(Append(s, e)) = Len(s) + 1 /\ Len(s) \in Nat
      /\ \A i \in 1 .. Len(s) : Append(s, e)[i] = s[i]
      /\ Append(s, e)[Len(s) + 1] = e
  BY AppendProperties, LenProperties
<1>2. DOMAIN s = 1 .. Len(s) /\ DOMAIN Append(s, e) = 1 .. Len(s) + 1
  BY <1>1, LenProperties
<1>3. 1 .. Len(s) + 1 = (1 .. Len(s)) \cup {Len(s) + 1}
  BY <1>1
<1> QED BY <1>1, <1>2, <1>3 DEF Range

-----------------------------------------------------------------------------
(* The transport events. *)
Sent == {NewAddress(a) : a \in PlainAddrs} \cup {Incoming(n) : n \in 1 .. MaxEvents}
Seen == {NewAddress(a) : a \in PlainAddrs \cup OnionAddrs}
          \cup {Incoming(n) : n \in 1 .. MaxEvents}

(* Onion addresses, plain addresses and connections are told apart. *)
LEMMA EventsDiffer ==
  /\ \A a, b : NewAddress(a) = NewAddress(b) => a = b
  /\ \A b : \A a \in OnionAddrs : a # PlainAddr(b)
  /\ \A a, n : NewAddress(a) # Incoming(n)
  /\ \A a, b : PlainAddr(a) = PlainAddr(b) => a = b
<1>1. ASSUME NEW a, NEW b, NewAddress(a) = NewAddress(b) PROVE a = b
  BY <1>1 DEF NewAddress
<1>2. ASSUME NEW a \in OnionAddrs, NEW b PROVE a # PlainAddr(b)
  <2>1. a.kind = "onion" /\ PlainAddr(b).kind = "plain"
    BY DEF OnionAddrs, PlainAddr
  <2> QED BY <2>1
<1>3. ASSUME NEW a, NEW n PROVE NewAddress(a) # Incoming(n)
  <2>1. NewAddress(a).event = "new_address" /\ Incoming(n).event = "incoming"
    BY DEF NewAddress, Incoming
  <2> QED BY <2>1
<1>4. ASSUME NEW a, NEW b, PlainAddr(a) = PlainAddr(b) PROVE a = b
  BY <1>4 DEF PlainAddr
<1> QED BY <1>1, <1>2, <1>3, <1>4

(* The first service with a target is one with that target. *)
LEMMA AnnouncedService ==
  ASSUME NEW a, services \in Seq(Service), IsTarget(a.addr, services)
  PROVE  \E i \in DOMAIN services :
           services[i].target = a.addr /\ Announced(a) = OnionAddr(services[i])
<1> DEFINE First(j) == /\ services[j].target = a.addr
                       /\ \A k \in 1 .. j - 1 : services[k].target # a.addr
           T == {i \in DOMAIN services : services[i].target = a.addr}
<1>1. DOMAIN services = 1 .. Len(services) /\ Len(services) \in Nat
  BY LenProperties
<1>2. T \in SUBSET Nat /\ T # {}
  BY <1>1 DEF IsTarget
<1>3. PICK j \in T : \A k \in T : j <= k
  BY <1>2, Least
<1>4. j \in DOMAIN services /\ First(j)
  BY <1>1, <1>3
<1> DEFINE c == CHOOSE i \in DOMAIN services : First(i)
<1>5. c \in DOMAIN services /\ First(c)
  BY <1>4
<1>6. Announced(a) = OnionAddr(services[c])
  BY DEF Announced
<1> QED BY <1>5, <1>6

-----------------------------------------------------------------------------
(* At first there are no services, listeners or events. *)
LEMMA InitInv == Init => IInv
<1> SUFFICES ASSUME Init PROVE IInv
  OBVIOUS
<1>1. \A S : << >> \in Seq(S)
  BY EmptySeq
<1>2. Range(<< >>) = {}
  BY DEF Range
<1>3. inbound["tor"] = << >>
  BY DEF Init, Via
<1>4. TypeOK
  <2>1. inbound \in [Via -> Seq(Sent)]
    BY <1>1 DEF Init
  <2>2. step \in Steps /\ connection \in {"none", "up", "dead"}
    BY DEF Init, Steps
  <2>3. made \in 0 .. MaxServices /\ accepted \in 0 .. MaxEvents
    BY BoundAssumption DEF Init
  <2>4. channel \in Seq(Service) /\ Len(channel) <= Capacity /\ services \in Seq(Service)
    BY <1>1, EmptySeq DEF Init, Capacity
  <2> QED BY <2>1, <2>2, <2>3, <2>4 DEF Init, TypeOK, Sent
<1>5. Target /\ InHand /\ Handed /\ Hosting /\ TorListens
  BY <1>2, <1>3 DEF Init, Target, InHand, Handed, Hosting, Known, TorListens
<1>6. CreatedIsBound /\ AnnouncedIsReachable
  BY DEF Init, CreatedIsBound, AnnouncedIsReachable
<1> QED BY <1>4, <1>5, <1>6 DEF IInv

(* Steps that leave services, listeners and events alone. *)
LEMMA QuietStep ==
  ASSUME IInv, UNCHANGED <<services, listeners, inbound, seen, created>>,
         connection' # "dead" => connection # "dead" /\ hosted \subseteq hosted',
         step' \in {"send", "listen"} => step' = "send" \/ service' = service,
         Known' \subseteq Known \cup (hosted' \ hosted)
  PROVE  Hosting' /\ TorListens' /\ CreatedIsBound' /\ AnnouncedIsReachable'
<1>1. Hosting'
  BY DEF IInv, Hosting
<1>2. TorListens' /\ CreatedIsBound'
  BY DEF IInv, TorListens, CreatedIsBound
<1>3. AnnouncedIsReachable'
  BY DEF IInv, AnnouncedIsReachable
<1> QED BY <1>1, <1>2, <1>3

(* The next listen call makes the transport know every service the client
   has, and leaves the channel empty.                                      *)
LEMMA TakesKnown ==
  ASSUME IInv, step \in {"idle", "listen"}, TakeServices
  PROVE  services' \in Seq(Service) /\ channel' = << >> /\ Range(services') = Known
<1>1. services \in Seq(Service) /\ services' = services \o channel /\ channel' = << >>
  BY DEF IInv, TypeOK, TakeServices
<1>2. CASE step = "listen"
  <2>1. channel = <<service>> /\ service \in Service
    BY <1>2 DEF IInv, Handed, InHand
  <2>2. services' = Append(services, service)
    <3>1. services \o <<service>> = Append(services, service)
      BY <1>1, <2>1, AppendIsConcat
    <3> QED BY <1>1, <2>1, <3>1
  <2>3. /\ Append(services, service) \in Seq(Service)
        /\ Range(Append(services, service)) = Range(services) \cup {service}
    BY <1>1, <2>1, AppendRange
  <2> QED BY <1>1, <1>2, <2>2, <2>3 DEF Known
<1>3. CASE step = "idle"
  <2>1. channel = << >>
    BY <1>3 DEF IInv, Handed
  <2>2. services' = services
    BY <1>1, <2>1, ConcatEmptySeq
  <2> QED BY <1>1, <1>3, <2>2 DEF Known
<1> QED BY <1>2, <1>3

(* A listener is added, and only the transport it belongs to hears of it. *)
LEMMA Binds ==
  ASSUME IInv, NEW addr \in Addrs, Bind(addr)
  PROVE  /\ listeners \subseteq listeners' /\ listeners' \subseteq [addr : Addrs, via : Via]
         /\ inbound' \in [Via -> Seq(Sent)]
         /\ TorListens'
         /\ IsTarget(addr, services') => [addr |-> addr, via |-> "tor"] \in listeners'
<1> DEFINE e == NewAddress(PlainAddr(Reported(addr)))
<1>1. PICK via \in Via : via = ViaFor(addr)
  BY DEF ViaFor, Via
<1>2. /\ listeners' = listeners \cup {[addr |-> addr, via |-> via]}
      /\ inbound' = [inbound EXCEPT ![via] = Append(@, e)]
  BY <1>1 DEF Bind
<1>3. inbound \in [Via -> Seq(Sent)] /\ listeners \subseteq [addr : Addrs, via : Via]
  BY DEF IInv, TypeOK, Sent
<1>4. e \in Sent
  BY DEF Reported, PlainAddrs, Sent, Addrs
<1>5. /\ Append(inbound[via], e) \in Seq(Sent)
      /\ Range(Append(inbound[via], e)) = Range(inbound[via]) \cup {e}
  BY <1>3, <1>4, AppendRange
<1>6. listeners \subseteq listeners' /\ listeners' \subseteq [addr : Addrs, via : Via]
  BY <1>2, <1>3
<1>7. inbound' \in [Via -> Seq(Sent)]
  BY <1>2, <1>3, <1>5
<1>8. ASSUME NEW a \in Addrs, NewAddress(PlainAddr(a)) \in Range(inbound'["tor"])
      PROVE  [addr |-> a, via |-> "tor"] \in listeners'
  <2>1. CASE NewAddress(PlainAddr(a)) \in Range(inbound["tor"])
    BY <1>6, <2>1 DEF IInv, TorListens
  <2>2. CASE NewAddress(PlainAddr(a)) \notin Range(inbound["tor"])
    <3>1. via = "tor"
      BY <1>2, <1>3, <1>8, <2>2 DEF Via
    <3>2. inbound'["tor"] = Append(inbound[via], e)
      BY <1>2, <1>3, <3>1 DEF Via
    <3>3. NewAddress(PlainAddr(a)) = e
      BY <1>5, <1>8, <2>2, <3>1, <3>2
    <3>4. a = Reported(addr)
      BY <3>3, EventsDiffer
    <3>5. a = addr
      BY <3>4, AddressAssumption DEF Reported, Addrs
    <3> QED BY <1>2, <3>1, <3>5
  <2> QED BY <2>1, <2>2
<1>9. IsTarget(addr, services') => [addr |-> addr, via |-> "tor"] \in listeners'
  BY <1>1, <1>2 DEF ViaFor
<1> QED BY <1>6, <1>7, <1>8, <1>9 DEF TorListens

-----------------------------------------------------------------------------
(* The conversation with Tor keeps the invariant. *)
LEMMA CreationStep ==
  ASSUME IInv,
         \/ \E addr \in Addrs : BeginCreate(addr)
         \/ Authenticate \/ AddOnion \/ AddOnionFails \/ AddOnionPanics \/ SendService
  PROVE  IInv'
<1> USE DEF IInv
<1>1. ASSUME NEW addr \in Addrs, BeginCreate(addr) PROVE IInv'
  <2>1. TypeOK'
    BY <1>1 DEF BeginCreate, TypeOK, Steps
  <2>2. Target' /\ InHand' /\ Handed'
    BY <1>1 DEF BeginCreate, Target, InHand, Handed
  <2>3. Known' \subseteq Known
    BY <1>1 DEF BeginCreate, Known
  <2> QED BY <1>1, <2>1, <2>2, <2>3, QuietStep DEF BeginCreate
<1>2. ASSUME Authenticate PROVE IInv'
  <2>1. TypeOK'
    BY <1>2 DEF Authenticate, externalVars, TypeOK, Steps
  <2>2. Target' /\ InHand' /\ Handed'
    BY <1>2 DEF Authenticate, Target, InHand, Handed
  <2>3. Known' \subseteq Known
    BY <1>2 DEF Authenticate, Known
  <2> QED BY <1>2, <2>1, <2>2, <2>3, QuietStep DEF Authenticate, externalVars
<1>3. ASSUME AddOnion PROVE IInv'
  <2>1. NextService \in Service /\ NextService.target = request
    BY <1>3, BoundAssumption DEF AddOnion, NextService, Service, Target, TypeOK
  <2>2. made + 1 \in 0 .. MaxServices
    BY <1>3, BoundAssumption DEF AddOnion, TypeOK
  <2>3. TypeOK'
    BY <1>3, <2>1, <2>2 DEF AddOnion, TypeOK, Steps
  <2>4. Target' /\ InHand' /\ Handed'
    BY <1>3, <2>1 DEF AddOnion, Target, InHand, Handed
  <2>5. Hosting'
    BY <1>3 DEF AddOnion, Hosting, Known
  <2>6. TorListens' /\ CreatedIsBound'
    BY <1>3 DEF AddOnion, TorListens, CreatedIsBound
  <2>7. AnnouncedIsReachable'
    BY <1>3 DEF AddOnion, AnnouncedIsReachable
  <2> QED BY <2>3, <2>4, <2>5, <2>6, <2>7
<1>4. ASSUME AddOnionFails \/ AddOnionPanics PROVE IInv'
  <2>1. NextService \in Service \/ ~(made < MaxServices)
    BY <1>4, BoundAssumption
       DEF AddOnionFails, AddOnionPanics, NextService, Service, Target, TypeOK
  <2>2. made < MaxServices => made + 1 \in 0 .. MaxServices
    BY BoundAssumption DEF TypeOK
  <2>3. TypeOK'
    BY <1>4, <2>1, <2>2 DEF AddOnionFails, AddOnionPanics, TypeOK, Steps
  <2>4. Target' /\ InHand' /\ Handed'
    BY <1>4 DEF AddOnionFails, AddOnionPanics, Target, InHand, Handed
  <2>5. Known' \subseteq Known
    BY <1>4 DEF AddOnionFails, AddOnionPanics, Known
  <2> QED BY <1>4, <2>3, <2>4, <2>5, QuietStep DEF AddOnionFails, AddOnionPanics
<1>5. ASSUME SendService PROVE IInv'
  <2>1. channel = << >> /\ service \in Service
    BY <1>5 DEF SendService, Handed, InHand
  <2>2. channel' = <<service>>
    BY <1>5, <2>1 DEF SendService
  <2>3. <<service>> \in Seq(Service) /\ Len(<<service>>) <= Capacity
    BY <2>1 DEF Capacity
  <2>4. TypeOK'
    BY <1>5, <2>2, <2>3 DEF SendService, externalVars, TypeOK, Steps
  <2>5. Target' /\ InHand' /\ Handed'
    BY <1>5, <2>2 DEF SendService, externalVars, Target, InHand, Handed
  <2>6. Hosting'
    BY <1>5 DEF SendService, externalVars, Hosting, Known
  <2>7. TorListens' /\ CreatedIsBound' /\ AnnouncedIsReachable'
    BY <1>5 DEF SendService, externalVars, TorListens, CreatedIsBound,
                AnnouncedIsReachable
  <2> QED BY <2>4, <2>5, <2>6, <2>7
<1> QED BY <1>1, <1>2, <1>3, <1>4, <1>5

(* A listen call keeps it, whoever makes it and whatever comes of it. *)
LEMMA ListenStep ==
  ASSUME IInv,
         \/ ListenForService \/ ListenForServiceFails
         \/ \E addr \in Addrs : PlainListen(addr) \/ PlainListenFails(addr)
  PROVE  IInv'
<1> USE DEF IInv
<1>1. /\ step \in {"idle", "listen"} /\ TakeServices
      /\ step' \in {"idle", "stopped"}
      /\ UNCHANGED <<request, service, connection, hosted, made, busy, accepted, seen>>
  BY DEF ListenForService, ListenForServiceFails, PlainListen, PlainListenFails,
         externalVars
<1>2. services' \in Seq(Service) /\ channel' = << >> /\ Range(services') = Known
  BY <1>1, TakesKnown
<1>3. Target' /\ InHand' /\ Handed'
  BY <1>1, <1>2 DEF Target, InHand, Handed
<1>4. Hosting'
  <2>1. Known' = Known
    BY <1>1, <1>2 DEF Known
  <2> QED BY <1>1, <2>1 DEF Hosting
<1>5. /\ listeners \subseteq listeners' /\ listeners' \subseteq [addr : Addrs, via : Via]
      /\ inbound' \in [Via -> Seq(Sent)]
      /\ TorListens'
      /\ created' \subseteq Service
      /\ CreatedIsBound'
  <2>1. CASE UNCHANGED <<listeners, inbound, created>>
    BY <2>1 DEF TypeOK, Sent, TorListens, CreatedIsBound
  <2>2. ASSUME NEW addr \in Addrs, PlainListen(addr)
        PROVE  /\ listeners \subseteq listeners'
               /\ listeners' \subseteq [addr : Addrs, via : Via]
               /\ inbound' \in [Via -> Seq(Sent)]
               /\ TorListens'
               /\ created' \subseteq Service
               /\ CreatedIsBound'
    <3>1. Bind(addr) /\ created' = created
      BY <2>2 DEF PlainListen
    <3> QED BY <3>1, Binds DEF CreatedIsBound, TypeOK
  <2>3. CASE ListenForService
    <3>1. step = "listen" /\ request \in Addrs /\ service \in Service
          /\ service.target = request
      BY <2>3 DEF ListenForService, Target, InHand
    <3>2. Bind(request) /\ created' \in {created, created \cup {service}}
      BY <2>3 DEF ListenForService
    <3>3. IsTarget(request, services')
      <4>1. service \in Range(services')
        BY <1>2, <3>1 DEF Known
      <4> QED BY <3>1, <4>1 DEF IsTarget, Range
    <3>4. /\ listeners \subseteq listeners'
          /\ listeners' \subseteq [addr : Addrs, via : Via]
          /\ inbound' \in [Via -> Seq(Sent)]
          /\ TorListens'
          /\ [addr |-> request, via |-> "tor"] \in listeners'
      BY <3>1, <3>2, <3>3, Binds
    <3> QED BY <3>1, <3>2, <3>4 DEF CreatedIsBound, TypeOK
  <2> QED BY <2>1, <2>2, <2>3 DEF ListenForServiceFails, PlainListenFails, externalVars
<1>6. TypeOK'
  BY <1>1, <1>2, <1>5, EmptySeq DEF TypeOK, Steps, Sent, Capacity
<1>7. AnnouncedIsReachable'
  BY <1>1, <1>5 DEF AnnouncedIsReachable
<1> QED BY <1>3, <1>4, <1>5, <1>6, <1>7

(* What the Tor transport makes of a listen address is the address of a
   service the client has, on a target it has bound.                       *)
LEMMA TorAnnounces ==
  ASSUME IInv, NEW e \in Range(inbound["tor"]), e \in Sent, e.event = "new_address",
         IsTarget(e.addr.addr, services)
  PROVE  \E s \in Service :
           /\ s \in Range(services)
           /\ Announced(e.addr) = OnionAddr(s)
           /\ [addr |-> s.target, via |-> "tor"] \in listeners
<1>1. services \in Seq(Service)
  BY DEF IInv, TypeOK
<1>2. PICK i \in DOMAIN services : /\ services[i].target = e.addr.addr
                                  /\ Announced(e.addr) = OnionAddr(services[i])
  BY <1>1, AnnouncedService
<1>3. services[i] \in Service /\ services[i] \in Range(services)
  BY <1>1, <1>2, ElementOfSeq, LenProperties DEF Range
<1>4. PICK b \in Addrs \cup {Interface} : e = NewAddress(PlainAddr(b))
  <2>1. e \notin {Incoming(n) : n \in 1 .. MaxEvents}
    BY DEF Incoming
  <2> QED BY <2>1 DEF Sent, PlainAddrs
<1>5. e.addr.addr = b
  BY <1>4 DEF NewAddress, PlainAddr
<1>6. b \in Addrs
  BY <1>2, <1>3, <1>5 DEF Service
<1>7. [addr |-> b, via |-> "tor"] \in listeners
  BY <1>4, <1>6 DEF IInv, TorListens
<1> QED BY <1>2, <1>3, <1>5, <1>7

(* Polling the transports keeps the invariant. *)
LEMMA PollStep ==
  ASSUME IInv, PollTor \/ PollTcp
  PROVE  IInv'
<1> USE DEF IInv
<1>1. inbound \in [Via -> Seq(Sent)] /\ services \in Seq(Service) /\ seen \subseteq Seen
  BY DEF TypeOK, Sent, Seen
<1>2. UNCHANGED <<step, request, service, connection, hosted, made, channel,
                  services, listeners, busy, accepted, created>>
  BY DEF PollTor, PollTcp
<1>3. Target' /\ InHand' /\ Handed' /\ Hosting' /\ CreatedIsBound'
  BY <1>2 DEF Target, InHand, Handed, Hosting, Known, CreatedIsBound
<1>4. CASE PollTor
  <2> DEFINE e == Head(inbound["tor"])
  <2>1. /\ inbound["tor"] # << >> /\ inbound["tor"] \in Seq(Sent)
        /\ inbound' = [inbound EXCEPT !["tor"] = Tail(@)]
    BY <1>1, <1>4 DEF PollTor, Via
  <2>2. /\ e \in Sent /\ e \in Range(inbound["tor"])
        /\ Tail(inbound["tor"]) \in Seq(Sent)
        /\ Range(Tail(inbound["tor"])) \subseteq Range(inbound["tor"])
    BY <2>1, TailRange
  <2>3. inbound' \in [Via -> Seq(Sent)] /\ inbound'["tor"] = Tail(inbound["tor"])
    BY <1>1, <2>1, <2>2 DEF Via
  <2>4. TorListens'
    BY <1>2, <2>2, <2>3 DEF TorListens
  <2>5. CASE seen' = seen
    <3>1. TypeOK'
      BY <1>2, <2>3, <2>5 DEF TypeOK, Sent
    <3>2. AnnouncedIsReachable'
      BY <1>2, <2>5 DEF AnnouncedIsReachable
    <3> QED BY <1>3, <2>4, <3>1, <3>2
  <2>6. CASE seen' # seen
    <3>1. /\ e.event = "new_address" /\ IsTarget(e.addr.addr, services)
          /\ seen' = seen \cup {NewAddress(Announced(e.addr))}
      BY <1>4, <2>6 DEF PollTor
    <3>2. PICK s \in Service : /\ s \in Range(services)
                              /\ Announced(e.addr) = OnionAddr(s)
                              /\ [addr |-> s.target, via |-> "tor"] \in listeners
      BY <2>2, <3>1, TorAnnounces
    <3>3. OnionAddr(s) \in OnionAddrs /\ OnionAddr(s).id = s.id
      BY DEF OnionAddr, OnionAddrs, Service
    <3>4. seen' \subseteq Seen
      BY <1>1, <3>1, <3>2, <3>3 DEF Seen
    <3>5. TypeOK'
      BY <1>2, <2>3, <3>4 DEF TypeOK, Sent, Seen
    <3>6. ASSUME connection' # "dead", NEW a \in OnionAddrs, NewAddress(a) \in seen'
          PROVE  \E t \in hosted' : /\ t.id = a.id
                                   /\ [addr |-> t.target, via |-> "tor"] \in listeners'
      <4>1. CASE NewAddress(a) \in seen
        BY <1>2, <3>6, <4>1 DEF AnnouncedIsReachable
      <4>2. CASE NewAddress(a) = NewAddress(Announced(e.addr))
        <5>1. a = OnionAddr(s)
          BY <3>2, <4>2, EventsDiffer
        <5>2. s \in hosted
          BY <1>2, <3>2, <3>6 DEF Hosting, Known
        <5> QED BY <1>2, <3>2, <3>3, <5>1, <5>2
      <4> QED BY <3>1, <3>6, <4>1, <4>2
    <3> QED BY <1>3, <2>4, <3>5, <3>6 DEF AnnouncedIsReachable
  <2> QED BY <2>5, <2>6
<1>5. CASE PollTcp
  <2> DEFINE e == Head(inbound["tcp"])
  <2>1. /\ inbound["tcp"] # << >> /\ inbound["tcp"] \in Seq(Sent)
        /\ inbound' = [inbound EXCEPT !["tcp"] = Tail(@)]
        /\ seen' = seen \cup {e}
    BY <1>1, <1>5 DEF PollTcp, Via
  <2>2. e \in Sent /\ Tail(inbound["tcp"]) \in Seq(Sent)
    BY <2>1, TailRange
  <2>3. inbound' \in [Via -> Seq(Sent)] /\ inbound'["tor"] = inbound["tor"]
    BY <1>1, <2>1, <2>2 DEF Via
  <2>4. TorListens'
    BY <1>2, <2>3 DEF TorListens
  <2>5. seen' \subseteq Seen
    BY <1>1, <2>1, <2>2 DEF Sent, Seen
  <2>6. TypeOK'
    BY <1>2, <2>3, <2>5 DEF TypeOK, Sent, Seen
  <2>7. ASSUME NEW a \in OnionAddrs PROVE NewAddress(a) # e
    <3>1. CASE e \in {Incoming(n) : n \in 1 .. MaxEvents}
      BY <3>1, EventsDiffer
    <3>2. CASE e \in {NewAddress(b) : b \in PlainAddrs}
      BY <3>2, EventsDiffer DEF PlainAddrs
    <3> QED BY <2>2, <3>1, <3>2 DEF Sent
  <2>8. AnnouncedIsReachable'
    BY <1>2, <2>1, <2>7 DEF AnnouncedIsReachable
  <2> QED BY <1>3, <2>4, <2>6, <2>8
<1> QED BY <1>4, <1>5

(* What peers, Tor and other processes do keeps it. *)
LEMMA ExternalStep ==
  ASSUME IInv,
         \/ \E l \in listeners : Accept(l)
         \/ TorCloses
         \/ \E addr \in Addrs : OthersMove(addr)
  PROVE  IInv'
<1> USE DEF IInv, clientVars
<1>1. Target' /\ InHand' /\ Handed' /\ CreatedIsBound'
  BY DEF Accept, TorCloses, OthersMove, Target, InHand, Handed, CreatedIsBound
<1>2. ASSUME NEW l \in listeners, Accept(l) PROVE IInv'
  <2> DEFINE e == Incoming(accepted + 1)
  <2>1. /\ inbound \in [Via -> Seq(Sent)] /\ l.via \in Via
        /\ accepted + 1 \in 1 .. MaxEvents
    <3>1. inbound \in [Via -> Seq(Sent)] /\ listeners \subseteq [addr : Addrs, via : Via]
      BY DEF TypeOK, Sent
    <3>2. accepted \in 0 .. MaxEvents /\ accepted < MaxEvents
      BY <1>2 DEF Accept, TypeOK
    <3> QED BY <3>1, <3>2, BoundAssumption
  <2>2. inbound' = [inbound EXCEPT ![l.via] = Append(@, e)]
    BY <1>2 DEF Accept
  <2>3. /\ Append(inbound[l.via], e) \in Seq(Sent)
        /\ Range(Append(inbound[l.via], e)) = Range(inbound[l.via]) \cup {e}
    <3>1. e \in Sent
      BY <2>1 DEF Sent
    <3> QED BY <2>1, <3>1, AppendRange
  <2>4. inbound' \in [Via -> Seq(Sent)]
    BY <2>1, <2>2, <2>3
  <2>5. TypeOK'
    <3>1. /\ accepted' \in 0 .. MaxEvents
          /\ UNCHANGED <<step, request, service, connection, hosted, made, channel,
                         services, listeners, busy, seen, created>>
      BY <1>2, <2>1, BoundAssumption DEF Accept
    <3> QED BY <2>4, <3>1 DEF TypeOK, Sent
  <2>6. Hosting' /\ AnnouncedIsReachable'
    BY <1>2 DEF Accept, Hosting, Known, AnnouncedIsReachable
  <2>7. Range(inbound'["tor"]) \subseteq Range(inbound["tor"]) \cup {e}
    BY <2>1, <2>2, <2>3 DEF Via
  <2>8. TorListens'
    BY <1>2, <2>7, EventsDiffer DEF Accept, TorListens
  <2> QED BY <1>1, <2>5, <2>6, <2>8
<1>3. ASSUME TorCloses PROVE IInv'
  BY <1>1, <1>3 DEF TorCloses, TypeOK, Hosting, TorListens, AnnouncedIsReachable
<1>4. ASSUME NEW addr \in Addrs, OthersMove(addr) PROVE IInv'
  <2>1. TypeOK'
    BY <1>4 DEF OthersMove, TypeOK
  <2> QED BY <1>1, <1>4, <2>1
          DEF OthersMove, Hosting, Known, TorListens, AnnouncedIsReachable
<1> QED BY <1>2, <1>3, <1>4

(* Every step of Next keeps the invariant. *)
LEMMA StepInv == IInv /\ [Next]_vars => IInv'
<1> SUFFICES ASSUME IInv, [Next]_vars PROVE IInv'
  OBVIOUS
<1>1. CASE UNCHANGED vars
  BY <1>1 DEF vars, IInv, TypeOK, Target, InHand, Handed, Hosting, Known, TorListens,
              CreatedIsBound, AnnouncedIsReachable
<1>2. CASE Next
  BY <1>2, CreationStep, ListenStep, PollStep, ExternalStep DEF Next
<1> QED BY <1>1, <1>2

-----------------------------------------------------------------------------
(* The inductive invariant holds in every state of every behaviour. *)
THEOREM Invariance == Spec => []IInv
<1> QED BY InitInv, StepInv, PTL DEF Spec

(* Every variable stays in its range; the channel to the transport never
   holds more than it can.                                                 *)
THEOREM TypesHold == Spec => []TypeOK
<1>1. IInv => TypeOK
  BY DEF IInv
<1> QED BY <1>1, Invariance, PTL

(* create_transient_onion_service never waits on a full channel: whatever
   failed before, the listen calls have taken out every earlier service.   *)
THEOREM RoomInChannel == Spec => []ChannelHasRoom
<1>1. IInv => ChannelHasRoom
  BY EmptySeq DEF IInv, Handed, ChannelHasRoom, Capacity
<1> QED BY <1>1, Invariance, PTL

(* A service reported as created has its target bound by a listener of the
   Tor transport: the engine hands the service over before it listens.     *)
THEOREM CreatedBound == Spec => []CreatedIsBound
<1>1. IInv => CreatedIsBound
  BY DEF IInv
<1> QED BY <1>1, Invariance, PTL

(* An onion address the Tor transport announces is of a hosted service whose
   target the client has bound, until Tor drops the control connection.    *)
THEOREM AnnouncedReachable == Spec => []AnnouncedIsReachable
<1>1. IInv => AnnouncedIsReachable
  BY DEF IInv
<1> QED BY <1>1, Invariance, PTL

=============================================================================
