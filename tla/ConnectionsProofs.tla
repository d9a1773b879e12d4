------------------------- MODULE ConnectionsProofs -------------------------
(***************************************************************************)
(* Proofs about Connections, for any addresses the user may type, any      *)
(* addresses of others and any number of connections.                      *)
(***************************************************************************)
EXTENDS Connections, SequenceTheorems, FiniteSetTheorems, TLAPS

ConnType == [addr : Addrs, text : Texts \cup {NoText}, state : States]

(* What the user asked for is dialled as it was parsed. *)
Asked ==
  \A i \in DOMAIN conns :
    IsOwn(i) => conns[i].text \in Parsed /\ conns[i].addr = Parse(conns[i].text).addr

(* A waiting event tells what became of its connection. *)
EventsAreTrue ==
  \A k \in DOMAIN events :
    /\ events[k].conn \in DOMAIN conns
    /\ \/ events[k].event \in {"closed", "failed"} /\ conns[events[k].conn].state = events[k].event
       \/ events[k].event = "open" /\ conns[events[k].conn].state \in {"open", "closed"}

(* Of two events of a connection the first is its opening and the second its
   closing.                                                                *)
OpenFirst ==
  \A k, l \in DOMAIN events :
    k < l /\ events[k].conn = events[l].conn =>
      events[k].event = "open" /\ events[l].event = "closed"

(* A closing is not handled before the opening. *)
CloseWaits ==
  \A i \in DOMAIN conns :
    conns[i].state = "closed" /\ Waiting(Event("open", i)) => Waiting(Event("closed", i))

(* The inductive invariant. *)
IInv == /\ TypeOK /\ Asked /\ EventsAreTrue /\ OpenFirst /\ CloseWaits
        /\ EntriesCountDials /\ OwnConnectionsReported

-----------------------------------------------------------------------------
(* Sequences by their length. *)
LEMMA ByLength ==
  ASSUME NEW S, NEW s \in Seq(S)
  PROVE  /\ Len(s) \in Nat /\ DOMAIN s = 1 .. Len(s)
         /\ s = << >> <=> Len(s) = 0
         /\ \A k \in DOMAIN s : s[k] \in S
BY LenProperties, EmptySeq, ElementOfSeq

(* A sequence with one more at its end. *)
LEMMA OneMore ==
  ASSUME NEW S, NEW s \in Seq(S), NEW x \in S
  PROVE  /\ Append(s, x) \in Seq(S) /\ Len(Append(s, x)) = Len(s) + 1
         /\ DOMAIN Append(s, x) = DOMAIN s \cup {Len(s) + 1}
         /\ Len(s) + 1 \notin DOMAIN s
         /\ \A k \in DOMAIN s : k < Len(s) + 1 /\ k \in Nat
         /\ \A k \in DOMAIN s : Append(s, x)[k] = s[k]
         /\ Append(s, x)[Len(s) + 1] = x
<1>1. Len(s) \in Nat /\ DOMAIN s = 1 .. Len(s)
  BY ByLength
<1>2. /\ Append(s, x) \in Seq(S) /\ Len(Append(s, x)) = Len(s) + 1
      /\ \A k \in 1 .. Len(s) : Append(s, x)[k] = s[k]
      /\ Append(s, x)[Len(s) + 1] = x
  BY AppendProperties
<1>3. DOMAIN Append(s, x) = 1 .. Len(s) + 1
  BY <1>2, ByLength
<1>4. 1 .. Len(s) + 1 = (1 .. Len(s)) \cup {Len(s) + 1}
  BY <1>1
<1>5. /\ Len(s) + 1 \notin 1 .. Len(s)
      /\ \A k \in 1 .. Len(s) : k < Len(s) + 1 /\ k \in Nat
  BY <1>1
<1> QED BY <1>1, <1>2, <1>3, <1>4, <1>5

(* Some of the connections are finitely many. *)
LEMMA Some ==
  ASSUME NEW n \in Nat, NEW S \in SUBSET (1 .. n)
  PROVE  IsFiniteSet(S) /\ Cardinality(S) \in 0 .. n
<1>1. IsFiniteSet(1 .. n) /\ Cardinality(1 .. n) = n
  <2>1. IsFiniteSet(1 .. n) /\ Cardinality(1 .. n) = IF 1 > n THEN 0 ELSE n - 1 + 1
    BY FS_Interval
  <2> QED BY <2>1
<1>2. IsFiniteSet(S) /\ Cardinality(S) <= Cardinality(1 .. n)
  BY <1>1, FS_Subset
<1>3. Cardinality(S) \in Nat
  BY <1>2, FS_CardinalityType
<1> QED BY <1>1, <1>2, <1>3

(* The connections of an address, by what they are counted for. *)
LEMMA Counts ==
  ASSUME IInv, NEW a
  PROVE  /\ Own(a) \ Ended \in SUBSET (1 .. Len(conns))
         /\ NotOwn(a) \cap Ended \in SUBSET (1 .. Len(conns))
         /\ Len(conns) \in Nat /\ DOMAIN conns = 1 .. Len(conns)
         /\ IsFiniteSet(Own(a) \ Ended) /\ Cardinality(Own(a) \ Ended) \in Nat
         /\ IsFiniteSet(NotOwn(a) \cap Ended) /\ Cardinality(NotOwn(a) \cap Ended) \in Nat
<1>1. Len(conns) \in Nat /\ DOMAIN conns = 1 .. Len(conns)
  BY ByLength DEF IInv, TypeOK
<1>2. /\ Own(a) \ Ended \in SUBSET (1 .. Len(conns))
      /\ NotOwn(a) \cap Ended \in SUBSET (1 .. Len(conns))
  BY <1>1 DEF Own, NotOwn
<1> QED BY <1>1, <1>2, Some

(* The counts of entries are bounded by the connections. *)
LEMMA TypesFollow ==
  ASSUME phase' \in {"running", "error", "panicked"}, connectList' \in [Addrs -> Nat],
         conns' \in Seq(ConnType), Len(conns') <= MaxConns,
         events' \in Seq(Events), reports' \subseteq Events, EntriesCountDials'
  PROVE  TypeOK'
<1>1. ASSUME NEW a \in Addrs PROVE connectList'[a] \in 0 .. MaxConns
  <2>1. connectList'[a] \in Nat /\ connectList'[a] <= Cardinality(Own(a)' \ Ended')
    BY <1>1 DEF EntriesCountDials
  <2>2. Len(conns') \in Nat /\ DOMAIN conns' = 1 .. Len(conns')
    BY ByLength
  <2>3. Own(a)' \ Ended' \in SUBSET (1 .. Len(conns'))
    BY <2>2 DEF Own
  <2>4. Cardinality(Own(a)' \ Ended') \in 0 .. Len(conns')
    BY <2>2, <2>3, Some
  <2> QED BY <2>1, <2>2, <2>4, ConnsAssumption
<1>2. connectList' \in [Addrs -> 0 .. MaxConns]
  BY <1>1
<1> QED BY <1>2 DEF TypeOK, ConnType

(* At first there is nothing. *)
LEMMA InitInv == Init => IInv
<1> SUFFICES ASSUME Init PROVE IInv
  OBVIOUS
<1>1. Len(<< >>) = 0 /\ DOMAIN << >> = {} /\ \A S : << >> \in Seq(S)
  BY EmptySeq
<1>2. DOMAIN conns = {} /\ DOMAIN events = {} /\ Len(conns) = 0
  BY <1>1 DEF Init
<1>3. TypeOK
  <2>1. connectList \in [Addrs -> 0 .. MaxConns]
    BY ConnsAssumption DEF Init
  <2>2. Len(conns) <= MaxConns
    BY <1>2, ConnsAssumption
  <2> QED BY <1>1, <2>1, <2>2 DEF Init, TypeOK
<1>4. EntriesCountDials
  <2> SUFFICES ASSUME NEW a \in Addrs
               PROVE  /\ Cardinality(Own(a) \ Ended) - Cardinality(NotOwn(a) \cap Ended)
                           <= connectList[a]
                      /\ connectList[a] <= Cardinality(Own(a) \ Ended)
    BY DEF EntriesCountDials
  <2>1. Own(a) \ Ended = {} /\ NotOwn(a) \cap Ended = {}
    BY <1>2 DEF Own, NotOwn
  <2>2. Cardinality({}) = 0
    BY FS_EmptySet
  <2>3. connectList[a] = 0
    BY DEF Init
  <2> QED BY <2>1, <2>2, <2>3
<1> QED BY <1>2, <1>3, <1>4
        DEF IInv, Asked, EventsAreTrue, OpenFirst, CloseWaits, OwnConnectionsReported

(* Which events wait once one has been added. *)
LEMMA EventAdded ==
  ASSUME IInv, NEW e \in Events, events' = Append(events, e)
  PROVE  /\ events' \in Seq(Events)
         /\ DOMAIN events' = DOMAIN events \cup {Len(events) + 1}
         /\ Len(events) + 1 \notin DOMAIN events
         /\ \A k \in DOMAIN events : k < Len(events) + 1 /\ k \in Nat
         /\ \A k \in DOMAIN events : events'[k] = events[k]
         /\ events'[Len(events) + 1] = e
         /\ \A x : Waiting(x)' <=> Waiting(x) \/ x = e
<1>1. events \in Seq(Events)
  BY DEF IInv, TypeOK
<1>2. /\ events' \in Seq(Events)
      /\ DOMAIN events' = DOMAIN events \cup {Len(events) + 1}
      /\ Len(events) + 1 \notin DOMAIN events
      /\ \A k \in DOMAIN events : k < Len(events) + 1 /\ k \in Nat
      /\ \A k \in DOMAIN events : events'[k] = events[k]
      /\ events'[Len(events) + 1] = e
  BY <1>1, OneMore
<1>3. \A x : Waiting(x)' <=> Waiting(x) \/ x = e
  BY <1>2 DEF Waiting
<1> QED BY <1>2, <1>3

(* Adding a connection that has not closed ends none. *)
LEMMA ConnAdded ==
  ASSUME IInv, Len(conns) < MaxConns, NEW c \in ConnType, conns' = Append(conns, c),
         c.state # "closed", \A i : Waiting(Event("closed", i))' <=> Waiting(Event("closed", i))
  PROVE  LET n == Len(conns) + 1
         IN  /\ conns' \in Seq(ConnType) /\ Len(conns') <= MaxConns /\ n \in 1 .. MaxConns
             /\ DOMAIN conns' = DOMAIN conns \cup {n} /\ n \notin DOMAIN conns
             /\ \A i \in DOMAIN conns : conns'[i] = conns[i]
             /\ conns'[n] = c
             /\ Ended' = Ended /\ n \notin Ended
             /\ \A a : Own(a)' = IF c.text # NoText /\ c.addr = a THEN Own(a) \cup {n} ELSE Own(a)
             /\ \A a : NotOwn(a)' = IF c.text = NoText /\ c.addr = a
                                    THEN NotOwn(a) \cup {n} ELSE NotOwn(a)
<1> DEFINE n == Len(conns) + 1
<1>1. conns \in Seq(ConnType) /\ Len(conns) \in Nat
  BY ByLength DEF IInv, TypeOK, ConnType
<1>2. /\ conns' \in Seq(ConnType) /\ Len(conns') = n
      /\ DOMAIN conns' = DOMAIN conns \cup {n} /\ n \notin DOMAIN conns
      /\ \A i \in DOMAIN conns : conns'[i] = conns[i]
      /\ conns'[n] = c
  BY <1>1, OneMore
<1>3. n \in 1 .. MaxConns /\ Len(conns') <= MaxConns
  BY <1>1, <1>2, ConnsAssumption
<1> HIDE DEF n
<1>4. Ended' = Ended /\ n \notin Ended
  BY <1>2 DEF Ended
<1>5. ASSUME NEW a
      PROVE  Own(a)' = IF c.text # NoText /\ c.addr = a THEN Own(a) \cup {n} ELSE Own(a)
  BY <1>2 DEF Own, IsOwn
<1>6. ASSUME NEW a
      PROVE  NotOwn(a)' = IF c.text = NoText /\ c.addr = a
                          THEN NotOwn(a) \cup {n} ELSE NotOwn(a)
  BY <1>2 DEF NotOwn, IsOwn
<1> QED BY <1>2, <1>3, <1>4, <1>5, <1>6 DEF n

(* A text that can be dialled is not the mark of somebody else's. *)
LEMMA TextsAreTexts ==
  ASSUME NEW t \in Texts
  PROVE  t # NoText
<1>1. IsText(t)
  BY TextAssumption
<1>2. CASE t.form = "multiaddr"
  BY <1>2 DEF NoText, Words
<1>3. CASE t.form = "words"
  BY <1>1, <1>3 DEF NoText, Words, IsText
<1>4. t.form = "multiaddr" \/ t.form = "words"
  BY <1>1 DEF IsText
<1> QED BY <1>2, <1>3, <1>4

(* "/connect" adds a dial and an entry for it. *)
LEMMA ConnectStep ==
  ASSUME IInv, NEW t \in Texts, Connect(t)
  PROVE  IInv'
<1> DEFINE a == Parse(t).addr
           c == Conn(a, t, "dialling")
           n == Len(conns) + 1
<1>1. /\ t \in Parsed /\ Len(conns) < MaxConns
      /\ connectList' = [connectList EXCEPT ![a] = @ + 1]
      /\ conns' = Append(conns, c)
      /\ UNCHANGED <<phase, events, reports>>
  BY DEF Connect, Note, Parsed
<1>2. a \in Addrs
  BY <1>1 DEF Addrs
<1>3. /\ c \in ConnType /\ c.state = "dialling" /\ c.text = t /\ c.addr = a
      /\ t # NoText
  BY <1>2, TextsAreTexts DEF Conn, ConnType, States
<1> HIDE DEF a, c
<1>4. \A x : Waiting(x)' <=> Waiting(x)
  BY <1>1 DEF Waiting
<1>5. /\ conns' \in Seq(ConnType) /\ Len(conns') <= MaxConns
      /\ DOMAIN conns' = DOMAIN conns \cup {n} /\ n \notin DOMAIN conns
      /\ \A i \in DOMAIN conns : conns'[i] = conns[i]
      /\ conns'[n] = c
      /\ Ended' = Ended /\ n \notin Ended
      /\ \A b : Own(b)' = IF b = a THEN Own(b) \cup {n} ELSE Own(b)
      /\ \A b : NotOwn(b)' = NotOwn(b)
  BY <1>1, <1>3, <1>4, ConnAdded
<1> HIDE DEF n
<1>6. connectList \in [Addrs -> Nat] /\ connectList' \in [Addrs -> Nat]
  <2>1. connectList \in [Addrs -> Nat]
    BY ConnsAssumption DEF IInv, TypeOK
  <2> QED BY <1>1, <1>2, <2>1
<1>7. EntriesCountDials'
  <2> SUFFICES ASSUME NEW b \in Addrs
               PROVE  /\ Cardinality(Own(b)' \ Ended') - Cardinality(NotOwn(b)' \cap Ended')
                           <= connectList'[b]
                      /\ connectList'[b] <= Cardinality(Own(b)' \ Ended')
    BY DEF EntriesCountDials
  <2>1. PICK u \in Nat, k \in Nat, m \in Nat :
             /\ u = Cardinality(Own(b) \ Ended) /\ k = Cardinality(NotOwn(b) \cap Ended)
             /\ m = connectList[b]
    BY <1>6, Counts
  <2>2. u - k <= m /\ m <= u
    BY <2>1 DEF IInv, EntriesCountDials
  <2>3. NotOwn(b)' \cap Ended' = NotOwn(b) \cap Ended
    BY <1>5
  <2>4. CASE b = a
    <3>1. Own(b)' \ Ended' = (Own(b) \ Ended) \cup {n} /\ n \notin Own(b) \ Ended
      BY <1>5, <2>4 DEF Own
    <3>2. Cardinality(Own(b)' \ Ended') = u + 1
      BY <2>1, <3>1, Counts, FS_AddElement
    <3>3. connectList'[b] = m + 1
      BY <1>1, <1>6, <2>1, <2>4
    <3>4. (u + 1) - k <= m + 1 /\ m + 1 <= u + 1
      BY <2>2
    <3> QED BY <2>1, <2>3, <3>2, <3>3, <3>4
  <2>5. CASE b # a
    <3>1. Own(b)' \ Ended' = Own(b) \ Ended
      BY <1>5, <2>5
    <3>2. connectList'[b] = connectList[b]
      BY <1>1, <1>6, <2>5
    <3> QED BY <2>1, <2>2, <2>3, <3>1, <3>2
  <2> QED BY <2>4, <2>5
<1>8. TypeOK'
  <2>1. /\ phase \in {"running", "error", "panicked"} /\ events \in Seq(Events)
        /\ reports \subseteq Events
    BY DEF IInv, TypeOK
  <2> QED BY <1>1, <1>5, <1>6, <1>7, <2>1, TypesFollow
<1>9. Asked'
  BY <1>1, <1>3, <1>5 DEF IInv, Asked, IsOwn, a
<1>10. EventsAreTrue' /\ OpenFirst'
  BY <1>1, <1>5 DEF IInv, EventsAreTrue, OpenFirst
<1>11. CloseWaits'
  BY <1>3, <1>4, <1>5 DEF IInv, CloseWaits
<1>12. OwnConnectionsReported'
  BY <1>1, <1>3, <1>4, <1>5 DEF IInv, OwnConnectionsReported, IsOwn
<1> QED BY <1>7, <1>8, <1>9, <1>10, <1>11, <1>12 DEF IInv

(* An address that cannot be dialled ends the program, which does not touch
   the list.                                                               *)
LEMMA FailStep ==
  ASSUME IInv, NEW t \in Texts, ConnectFails(t)
  PROVE  IInv'
<1>1. /\ phase' \in {"error", "panicked"} /\ UNCHANGED <<connectList, conns, events, reports>>
  BY DEF ConnectFails
<1>2. TypeOK'
  BY <1>1 DEF IInv, TypeOK
<1>3. \A x : Waiting(x)' <=> Waiting(x)
  BY <1>1 DEF Waiting
<1>4. Ended' = Ended /\ \A a : Own(a)' = Own(a) /\ NotOwn(a)' = NotOwn(a)
  BY <1>1, <1>3 DEF Ended, Own, NotOwn, IsOwn
<1>5. EntriesCountDials'
  BY <1>1, <1>4 DEF IInv, EntriesCountDials
<1>6. Asked' /\ EventsAreTrue' /\ OpenFirst'
  BY <1>1 DEF IInv, Asked, EventsAreTrue, OpenFirst, IsOwn
<1>7. CloseWaits' /\ OwnConnectionsReported'
  BY <1>1, <1>3, <1>4 DEF IInv, CloseWaits, OwnConnectionsReported, IsOwn
<1> QED BY <1>2, <1>5, <1>6, <1>7 DEF IInv

(* Somebody else's connection opens: its address gets no entry. *)
LEMMA OtherStep ==
  ASSUME IInv, NEW a \in Others, OtherOpens(a)
  PROVE  IInv'
<1> DEFINE c == Conn(a, NoText, "open")
           n == Len(conns) + 1
           e == Event("open", n)
<1>1. /\ Len(conns) < MaxConns /\ conns' = Append(conns, c) /\ events' = Append(events, e)
      /\ UNCHANGED <<phase, connectList, reports>>
  BY DEF OtherOpens
<1>2. n \in 1 .. MaxConns
  <2>1. Len(conns) \in Nat
    BY ByLength DEF IInv, TypeOK
  <2> QED BY <1>1, <2>1, ConnsAssumption
<1>3. /\ c \in ConnType /\ c.state = "open" /\ c.text = NoText /\ c.addr = a
      /\ e \in Events /\ e.event = "open" /\ e.conn = n
      /\ \A i : Event("closed", i) # e
      /\ \A s, i : i # n => Event(s, i) # e
  BY <1>2 DEF Conn, ConnType, States, Addrs, Event, Events
<1> HIDE DEF c, e
<1>4. /\ events' \in Seq(Events)
      /\ DOMAIN events' = DOMAIN events \cup {Len(events) + 1}
      /\ Len(events) + 1 \notin DOMAIN events
      /\ \A k \in DOMAIN events : k < Len(events) + 1 /\ k \in Nat
      /\ \A k \in DOMAIN events : events'[k] = events[k]
      /\ events'[Len(events) + 1] = e
      /\ \A x : Waiting(x)' <=> Waiting(x) \/ x = e
  BY <1>1, <1>3, EventAdded
<1>5. \A i : Waiting(Event("closed", i))' <=> Waiting(Event("closed", i))
  BY <1>3, <1>4
<1>6. /\ conns' \in Seq(ConnType) /\ Len(conns') <= MaxConns
      /\ DOMAIN conns' = DOMAIN conns \cup {n} /\ n \notin DOMAIN conns
      /\ \A i \in DOMAIN conns : conns'[i] = conns[i]
      /\ conns'[n] = c
      /\ Ended' = Ended /\ n \notin Ended
      /\ \A b : Own(b)' = Own(b)
      /\ \A b : NotOwn(b)' = IF b = a THEN NotOwn(b) \cup {n} ELSE NotOwn(b)
  BY <1>1, <1>3, <1>5, ConnAdded
<1> HIDE DEF n
<1>7. EntriesCountDials'
  <2>1. \A b : /\ Own(b)' \ Ended' = Own(b) \ Ended
               /\ NotOwn(b)' \cap Ended' = NotOwn(b) \cap Ended
    BY <1>6
  <2> QED BY <1>1, <2>1 DEF IInv, EntriesCountDials
<1>8. TypeOK'
  <2>1. /\ phase \in {"running", "error", "panicked"} /\ reports \subseteq Events
        /\ connectList \in [Addrs -> Nat]
    BY ConnsAssumption DEF IInv, TypeOK
  <2> QED BY <1>1, <1>4, <1>6, <1>7, <2>1, TypesFollow
<1>9. Asked'
  BY <1>3, <1>6 DEF IInv, Asked, IsOwn
<1>10. EventsAreTrue'
  BY <1>3, <1>4, <1>6 DEF IInv, EventsAreTrue
<1>11. OpenFirst'
  <2> SUFFICES ASSUME NEW k \in DOMAIN events', NEW l \in DOMAIN events', k < l,
                      events'[k].conn = events'[l].conn
               PROVE  events'[k].event = "open" /\ events'[l].event = "closed"
    BY DEF OpenFirst
  <2>1. \A j \in DOMAIN events : events[j].conn # n
    BY <1>6 DEF IInv, EventsAreTrue
  <2>2. k \in DOMAIN events /\ l \in DOMAIN events
    <3>1. CASE k \in DOMAIN events
      BY <1>3, <1>4, <2>1, <3>1
    <3>2. CASE k = Len(events) + 1
      <4>1. l \in DOMAIN events \/ l = k
        BY <1>4, <3>2
      <4>2. events \in Seq(Events)
        BY DEF IInv, TypeOK
      <4>3. Len(events) \in Nat
        BY <4>2, ByLength
      <4> QED BY <1>4, <3>2, <4>1, <4>3
    <3> QED BY <1>4, <3>1, <3>2
  <2> QED BY <1>4, <2>2 DEF IInv, OpenFirst
<1>12. CloseWaits'
  BY <1>3, <1>4, <1>6 DEF IInv, CloseWaits
<1>13. OwnConnectionsReported'
  <2> SUFFICES ASSUME NEW i \in DOMAIN conns', IsOwn(i)',
                      (NotOwn(conns[i].addr) \cap Ended = {})',
                      NEW s \in {"open", "closed"},
                      conns'[i].state \in {s, "closed"}, ~Waiting(Event(s, i))'
               PROVE  Event(s, i) \in reports'
    BY DEF OwnConnectionsReported
  <2>1. i \in DOMAIN conns /\ conns'[i] = conns[i] /\ IsOwn(i)
    BY <1>3, <1>6 DEF IsOwn
  <2>2. NotOwn(conns[i].addr) \cap Ended = {}
    BY <1>6, <2>1 DEF NotOwn, IsOwn
  <2>3. ~Waiting(Event(s, i))
    BY <1>4
  <2> QED BY <1>1, <2>1, <2>2, <2>3 DEF IInv, OwnConnectionsReported
<1> QED BY <1>7, <1>8, <1>9, <1>10, <1>11, <1>12, <1>13 DEF IInv

(* A connection opens, fails or closes: the event is to come. *)
LEMMA BecomesStep ==
  ASSUME IInv, NEW i \in DOMAIN conns, NEW from \in States, NEW to \in States,
         \/ from = "dialling" /\ to \in {"open", "failed"}
         \/ from = "open" /\ to = "closed",
         Becomes(i, from, to)
  PROVE  IInv'
<1> DEFINE e == Event(to, i)
<1>1. /\ conns[i].state = from /\ conns' = [conns EXCEPT ![i].state = to]
      /\ events' = Append(events, e)
      /\ UNCHANGED <<phase, connectList, reports>>
  BY DEF Becomes
<1>2. /\ conns \in Seq(ConnType) /\ DOMAIN conns = 1 .. Len(conns) /\ Len(conns) \in Nat
      /\ Len(conns) <= MaxConns
      /\ \A j \in DOMAIN conns : conns[j] \in ConnType
  <2>1. conns \in Seq(ConnType) /\ Len(conns) <= MaxConns
    BY DEF IInv, TypeOK, ConnType
  <2> QED BY <2>1, ByLength
<1>3. /\ DOMAIN conns' = DOMAIN conns
      /\ \A j \in DOMAIN conns : /\ conns'[j].addr = conns[j].addr /\ conns'[j].text = conns[j].text
                                 /\ conns'[j].state = IF j = i THEN to ELSE conns[j].state
                                 /\ conns'[j] \in ConnType
  BY <1>1, <1>2 DEF ConnType
<1>4. conns' \in Seq(ConnType) /\ Len(conns') <= MaxConns
  <2>1. conns' \in [1 .. Len(conns) -> ConnType]
    <3>1. conns' = [j \in DOMAIN conns |-> conns'[j]]
      BY <1>1, <1>2
    <3> QED BY <1>2, <1>3, <3>1
  <2> QED BY <1>2, <2>1
<1>5. e \in Events /\ e.event = to /\ e.conn = i
      /\ \A s, j : Event(s, j) = e <=> s = to /\ j = i
  <2>1. i \in 1 .. MaxConns
    BY <1>2, ConnsAssumption
  <2> QED BY <2>1 DEF Event, Events
<1> HIDE DEF e
<1>6. /\ events' \in Seq(Events)
      /\ DOMAIN events' = DOMAIN events \cup {Len(events) + 1}
      /\ Len(events) + 1 \notin DOMAIN events
      /\ \A k \in DOMAIN events : k < Len(events) + 1 /\ k \in Nat
      /\ \A k \in DOMAIN events : events'[k] = events[k]
      /\ events'[Len(events) + 1] = e
      /\ \A x : Waiting(x)' <=> Waiting(x) \/ x = e
  BY <1>1, <1>5, EventAdded
<1>7. Ended' = Ended
  <2>1. ASSUME NEW j PROVE j \in Ended' <=> j \in Ended
    <3>1. CASE j = i
      <4>1. j \notin Ended
        BY <1>1, <3>1 DEF Ended
      <4>2. to = "closed" => Waiting(Event("closed", i))'
        BY <1>5, <1>6
      <4>3. j \notin Ended'
        BY <1>3, <3>1, <4>2 DEF Ended
      <4> QED BY <4>1, <4>3
    <3>2. CASE j # i
      BY <1>3, <1>5, <1>6, <3>2 DEF Ended
    <3> QED BY <3>1, <3>2
  <2>2. Ended' \subseteq DOMAIN conns /\ Ended \subseteq DOMAIN conns
    BY <1>3 DEF Ended
  <2> QED BY <2>1, <2>2
<1>8. \A a : Own(a)' = Own(a) /\ NotOwn(a)' = NotOwn(a)
  BY <1>3 DEF Own, NotOwn, IsOwn
<1>9. EntriesCountDials'
  BY <1>1, <1>7, <1>8 DEF IInv, EntriesCountDials
<1>10. TypeOK'
  <2>1. /\ phase \in {"running", "error", "panicked"} /\ reports \subseteq Events
        /\ connectList \in [Addrs -> Nat]
    BY ConnsAssumption DEF IInv, TypeOK
  <2> QED BY <1>1, <1>4, <1>6, <1>9, <2>1, TypesFollow
<1>11. Asked'
  BY <1>3 DEF IInv, Asked, IsOwn
<1>12. EventsAreTrue'
  <2>1. \A k \in DOMAIN events :
          /\ events[k].conn \in DOMAIN conns
          /\ \/ /\ events[k].event \in {"closed", "failed"}
                /\ conns'[events[k].conn].state = events[k].event
             \/ /\ events[k].event = "open"
                /\ conns'[events[k].conn].state \in {"open", "closed"}
    BY <1>1, <1>3 DEF IInv, EventsAreTrue
  <2>2. \/ to \in {"closed", "failed"} /\ conns'[i].state = to
        \/ to = "open" /\ conns'[i].state \in {"open", "closed"}
    BY <1>3
  <2> QED BY <1>3, <1>5, <1>6, <2>1, <2>2 DEF EventsAreTrue
<1>13. OpenFirst'
  <2> SUFFICES ASSUME NEW k \in DOMAIN events', NEW l \in DOMAIN events', k < l,
                      events'[k].conn = events'[l].conn
               PROVE  events'[k].event = "open" /\ events'[l].event = "closed"
    BY DEF OpenFirst
  <2>1. k \in DOMAIN events
    <3>1. CASE k = Len(events) + 1
      <4>1. l \in DOMAIN events \/ l = k
        BY <1>6, <3>1
      <4>2. events \in Seq(Events)
        BY DEF IInv, TypeOK
      <4>3. Len(events) \in Nat
        BY <4>2, ByLength
      <4> QED BY <1>6, <3>1, <4>1, <4>3
    <3> QED BY <1>6, <3>1
  <2>2. CASE l \in DOMAIN events
    BY <1>6, <2>1, <2>2 DEF IInv, OpenFirst
  <2>3. CASE l = Len(events) + 1
    <3>1. events[k].conn = i /\ events'[k] = events[k] /\ events'[l] = e
      BY <1>5, <1>6, <2>1, <2>3
    <3>2. from = "open" /\ events[k].event = "open"
      BY <1>1, <2>1, <3>1 DEF IInv, EventsAreTrue
    <3> QED BY <1>5, <3>1, <3>2
  <2> QED BY <1>6, <2>2, <2>3
<1>14. CloseWaits'
  <2> SUFFICES ASSUME NEW j \in DOMAIN conns, conns'[j].state = "closed", Waiting(Event("open", j))'
               PROVE  Waiting(Event("closed", j))'
    BY <1>3 DEF CloseWaits
  <2>1. CASE j = i
    BY <1>3, <1>5, <1>6, <2>1
  <2>2. CASE j # i
    BY <1>3, <1>5, <1>6, <2>2 DEF IInv, CloseWaits
  <2> QED BY <2>1, <2>2
<1>15. OwnConnectionsReported'
  <2> SUFFICES ASSUME NEW j \in DOMAIN conns, IsOwn(j)',
                      (NotOwn(conns[j].addr) \cap Ended = {})',
                      NEW s \in {"open", "closed"},
                      conns'[j].state \in {s, "closed"}, ~Waiting(Event(s, j))'
               PROVE  Event(s, j) \in reports'
    BY <1>3 DEF OwnConnectionsReported
  <2>1. IsOwn(j) /\ NotOwn(conns[j].addr) \cap Ended = {} /\ ~Waiting(Event(s, j))
    BY <1>3, <1>6, <1>7 DEF NotOwn, IsOwn
  <2>2. conns[j].state \in {s, "closed"}
    <3>1. CASE j # i
      BY <1>3, <3>1
    <3>2. CASE j = i
      <4>1. to # s
        BY <1>5, <1>6, <3>2
      <4>2. to = "closed" /\ s = "open"
        BY <1>3, <3>2, <4>1
      <4> QED BY <1>1, <3>2, <4>2
    <3> QED BY <3>1, <3>2
  <2> QED BY <1>1, <2>1, <2>2 DEF IInv, OwnConnectionsReported
<1> QED BY <1>9, <1>10, <1>11, <1>12, <1>13, <1>14, <1>15 DEF IInv

(* Which events wait once the first has been handled. *)
LEMMA EventTaken ==
  ASSUME IInv, events # << >>, events' = Tail(events), UNCHANGED conns,
         NEW e, e = Head(events)
  PROVE  /\ e \in Events /\ e = Event(e.event, e.conn) /\ e.conn \in DOMAIN conns
         /\ Waiting(e)
         /\ events' \in Seq(Events)
         /\ \A k \in DOMAIN events' : k + 1 \in DOMAIN events /\ events'[k] = events[k + 1]
         /\ \A x : Waiting(x)' => Waiting(x)
         /\ \A x : Waiting(x) => Waiting(x)' \/ x = e
         /\ e.event = "closed" => \A s : ~Waiting(Event(s, e.conn))'
<1>1. events \in Seq(Events) /\ Len(events) \in Nat \ {0} /\ DOMAIN events = 1 .. Len(events)
  BY ByLength DEF IInv, TypeOK
<1>2. /\ e = events[1] /\ e \in Events /\ Tail(events) \in Seq(Events)
      /\ Len(Tail(events)) = Len(events) - 1
      /\ \A k \in 1 .. Len(Tail(events)) : Tail(events)[k] = events[k + 1]
  BY <1>1, HeadTailProperties
<1>3. DOMAIN Tail(events) = 1 .. Len(events) - 1
  BY <1>2, ByLength
<1>4. \A k \in 1 .. Len(events) - 1 : k + 1 \in 1 .. Len(events) /\ 1 < k + 1
  BY <1>1
<1>5. \A k \in 1 .. Len(events) : k = 1 \/ (k - 1 \in 1 .. Len(events) - 1 /\ (k - 1) + 1 = k)
  BY <1>1
<1>6. 1 \in DOMAIN events
  BY <1>1
<1>7. e = Event(e.event, e.conn)
  BY <1>2 DEF Events, Event
<1>8. \A k \in DOMAIN events' : k + 1 \in DOMAIN events /\ 1 < k + 1 /\ events'[k] = events[k + 1]
  BY <1>1, <1>2, <1>3, <1>4
<1>9. \A x : Waiting(x)' => Waiting(x)
  BY <1>8 DEF Waiting
<1>10. ASSUME NEW x, Waiting(x), x # e PROVE Waiting(x)'
  <2>1. PICK k \in DOMAIN events : events[k] = x
    BY <1>10 DEF Waiting
  <2>2. k # 1
    BY <1>2, <1>10, <2>1
  <2>3. PICK j \in DOMAIN events' : events'[j] = events[k]
    <3>1. k - 1 \in DOMAIN events' /\ (k - 1) + 1 = k
      BY <1>1, <1>3, <1>5, <2>2
    <3>2. events'[k - 1] = events[(k - 1) + 1]
      BY <1>8, <3>1
    <3> QED BY <3>1, <3>2
  <2> QED BY <2>1, <2>3 DEF Waiting
<1>11. Waiting(e)
  BY <1>2, <1>6 DEF Waiting
<1>12. ASSUME e.event = "closed", NEW s PROVE ~Waiting(Event(s, e.conn))'
  <2> SUFFICES ASSUME NEW k \in DOMAIN events', events'[k] = Event(s, e.conn)
               PROVE  FALSE
    BY DEF Waiting
  <2>1. /\ k + 1 \in DOMAIN events /\ 1 < k + 1 /\ events[k + 1].conn = events[1].conn
    BY <1>2, <1>8 DEF Event
  <2>2. events[1].event = "open"
    BY <1>6, <2>1 DEF IInv, OpenFirst
  <2> QED BY <1>2, <1>12, <2>2
<1>13. e.conn \in DOMAIN conns
  BY <1>2, <1>6 DEF IInv, EventsAreTrue
<1> QED BY <1>2, <1>7, <1>8, <1>9, <1>10, <1>11, <1>12, <1>13

(* The loop handles the next event: a closing takes out an entry of its
   address, and what concerns the user is shown.                           *)
LEMMA HandleStep ==
  ASSUME IInv, HandleEvent
  PROVE  IInv'
<1> PICK e : e = Head(events)
  OBVIOUS
<1>1. /\ events # << >> /\ events' = Tail(events) /\ UNCHANGED <<phase, conns>>
  BY DEF HandleEvent
<1>2. /\ e \in Events /\ e = Event(e.event, e.conn) /\ e.conn \in DOMAIN conns /\ Waiting(e)
      /\ events' \in Seq(Events)
      /\ \A k \in DOMAIN events' : k + 1 \in DOMAIN events /\ events'[k] = events[k + 1]
      /\ \A x : Waiting(x)' => Waiting(x)
      /\ \A x : Waiting(x) => Waiting(x)' \/ x = e
      /\ e.event = "closed" => \A s : ~Waiting(Event(s, e.conn))'
  BY <1>1, EventTaken
<1>3. PICK i \in DOMAIN conns : i = e.conn
  BY <1>2
<1> DEFINE a == conns[i].addr
<1>4. /\ reports' = IF e.event \in {"open", "closed"} /\ connectList[a] > 0
                    THEN reports \cup {e} ELSE reports
      /\ connectList' = IF e.event = "closed"
                        THEN [connectList EXCEPT ![a] = IF @ > 0 THEN @ - 1 ELSE 0]
                        ELSE connectList
  BY <1>3 DEF HandleEvent, ConnectingTo, DisconnectedFrom
<1>5. a \in Addrs
  <2>1. conns \in Seq(ConnType)
    BY DEF IInv, TypeOK, ConnType
  <2>2. conns[i] \in ConnType
    BY <2>1, ByLength
  <2> QED BY <1>3, <2>2 DEF ConnType
<1>6. connectList \in [Addrs -> Nat] /\ connectList' \in [Addrs -> Nat]
  <2>1. connectList \in [Addrs -> Nat]
    BY ConnsAssumption DEF IInv, TypeOK
  <2>2. CASE e.event # "closed"
    BY <1>4, <2>1, <2>2
  <2>3. CASE e.event = "closed"
    <3>1. connectList[a] \in Nat
      BY <1>5, <2>1
    <3>2. (IF connectList[a] > 0 THEN connectList[a] - 1 ELSE 0) \in Nat
      BY <3>1
    <3> QED BY <1>4, <1>5, <2>1, <2>3, <3>2
  <2> QED BY <2>1, <2>2, <2>3
<1>7. \A b : Own(b)' = Own(b) /\ NotOwn(b)' = NotOwn(b)
  BY <1>1 DEF Own, NotOwn, IsOwn
<1>8. e.event # "closed" => Ended' = Ended
  <2> SUFFICES ASSUME e.event # "closed" PROVE Ended' = Ended
    OBVIOUS
  <2>1. \A j : e # Event("closed", j)
    BY DEF Event
  <2>2. \A j : Waiting(Event("closed", j))' <=> Waiting(Event("closed", j))
    BY <1>2, <2>1
  <2> QED BY <1>1, <2>2 DEF Ended
<1>9. e.event = "closed" => Ended' = Ended \cup {i} /\ i \notin Ended
  <2> SUFFICES ASSUME e.event = "closed" PROVE Ended' = Ended \cup {i} /\ i \notin Ended
    OBVIOUS
  <2>1. e = Event("closed", i) /\ ~Waiting(Event("closed", i))' /\ Waiting(Event("closed", i))
    BY <1>2, <1>3
  <2>2. conns[i].state = "closed"
    <3>1. PICK k \in DOMAIN events : events[k] = e
      BY <1>2 DEF Waiting
    <3> QED BY <1>3, <3>1 DEF IInv, EventsAreTrue
  <2>3. \A j : j # i => Event("closed", j) # e
    BY <2>1 DEF Event
  <2>4. \A j : j # i => (Waiting(Event("closed", j))' <=> Waiting(Event("closed", j)))
    BY <1>2, <2>3
  <2>5. i \notin Ended
    BY <2>1 DEF Ended
  <2>6. \A j \in DOMAIN conns : j \in Ended' <=> j \in Ended \/ j = i
    <3>1. i \in Ended'
      BY <1>1, <1>3, <2>1, <2>2 DEF Ended
    <3>2. \A j \in DOMAIN conns : j # i => (j \in Ended' <=> j \in Ended)
      BY <1>1, <2>4 DEF Ended
    <3> QED BY <3>1, <3>2
  <2>7. Ended \subseteq DOMAIN conns /\ Ended' \subseteq DOMAIN conns
    BY <1>1 DEF Ended
  <2> QED BY <2>5, <2>6, <2>7
<1>10. EntriesCountDials'
  <2> SUFFICES ASSUME NEW b \in Addrs
               PROVE  /\ Cardinality(Own(b)' \ Ended') - Cardinality(NotOwn(b)' \cap Ended')
                           <= connectList'[b]
                      /\ connectList'[b] <= Cardinality(Own(b)' \ Ended')
    BY DEF EntriesCountDials
  <2>1. PICK u \in Nat, k \in Nat, m \in Nat :
             /\ u = Cardinality(Own(b) \ Ended) /\ k = Cardinality(NotOwn(b) \cap Ended)
             /\ m = connectList[b]
    BY <1>6, Counts
  <2>2. u - k <= m /\ m <= u
    BY <2>1 DEF IInv, EntriesCountDials
  <2>3. CASE e.event # "closed"
    <3>1. /\ Own(b)' \ Ended' = Own(b) \ Ended /\ NotOwn(b)' \cap Ended' = NotOwn(b) \cap Ended
          /\ connectList'[b] = connectList[b]
      BY <1>4, <1>7, <1>8, <2>3
    <3> QED BY <2>1, <2>2, <3>1
  <2>4. CASE e.event = "closed" /\ b # a
    <3>1. i \notin Own(b) /\ i \notin NotOwn(b)
      BY <1>3, <2>4 DEF Own, NotOwn
    <3>2. Own(b)' \ Ended' = Own(b) \ Ended /\ NotOwn(b)' \cap Ended' = NotOwn(b) \cap Ended
      BY <1>7, <1>9, <2>4, <3>1
    <3>3. connectList'[b] = connectList[b]
      BY <1>4, <1>6, <2>4
    <3> QED BY <2>1, <2>2, <3>2, <3>3
  <2>5. CASE e.event = "closed" /\ b = a
    <3>1. connectList'[b] = IF m > 0 THEN m - 1 ELSE 0
      BY <1>4, <1>6, <2>1, <2>5
    <3>2. CASE IsOwn(i)
      <4>1. i \in Own(b) /\ i \notin NotOwn(b)
        BY <1>3, <2>5, <3>2 DEF Own, NotOwn
      <4>2. /\ Own(b)' \ Ended' = (Own(b) \ Ended) \ {i} /\ i \in Own(b) \ Ended
            /\ NotOwn(b)' \cap Ended' = NotOwn(b) \cap Ended
        BY <1>7, <1>9, <2>5, <4>1
      <4>3. IsFiniteSet(Own(b) \ Ended)
        BY Counts
      <4>4. Cardinality((Own(b) \ Ended) \ {i}) = u - 1
        BY <2>1, <4>2, <4>3, FS_RemoveElement
      <4>5. u >= 1
        <5>1. u # 0
          BY <2>1, <4>2, <4>3, FS_EmptySet
        <5> QED BY <5>1
      <4>6. /\ (u - 1) - k <= (IF m > 0 THEN m - 1 ELSE 0)
            /\ (IF m > 0 THEN m - 1 ELSE 0) <= u - 1
        BY <2>2, <4>5
      <4> QED BY <2>1, <3>1, <4>2, <4>4, <4>6
    <3>3. CASE ~IsOwn(i)
      <4>1. i \in NotOwn(b) /\ i \notin Own(b)
        BY <1>3, <2>5, <3>3 DEF Own, NotOwn
      <4>2. /\ Own(b)' \ Ended' = Own(b) \ Ended
            /\ NotOwn(b)' \cap Ended' = (NotOwn(b) \cap Ended) \cup {i}
            /\ i \notin NotOwn(b) \cap Ended
        BY <1>7, <1>9, <2>5, <4>1
      <4>3. IsFiniteSet(NotOwn(b) \cap Ended)
        BY Counts
      <4>4. Cardinality((NotOwn(b) \cap Ended) \cup {i}) = k + 1
        BY <2>1, <4>2, <4>3, FS_AddElement
      <4>5. /\ u - (k + 1) <= (IF m > 0 THEN m - 1 ELSE 0)
            /\ (IF m > 0 THEN m - 1 ELSE 0) <= u
        BY <2>2
      <4> QED BY <2>1, <3>1, <4>2, <4>4, <4>5
    <3> QED BY <3>2, <3>3
  <2> QED BY <2>3, <2>4, <2>5
<1>11. TypeOK'
  <2>1. /\ phase \in {"running", "error", "panicked"} /\ reports' \subseteq Events
        /\ conns \in Seq(ConnType) /\ Len(conns) <= MaxConns
    BY <1>2, <1>4 DEF IInv, TypeOK, ConnType
  <2> QED BY <1>1, <1>2, <1>6, <1>10, <2>1, TypesFollow
<1>12. Asked'
  BY <1>1 DEF IInv, Asked, IsOwn
<1>13. EventsAreTrue'
  BY <1>1, <1>2 DEF IInv, EventsAreTrue
<1>14. OpenFirst'
  <2> SUFFICES ASSUME NEW k \in DOMAIN events', NEW l \in DOMAIN events', k < l,
                      events'[k].conn = events'[l].conn
               PROVE  events'[k].event = "open" /\ events'[l].event = "closed"
    BY DEF OpenFirst
  <2>1. /\ k + 1 \in DOMAIN events /\ events'[k] = events[k + 1]
        /\ l + 1 \in DOMAIN events /\ events'[l] = events[l + 1]
    BY <1>2
  <2>2. k + 1 < l + 1
    <3>1. DOMAIN events' = 1 .. Len(events') /\ Len(events') \in Nat
      BY <1>2, ByLength
    <3> QED BY <3>1
  <2> QED BY <2>1, <2>2 DEF IInv, OpenFirst
<1>15. CloseWaits'
  <2> SUFFICES ASSUME NEW j \in DOMAIN conns, conns[j].state = "closed", Waiting(Event("open", j))'
               PROVE  Waiting(Event("closed", j))'
    BY <1>1 DEF CloseWaits
  <2>1. Waiting(Event("closed", j))
    BY <1>2 DEF IInv, CloseWaits
  <2>2. Event("closed", j) # e
    <3> SUFFICES ASSUME Event("closed", j) = e PROVE FALSE
      OBVIOUS
    <3>1. e.event = "closed" /\ e.conn = j
      BY DEF Event
    <3> QED BY <1>2, <3>1
  <2> QED BY <1>2, <2>1, <2>2
<1>16. OwnConnectionsReported'
  <2> SUFFICES ASSUME NEW j \in DOMAIN conns, IsOwn(j),
                      NotOwn(conns[j].addr) \cap Ended' = {},
                      NEW s \in {"open", "closed"},
                      conns[j].state \in {s, "closed"}, ~Waiting(Event(s, j))'
               PROVE  Event(s, j) \in reports'
    BY <1>1 DEF OwnConnectionsReported, IsOwn, NotOwn
  <2>1. NotOwn(conns[j].addr) \cap Ended = {}
    BY <1>8, <1>9
  <2>2. CASE ~Waiting(Event(s, j))
    BY <1>4, <2>1, <2>2 DEF IInv, OwnConnectionsReported
  <2>3. CASE Waiting(Event(s, j))
    <3>1. Event(s, j) = e /\ e.event = s /\ j = i
      <4>1. Event(s, j) = e
        BY <1>2, <2>3
      <4> QED BY <1>3, <4>1 DEF Event
    <3>2. i \notin Ended
      <4>1. CASE s = "closed"
        BY <1>9, <3>1, <4>1
      <4>2. CASE s = "open"
        BY <2>3, <3>1, <4>2 DEF IInv, CloseWaits, Ended
      <4> QED BY <4>1, <4>2
    <3>3. i \in Own(a) \ Ended /\ NotOwn(a) \cap Ended = {}
      BY <1>3, <2>1, <3>1, <3>2 DEF Own
    <3>4. PICK u \in Nat, m \in Nat : u = Cardinality(Own(a) \ Ended) /\ m = connectList[a]
      BY <1>5, <1>6, Counts
    <3>5. IsFiniteSet(Own(a) \ Ended) /\ Cardinality({}) = 0
      BY Counts, FS_EmptySet
    <3>6. u # 0
      BY <3>3, <3>4, <3>5, FS_EmptySet
    <3>7. u - 0 <= m
      BY <1>5, <3>3, <3>4, <3>5 DEF IInv, EntriesCountDials
    <3>8. connectList[a] > 0
      BY <3>4, <3>6, <3>7
    <3> QED BY <1>4, <3>1, <3>8
  <2> QED BY <2>2, <2>3
<1> QED BY <1>10, <1>11, <1>12, <1>13, <1>14, <1>15, <1>16 DEF IInv

-----------------------------------------------------------------------------
(* Any step. *)
LEMMA StepInv == IInv /\ [Next]_vars => IInv'
<1> SUFFICES ASSUME IInv, [Next]_vars PROVE IInv'
  OBVIOUS
<1>1. CASE \E t \in Texts : Connect(t) \/ ConnectFails(t)
  BY <1>1, ConnectStep, FailStep
<1>2. CASE \E i \in DOMAIN conns : Opens(i) \/ DialFails(i) \/ Closes(i)
  <2>1. PICK i \in DOMAIN conns : Opens(i) \/ DialFails(i) \/ Closes(i)
    BY <1>2
  <2>2. "dialling" \in States /\ "open" \in States /\ "failed" \in States /\ "closed" \in States
    BY DEF States
  <2>3. CASE Opens(i)
    BY <2>2, <2>3, BecomesStep DEF Opens
  <2>4. CASE DialFails(i)
    BY <2>2, <2>4, BecomesStep DEF DialFails
  <2>5. CASE Closes(i)
    BY <2>2, <2>5, BecomesStep DEF Closes
  <2> QED BY <2>1, <2>3, <2>4, <2>5
<1>3. CASE \E a \in Others : OtherOpens(a)
  BY <1>3, OtherStep
<1>4. CASE HandleEvent
  BY <1>4, HandleStep
<1>5. CASE UNCHANGED vars
  <2>1. /\ UNCHANGED <<phase, connectList, conns, events, reports>>
        /\ \A x : Waiting(x)' <=> Waiting(x)
    BY <1>5 DEF vars, Waiting
  <2>2. Ended' = Ended /\ \A a : Own(a)' = Own(a) /\ NotOwn(a)' = NotOwn(a)
    BY <2>1 DEF Ended, Own, NotOwn, IsOwn
  <2>3. TypeOK' /\ Asked' /\ EventsAreTrue' /\ OpenFirst' /\ EntriesCountDials'
    BY <2>1, <2>2 DEF IInv, TypeOK, Asked, EventsAreTrue, OpenFirst, EntriesCountDials, IsOwn
  <2>4. CloseWaits' /\ OwnConnectionsReported'
    BY <2>1, <2>2 DEF IInv, CloseWaits, OwnConnectionsReported, IsOwn
  <2> QED BY <2>3, <2>4 DEF IInv
<1> QED BY <1>1, <1>2, <1>3, <1>4, <1>5 DEF Next

(* The invariant holds throughout, for any addresses and any number of
   connections.                                                            *)
THEOREM Invariance == Spec => []IInv
BY InitInv, StepInv, PTL DEF Spec

(* TypeOK: every variable stays in its range; no count of entries runs below
   zero, or ahead of the connections (UI::connect_list).                   *)
THEOREM TypesHold == Spec => []TypeOK
<1>1. IInv => TypeOK
  BY DEF IInv
<1> QED BY <1>1, Invariance, PTL

(* EntriesCountDials: the list has an entry for every dial of the user's
   that has not ended, but for those a stranger's connection to the same
   address took out (UI::disconnected_from).                               *)
THEOREM ListCountsDials == Spec => []EntriesCountDials
<1>1. IInv => EntriesCountDials
  BY DEF IInv
<1> QED BY <1>1, Invariance, PTL

(* OwnConnectionsReported: unless one of somebody else's to that address has
   closed, every connection the user asked for is shown opening and closing
   (UI::connecting_to).                                                    *)
THEOREM OwnOnesAreReported == Spec => []OwnConnectionsReported
<1>1. IInv => OwnConnectionsReported
  BY DEF IInv
<1> QED BY <1>1, Invariance, PTL

-----------------------------------------------------------------------------
(* The greatest of one. *)
LEMMA OnlyOne ==
  ASSUME NEW n \in Nat
  PROVE  Max({n}) = n
BY DEF Max

(* What an address of a host and a port is written back as. *)
LEMMA WrittenBack ==
  ASSUME NEW h, NEW p
  PROVE  /\ AsNetworkString(<<Part("ip4", h), Part("tcp", p)>>)
               = <<Word("ip4", h), Word("port", p)>>
         /\ AsNetworkString(<<Part("dns", h), Part("tcp", p)>>)
               = <<Word("name", h), Word("port", p)>>
         /\ AsNetworkString(<<Onion3(h, p)>>) = <<Word("onion", h), Word("port", p)>>
<1>1. ASSUME NEW k \in {"ip4", "dns"}
      PROVE  AsNetworkString(<<Part(k, h), Part("tcp", p)>>)
               = <<HostWord(Part(k, h)), Word("port", p)>>
  <2> DEFINE addr == <<Part(k, h), Part("tcp", p)>>
  <2>1. /\ DOMAIN addr = 1 .. 2 /\ addr[1] = Part(k, h) /\ addr[2] = Part("tcp", p)
        /\ addr[1].p = k /\ addr[2].p = "tcp" /\ addr[2].val = p
    BY DEF Part
  <2> HIDE DEF addr
  <2>2. \A i \in DOMAIN addr : i = 1 \/ i = 2
    BY <2>1
  <2>3. 1 \in DOMAIN addr /\ 2 \in DOMAIN addr
    BY <2>1
  <2>4. Kinds(addr) = {k, "tcp"}
    BY <2>1, <2>2, <2>3 DEF Kinds
  <2>5. /\ {i \in DOMAIN addr : addr[i].p \in HostKinds} = {1}
        /\ {i \in DOMAIN addr : addr[i].p \in PortKinds} = {2}
    BY <2>1, <2>2, <2>3 DEF HostKinds, PortKinds
  <2>6. LastOf(addr, HostKinds) = Part(k, h) /\ LastOf(addr, PortKinds) = Part("tcp", p)
    BY <2>1, <2>5, OnlyOne DEF LastOf
  <2>7. PortWord(Part("tcp", p)) = Word("port", p)
    BY DEF PortWord, Part
  <2>8. /\ Kinds(addr) \subseteq HostKinds \cup PortKinds
        /\ Kinds(addr) \cap PortKinds # {} /\ Kinds(addr) \cap HostKinds # {}
    BY <2>4 DEF HostKinds, PortKinds
  <2>9. AsNetworkString(addr) = <<HostWord(Part(k, h)), Word("port", p)>>
    BY <2>6, <2>7, <2>8 DEF AsNetworkString
  <2> QED BY <2>9 DEF addr
<1>2. HostWord(Part("ip4", h)) = Word("ip4", h) /\ HostWord(Part("dns", h)) = Word("name", h)
  BY DEF HostWord, Part
<1>3. AsNetworkString(<<Onion3(h, p)>>) = <<Word("onion", h), Word("port", p)>>
  <2> DEFINE addr == <<Onion3(h, p)>>
  <2>1. /\ DOMAIN addr = {1} /\ addr[1] = Onion3(h, p) /\ addr[1].p = "onion3"
        /\ addr[1].val = h /\ addr[1].port = p
    BY DEF Onion3
  <2> HIDE DEF addr
  <2>2. Kinds(addr) = {"onion3"}
    BY <2>1 DEF Kinds
  <2>3. /\ {i \in DOMAIN addr : addr[i].p \in HostKinds} = {1}
        /\ {i \in DOMAIN addr : addr[i].p \in PortKinds} = {1}
    BY <2>1 DEF HostKinds, PortKinds
  <2>4. LastOf(addr, HostKinds) = addr[1] /\ LastOf(addr, PortKinds) = addr[1]
    BY <2>3, OnlyOne DEF LastOf
  <2>5. HostWord(addr[1]) = Word("onion", h) /\ PortWord(addr[1]) = Word("port", p)
    BY <2>1 DEF HostWord, PortWord
  <2>6. /\ Kinds(addr) \subseteq HostKinds \cup PortKinds
        /\ Kinds(addr) \cap PortKinds # {} /\ Kinds(addr) \cap HostKinds # {}
    BY <2>2 DEF HostKinds, PortKinds
  <2>7. AsNetworkString(addr) = <<Word("onion", h), Word("port", p)>>
    BY <2>4, <2>5, <2>6 DEF AsNetworkString
  <2> QED BY <2>7 DEF addr
<1> QED BY <1>1, <1>2, <1>3

(* What is typed the usual way and can be parsed survives the way there and
   back.                                                                   *)
LEMMA UsualSurvives ==
  ASSUME NEW t \in Texts, IsUsual(t), Parse(t).is = "address"
  PROVE  AsNetworkString(Parse(t).addr) = t.parts
<1> DEFINE host == t.parts[1]
           port == t.parts[2]
<1>1. t.form = "words" /\ Len(t.parts) = 2 /\ \A i \in DOMAIN t.parts : t.parts[i].usual
  BY DEF IsUsual
<1>2. /\ t.parts \in Seq(Range(t.parts))
      /\ host.is \in {"ip4", "onion", "bad_onion", "name"}
      /\ \A i \in DOMAIN t.parts : IsWord(t.parts[i])
  <2>1. IsText(t)
    BY TextAssumption
  <2> QED BY <1>1, <2>1 DEF IsText
<1>3. t.parts = <<host, port>> /\ 1 \in DOMAIN t.parts /\ 2 \in DOMAIN t.parts
  BY <1>1, <1>2
<1>4. host = Word(host.is, host.val) /\ port = Word(port.is, port.val)
  <2>1. IsWord(host) /\ host.usual /\ IsWord(port) /\ port.usual
    BY <1>1, <1>2, <1>3
  <2>2. host.usual = TRUE /\ port.usual = TRUE
    BY <2>1 DEF IsWord
  <2> QED BY <2>1, <2>2 DEF IsWord, Word
<1>5. port.is = "port" /\ Parse(t) = FromParts(host, port)
  BY <1>1 DEF Parse, ParseError
<1> HIDE DEF host, port
<1>6. CASE host.is = "ip4"
  <2>1. Parse(t).addr = <<Part("ip4", host.val), Part("tcp", port.val)>>
    BY <1>5, <1>6 DEF FromParts, Address
  <2>2. AsNetworkString(<<Part("ip4", host.val), Part("tcp", port.val)>>)
          = <<Word("ip4", host.val), Word("port", port.val)>>
    BY WrittenBack
  <2>3. Word("ip4", host.val) = host /\ Word("port", port.val) = port
    BY <1>4, <1>5, <1>6
  <2> QED BY <1>3, <2>1, <2>2, <2>3
<1>7. CASE host.is = "onion"
  <2>1. Parse(t).addr = <<Onion3(host.val, port.val)>>
    BY <1>5, <1>7 DEF FromParts, Address
  <2>2. AsNetworkString(<<Onion3(host.val, port.val)>>)
          = <<Word("onion", host.val), Word("port", port.val)>>
    BY WrittenBack
  <2>3. Word("onion", host.val) = host /\ Word("port", port.val) = port
    BY <1>4, <1>5, <1>7
  <2> QED BY <1>3, <2>1, <2>2, <2>3
<1>8. CASE host.is = "name"
  <2>1. Parse(t).addr = <<Part("dns", host.val), Part("tcp", port.val)>>
    BY <1>5, <1>8 DEF FromParts, Address
  <2>2. AsNetworkString(<<Part("dns", host.val), Part("tcp", port.val)>>)
          = <<Word("name", host.val), Word("port", port.val)>>
    BY WrittenBack
  <2>3. Word("name", host.val) = host /\ Word("port", port.val) = port
    BY <1>4, <1>5, <1>8
  <2> QED BY <1>3, <2>1, <2>2, <2>3
<1>9. host.is # "bad_onion"
  BY <1>5 DEF FromParts, ParsePanic
<1> QED BY <1>2, <1>6, <1>7, <1>8, <1>9 DEF host

(* HostAndPortKept: a host and a port typed the usual way are dialled as an
   address that is written back as they were typed (NetworkAddress).       *)
THEOREM HostsAndPortsAreKept == Spec => []HostAndPortKept
<1>1. ASSUME IInv PROVE HostAndPortKept
  <2> SUFFICES ASSUME NEW i \in DOMAIN conns, IsOwn(i), IsUsual(conns[i].text)
               PROVE  AsNetworkString(conns[i].addr) = conns[i].text.parts
    BY DEF HostAndPortKept
  <2>1. conns[i].text \in Parsed /\ conns[i].addr = Parse(conns[i].text).addr
    BY <1>1 DEF IInv, Asked
  <2>2. PICK t \in Texts : t = conns[i].text /\ Parse(t).is = "address"
    BY <2>1 DEF Parsed
  <2> QED BY <2>1, <2>2, UsualSurvives
<1> QED BY <1>1, Invariance, PTL

=============================================================================
