----------------------------- MODULE Connections -----------------------------
(***************************************************************************)
(* Which connections the user hears about.  "/connect" parses an address,  *)
(* dials it and notes it in UI::connect_list; a connection's opening and   *)
(* closing are shown only while its remote address is in that list, and    *)
(* each closing takes one entry of its address out.  A dial that fails     *)
(* leaves its entry.                                                       *)
(*                                                                         *)
(* The list is known by addresses alone.  The same addresses are met by    *)
(* connections nobody asked for: peers that dial in (their send-back       *)
(* address) and those the behaviours dial.  Connections are external; the  *)
(* swarm hands their events over in order, and the loop handles each in    *)
(* the round that took it.                                                 *)
(***************************************************************************)
EXTENDS NetworkAddr, FiniteSets

CONSTANTS
  Texts,    \* what the user may type after "/connect" (or --connect)
  Others,   \* remote addresses of connections the user did not ask for
  MaxConns  \* bound: connections, failed dials included

ASSUME ConnsAssumption == MaxConns \in Nat
ASSUME TextAssumption == \A t \in Texts : IsText(t)

VARIABLES
  phase,       \* "running", or why the program ended
  connectList, \* UI::connect_list: number of entries per address
  conns,       \* external: the connections and dials so far
  events,      \* external: connection events the swarm will hand over
  reports      \* history: [event, conn] shown to the user

vars == <<phase, connectList, conns, events, reports>>

Parsed == {t \in Texts : Parse(t).is = "address"}
Addrs == {Parse(t).addr : t \in Parsed} \cup Others

(* A connection, with what the user typed for it, or NoText. *)
NoText == Words(<< >>)
Conn(addr, text, state) == [addr |-> addr, text |-> text, state |-> state]
Event(e, i) == [event |-> e, conn |-> i]

Init ==
  /\ phase = "running"
  /\ connectList = [a \in Addrs |-> 0]
  /\ conns = << >>
  /\ events = << >>
  /\ reports = {}

-----------------------------------------------------------------------------
(* UI::connect.  An unreadable address, or a dial the swarm refuses at once,
   is an error that leaves Engine::run; a bad onion label panics.          *)
ConnectFails(t) ==
  /\ phase = "running"
  /\ \/ Parse(t).is # "panic" /\ phase' = "error"
     \/ Parse(t).is = "panic" /\ phase' = "panicked"
  /\ UNCHANGED <<connectList, conns, events, reports>>

(* Faulty variant: an address is noted once. *)
NoteOnce(a) == connectList' = [connectList EXCEPT ![a] = 1]
(* self.connect_list.push(..) *)
Note(a) == connectList' = [connectList EXCEPT ![a] = @ + 1]

Connect(t) ==
  /\ phase = "running"
  /\ Parse(t).is = "address"
  /\ Len(conns) < MaxConns
  /\ LET a == Parse(t).addr
     IN  /\ Note(a)
         /\ conns' = Append(conns, Conn(a, t, "dialling"))
  /\ UNCHANGED <<phase, events, reports>>

-----------------------------------------------------------------------------
(* External: connections open, fail and close. *)
Becomes(i, from, to) ==
  /\ phase = "running"
  /\ conns[i].state = from
  /\ conns' = [conns EXCEPT ![i].state = to]
  /\ events' = Append(events, Event(to, i))
  /\ UNCHANGED <<phase, connectList, reports>>

Opens(i) == Becomes(i, "dialling", "open")
DialFails(i) == Becomes(i, "dialling", "failed")
Closes(i) == Becomes(i, "open", "closed")

(* External: a peer has dialled in, or a behaviour has dialled out. *)
OtherOpens(a) ==
  /\ phase = "running"
  /\ Len(conns) < MaxConns
  /\ conns' = Append(conns, Conn(a, NoText, "open"))
  /\ events' = Append(events, Event("open", Len(conns) + 1))
  /\ UNCHANGED <<phase, connectList, reports>>

-----------------------------------------------------------------------------
(* UI::connecting_to *)
ConnectingTo(a) == connectList[a] > 0

(* Faulty variants: every entry goes, or one is counted off regardless. *)
DisconnectedFromAll(a) == connectList' = [connectList EXCEPT ![a] = 0]
DisconnectedUnchecked(a) == connectList' = [connectList EXCEPT ![a] = @ - 1]
(* UI::disconnected_from *)
DisconnectedFrom(a) ==
  connectList' = [connectList EXCEPT ![a] = IF @ > 0 THEN @ - 1 ELSE 0]

(* MyHandler::handle_event on ConnectionEstablished, ConnectionClosed and,
   by its last arm, OutgoingConnectionError.                               *)
HandleEvent ==
  /\ phase = "running"
  /\ events # << >>
  /\ LET e == Head(events)
         a == conns[e.conn].addr
     IN  /\ reports' = IF e.event \in {"open", "closed"} /\ ConnectingTo(a)
                       THEN reports \cup {e} ELSE reports
         /\ IF e.event = "closed" THEN DisconnectedFrom(a) ELSE UNCHANGED connectList
  /\ events' = Tail(events)
  /\ UNCHANGED <<phase, conns>>

Next ==
  \/ \E t \in Texts : Connect(t) \/ ConnectFails(t)
  \/ \E i \in DOMAIN conns : Opens(i) \/ DialFails(i) \/ Closes(i)
  \/ \E a \in Others : OtherOpens(a)
  \/ HandleEvent

Spec == Init /\ [][Next]_vars

-----------------------------------------------------------------------------
States == {"dialling", "open", "closed", "failed"}
Events == [event : States, conn : 1 .. MaxConns]

(* Every variable stays in its range: no count of entries below zero. *)
TypeOK ==
  /\ phase \in {"running", "error", "panicked"}
  /\ connectList \in [Addrs -> 0 .. MaxConns]
  /\ conns \in Seq([addr : Addrs, text : Texts \cup {NoText}, state : States])
  /\ Len(conns) <= MaxConns
  /\ events \in Seq(Events)
  /\ reports \subseteq Events

Waiting(e) == \E k \in DOMAIN events : events[k] = e

(* The connections whose closing has been handled. *)
Ended == {i \in DOMAIN conns :
            conns[i].state = "closed" /\ ~Waiting(Event("closed", i))}

IsOwn(i) == conns[i].text # NoText
Own(a) == {i \in DOMAIN conns : IsOwn(i) /\ conns[i].addr = a}
NotOwn(a) == {i \in DOMAIN conns : ~IsOwn(i) /\ conns[i].addr = a}

(* An address has an entry for each of the user's dials to it that has not
   ended in a handled closing, the failed ones included, but for one at most
   per connection of somebody else's to the same address that has closed.  *)
EntriesCountDials ==
  \A a \in Addrs :
    LET unfinished == Cardinality(Own(a) \ Ended)
        taken == Cardinality(NotOwn(a) \cap Ended)
    IN  unfinished - taken <= connectList[a] /\ connectList[a] <= unfinished

(* The opening and the closing of every connection the user asked for are
   shown, however many dials to one address overlap, unless a connection of
   somebody else's to that address has closed before.                      *)
OwnConnectionsReported ==
  \A i \in DOMAIN conns :
    IsOwn(i) /\ NotOwn(conns[i].addr) \cap Ended = {} =>
      \A s \in {"open", "closed"} :
        /\ conns[i].state \in {s, "closed"}
        /\ ~Waiting(Event(s, i))
        => Event(s, i) \in reports

(* A host and a port, typed the usual way, are dialled as an address that is
   written back as that same host and port (network_addr.rs, tests).       *)
HostAndPortKept ==
  \A i \in DOMAIN conns :
    IsOwn(i) /\ IsUsual(conns[i].text) =>
      AsNetworkString(conns[i].addr) = conns[i].text.parts

=============================================================================
