-------------------------------- MODULE Chat --------------------------------
(***************************************************************************)
(* The chat core of the terminal client: the topics gossipsub has joined,  *)
(* the message history kept per topic (Subscriptions), the row of tabs     *)
(* with the selected one (SubscriptionList), the messages that arrive from *)
(* peers and the messages the user sends to the selected tab.              *)
(*                                                                         *)
(* The same set of topics is kept in three places and a fourth variable,   *)
(* the selected index, points into one of them.  The index is a usize:     *)
(* the subtraction in SubscriptionList::unsubscribe panics when the build  *)
(* checks overflow (dev profile) and wraps when it does not (release), so  *)
(* the profile is chosen once, in the initial state.                       *)
(***************************************************************************)
EXTENDS Integers, Sequences, Functions

CONSTANTS
  Topics,       \* topic names
  HistoryCap,   \* capacity of a topic's circular history (200 in the code)
  MaxUsize,     \* usize::MAX
  MaxMessages,  \* bound: messages sent and received in one behaviour
  Profiles      \* build profiles: {TRUE} overflow-checked, {FALSE} wrapping

ASSUME CapAssumption == HistoryCap \in Nat \ {0}
ASSUME UsizeAssumption == MaxUsize \in Nat \ {0}
ASSUME BoundAssumption == MaxMessages \in Nat
ASSUME ProfileAssumption == Profiles \subseteq BOOLEAN

VARIABLES
  overflowChecks, \* does this build check arithmetic overflow
  mesh,           \* topics gossipsub has joined
  subscriptions,  \* topic |-> history, oldest message first
  list,           \* topics of the tabs, left to right
  currentIndex,   \* 0-based index of the selected tab, or NoTab
  inbox,          \* gossipsub messages the event loop has not handled yet
  outbox,         \* messages gossipsub accepted for publication
  panic,          \* "none", or the panic that ended the process
  sent,           \* number of messages created so far
  journal,        \* history: every message shown or dropped, in order
  mark            \* history: joined topic |-> Len(journal) when it was joined

vars == <<overflowChecks, mesh, subscriptions, list, currentIndex, inbox,
          outbox, panic, sent, journal, mark>>

Running == panic = "none"
NoTab == -1

Message == [topic : Topics, own : BOOLEAN, utf8 : BOOLEAN, id : Nat]

(* Faulty variant: the queue grows one past its capacity. *)
PushPastCap(queue, m) ==
  IF Len(queue) <= HistoryCap THEN Append(queue, m) ELSE Append(Tail(queue), m)

(* CircularQueue::push: a full queue drops its oldest element. *)
Push(queue, m) ==
  IF Len(queue) < HistoryCap THEN Append(queue, m) ELSE Append(Tail(queue), m)

-----------------------------------------------------------------------------
(* SubscriptionList *)

(* Faulty variant: the last element is dropped, not moved into the gap. *)
Truncate(s, i) == [j \in 1 .. Len(s) - 1 |-> s[j]]

(* Vec::swap_remove at 1-based position i: the last element fills the gap. *)
SwapRemove(s, i) ==
  [j \in 1 .. Len(s) - 1 |-> IF j = i THEN s[Len(s)] ELSE s[j]]

(* current(): the selected topic exists only when the index is in range. *)
CurrentIsSome == currentIndex \in 0 .. Len(list) - 1
Current == list[currentIndex + 1]

(* current - 1 and index + 1 on a usize, in a build that wraps. *)
WrappingSucc(n) == IF n = MaxUsize THEN 0 ELSE n + 1
WrappingPred(n) == IF n = 0 THEN MaxUsize ELSE n - 1

(* Faulty variants of the index update: the length is subtracted; the
   removed tab itself is not counted; no reset when the last tab goes; the
   index moves whatever tab was removed.                                   *)
IndexMinusLength(index, n) ==
  IF n = 1 THEN NoTab
  ELSE IF currentIndex >= index THEN currentIndex - n ELSE currentIndex
IndexIfStrictlyRight(index, n) ==
  IF n = 1 THEN NoTab
  ELSE IF currentIndex > index THEN WrappingPred(currentIndex)
  ELSE currentIndex
IndexNeverReset(index, n) ==
  IF currentIndex >= index THEN WrappingPred(currentIndex) ELSE currentIndex
IndexAlwaysMoves(index, n) ==
  IF n = 1 THEN NoTab ELSE WrappingPred(currentIndex)

(* The index after the tab at 0-based position index was removed from a row
   of n tabs.                                                              *)
IndexAfterRemoval(index, n) ==
  IF n = 1 THEN NoTab
  ELSE IF currentIndex >= index THEN WrappingPred(currentIndex)
  ELSE currentIndex

(* The panics of that computation: None although tabs remain, and 0 - 1. *)
RemovalPanic(index, n) ==
  CASE n > 1 /\ currentIndex = NoTab -> "index_none"
    [] n > 1 /\ currentIndex = 0 /\ index = 0 /\ overflowChecks -> "underflow"
    [] OTHER -> "none"

-----------------------------------------------------------------------------
Init ==
  /\ overflowChecks \in Profiles
  /\ mesh = {}
  /\ subscriptions = << >>
  /\ list = << >>
  /\ currentIndex = NoTab
  /\ inbox = << >>
  /\ outbox = {}
  /\ panic = "none"
  /\ sent = 0
  /\ journal = << >>
  /\ mark = [t \in Topics |-> 0]

(* "/subscribe t" when gossipsub answers Ok(true). *)
Subscribe(t) ==
  /\ Running
  /\ t \notin mesh
  /\ mesh' = mesh \cup {t}
  /\ subscriptions' = [u \in DOMAIN subscriptions \cup {t} |->
                         IF u = t THEN << >> ELSE subscriptions[u]]
  /\ list' = Append(list, t)
  /\ currentIndex' = Len(list)
  /\ mark' = [mark EXCEPT ![t] = Len(journal)]
  /\ UNCHANGED <<overflowChecks, inbox, outbox, panic, sent, journal>>

(* "/subscribe t" when gossipsub answers Ok(false), as it does for a topic it
   has joined already, or an error: the client only logs.                   *)
SubscribeRefused(t) ==
  /\ Running
  /\ UNCHANGED vars

(* "/unsubscribe t" when gossipsub answers Ok(true). *)
Unsubscribe(t) ==
  /\ Running
  /\ t \in mesh
  /\ mesh' = mesh \ {t}
  /\ IF t \in DOMAIN subscriptions
     THEN /\ subscriptions' = Restrict(subscriptions, DOMAIN subscriptions \ {t})
          /\ IF \E i \in 1 .. Len(list) : list[i] = t
             THEN LET i == CHOOSE j \in 1 .. Len(list) : list[j] = t
                  IN  /\ list' = SwapRemove(list, i)
                      /\ panic' = RemovalPanic(i - 1, Len(list))
                      /\ currentIndex' = IF panic' = "none"
                                         THEN IndexAfterRemoval(i - 1, Len(list))
                                         ELSE currentIndex
             ELSE UNCHANGED <<list, currentIndex, panic>>
     ELSE UNCHANGED <<subscriptions, list, currentIndex, panic>>
  /\ mark' = [mark EXCEPT ![t] = 0]
  /\ UNCHANGED <<overflowChecks, inbox, outbox, sent, journal>>

(* "/unsubscribe t" when gossipsub answers Ok(false) or an error. *)
UnsubscribeRefused(t) ==
  /\ Running
  /\ UNCHANGED vars

(* Ctrl-Right *)
NextTab ==
  /\ Running
  /\ currentIndex # NoTab
  /\ currentIndex' = IF currentIndex = Len(list) - 1 THEN 0
                     ELSE WrappingSucc(currentIndex)
  /\ UNCHANGED <<overflowChecks, mesh, subscriptions, list, inbox, outbox,
                 panic, sent, journal, mark>>

(* Ctrl-Left *)
PrevTab ==
  /\ Running
  /\ currentIndex # NoTab
  /\ currentIndex' = IF currentIndex = 0 THEN Len(list) - 1 ELSE currentIndex - 1
  /\ UNCHANGED <<overflowChecks, mesh, subscriptions, list, inbox, outbox,
                 panic, sent, journal, mark>>

(* Faulty variant: own messages are not echoed. *)
ShowReceived(m) ==
  /\ subscriptions' = IF m.topic \in DOMAIN subscriptions /\ ~m.own
                      THEN [subscriptions EXCEPT ![m.topic] = Push(@, m)]
                      ELSE subscriptions
  /\ journal' = Append(journal, m)

(* Subscriptions::add_message and UI::add_message: no history, no effect. *)
Show(m) ==
  /\ subscriptions' = IF m.topic \in DOMAIN subscriptions
                      THEN [subscriptions EXCEPT ![m.topic] = Push(@, m)]
                      ELSE subscriptions
  /\ journal' = Append(journal, m)

(* Enter on a line that is not a command: the message is shown in the
   selected tab first and then handed to gossipsub, which may refuse it;
   the client then logs the error and leaves the message in the tab.       *)
SendMessage ==
  /\ Running
  /\ sent < MaxMessages
  /\ CurrentIsSome
  /\ Current \in DOMAIN subscriptions
  /\ LET m == [topic |-> Current, own |-> TRUE, utf8 |-> TRUE, id |-> sent + 1]
     IN  /\ Show(m)
         /\ outbox' \in {outbox, outbox \cup {m}}
  /\ sent' = sent + 1
  /\ UNCHANGED <<overflowChecks, mesh, list, currentIndex, inbox, panic, mark>>

(* Enter when no tab is selected, or when the selected one has no history:
   the client logs an error.                                               *)
SendRefused ==
  /\ Running
  /\ currentIndex # NoTab =>
       CurrentIsSome /\ Current \notin DOMAIN subscriptions
  /\ UNCHANGED vars

(* Enter when the index is set but names no tab: current().unwrap(). *)
SendPanics ==
  /\ Running
  /\ currentIndex # NoTab
  /\ ~CurrentIsSome
  /\ panic' = "no_current"
  /\ UNCHANGED <<overflowChecks, mesh, subscriptions, list, currentIndex,
                 inbox, outbox, sent, journal, mark>>

(* The redraw before every wait: the chat panel of the selected tab unwraps
   that topic's history.                                                   *)
Draw ==
  /\ Running
  /\ panic' = IF CurrentIsSome /\ Current \notin DOMAIN subscriptions
              THEN "no_history" ELSE panic
  /\ UNCHANGED <<overflowChecks, mesh, subscriptions, list, currentIndex,
                 inbox, outbox, sent, journal, mark>>

-----------------------------------------------------------------------------
(* Gossipsub: a peer's message on a joined topic becomes a swarm event.  The
   payload is bytes, not necessarily UTF-8.                                *)
PeerMessage(t) ==
  /\ Running
  /\ t \in mesh
  /\ sent < MaxMessages
  /\ \E ok \in BOOLEAN :
       inbox' = Append(inbox, [topic |-> t, own |-> FALSE, utf8 |-> ok,
                               id |-> sent + 1])
  /\ sent' = sent + 1
  /\ UNCHANGED <<overflowChecks, mesh, subscriptions, list, currentIndex,
                 outbox, panic, journal, mark>>

(* The event conversion: from_utf8(&message.data).unwrap() *)
Converts(m) == m.utf8

(* The event loop takes the next gossipsub message and converts it; the
   handler's Message arm adds it to the UI.                                *)
HandleMessage ==
  /\ Running
  /\ inbox # << >>
  /\ inbox' = Tail(inbox)
  /\ IF Converts(Head(inbox))
     THEN Show(Head(inbox)) /\ UNCHANGED panic
     ELSE panic' = "bad_utf8" /\ UNCHANGED <<subscriptions, journal>>
  /\ UNCHANGED <<overflowChecks, mesh, list, currentIndex, outbox, sent, mark>>

Next ==
  \/ \E t \in Topics : \/ Subscribe(t) \/ SubscribeRefused(t)
                       \/ Unsubscribe(t) \/ UnsubscribeRefused(t)
                       \/ PeerMessage(t)
  \/ NextTab \/ PrevTab
  \/ SendMessage \/ SendRefused \/ SendPanics
  \/ Draw \/ HandleMessage

Spec == Init /\ [][Next]_vars

-----------------------------------------------------------------------------
Panics == {"none", "index_none", "underflow", "no_current", "no_history",
           "bad_utf8"}

(* Every variable stays in its range; the index may be any usize. *)
TypeOK ==
  /\ overflowChecks \in BOOLEAN
  /\ mesh \subseteq Topics
  /\ DOMAIN subscriptions \subseteq Topics
  /\ subscriptions \in [DOMAIN subscriptions -> Seq(Message)]
  /\ list \in Seq(Topics)
  /\ currentIndex \in Nat \cup {NoTab}
  /\ inbox \in Seq(Message)
  /\ outbox \subseteq Message
  /\ panic \in Panics
  /\ sent \in Nat
  /\ journal \in Seq(Message)
  /\ mark \in [Topics -> Nat]

(* The three copies of the subscriptions never drift apart, in any order of
   joins, departures, refusals and messages: gossipsub's mesh, the map of
   histories and the row of tabs hold the same topics, each in one tab.  The
   chat panel's get(topic).unwrap() and the Enter handler rely on it.      *)
CopiesAgree ==
  /\ mesh = DOMAIN subscriptions
  /\ mesh = Range(list)
  /\ IsInjective(list)

(* In a build that checks overflow, a client that has not panicked has a
   selected tab exactly when it has tabs, and the index names one of them:
   the current().unwrap() of the Enter handler is safe there.              *)
CurrentWithinTabs ==
  overflowChecks /\ Running =>
    /\ currentIndex = NoTab <=> list = << >>
    /\ currentIndex # NoTab => CurrentIsSome

(* In every build the index is None exactly when no tab is left, so the
   "index is None when it shouldn't be" panic cannot happen, nor can the
   panel be drawn for a topic without history.                             *)
NeverLosesSelection ==
  /\ Running => (currentIndex = NoTab <=> list = << >>)
  /\ panic \notin {"index_none", "no_history"}

(* Where the journal has the messages of a topic, handled since it was joined. *)
Handled(t) == {i \in mark[t] + 1 .. Len(journal) : journal[i].topic = t}

(* A queue holds, in order, the most recent of what s has at places: none
   between is left out, and an older one only if the queue is full.        *)
IsRecent(queue, places, s) ==
  /\ Len(queue) <= HistoryCap
  /\ \E f \in [DOMAIN queue -> places] :
       /\ \A k \in DOMAIN queue : queue[k] = s[f[k]]
       /\ \A j, k \in DOMAIN queue : j < k => f[j] < f[k]
       /\ \A i \in places :
            \/ \E k \in DOMAIN queue : i = f[k]
            \/ Len(queue) = HistoryCap /\ \A k \in DOMAIN queue : i < f[k]

(* A tab shows exactly the most recent HistoryCap messages of its topic, own
   and received, in the order they were handled, of those handled since the
   topic was last joined: nothing of an earlier subscription comes back,
   nothing of another topic leaks in, nothing is lost or reordered.        *)
PanelIsRecentHistory ==
  \A t \in DOMAIN subscriptions : IsRecent(subscriptions[t], Handled(t), journal)

PublishStep ==
  \A m \in outbox' \ outbox :
    /\ m.topic \in mesh /\ CurrentIsSome /\ m.topic = Current
    /\ subscriptions'[m.topic] # << >>
    /\ subscriptions'[m.topic][Len(subscriptions'[m.topic])] = m

(* Whatever is handed to gossipsub is of a topic that is joined at that
   moment and is the newest line of the tab the user has selected.         *)
PublishesToSelected == [][PublishStep]_vars

LeaveStep ==
  \A i \in DOMAIN list :
    CurrentIsSome /\ i > currentIndex + 1 /\ mesh' = mesh \ {list[i]} =>
      CurrentIsSome' /\ Current' = Current

(* Leaving a topic whose tab is to the right of the selected one does not
   change which topic the user is typing to, although swap_remove reorders
   the row.                                                                *)
LeavingRightKeepsSelection == [][LeaveStep]_vars

(* What the Enter handler asserts (ui.rs, current().unwrap()): when an index
   is set there is a selected topic.                                       *)
EnterFindsCurrent == panic # "no_current"

=============================================================================
