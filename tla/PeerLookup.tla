----------------------------- MODULE PeerLookup -----------------------------
(***************************************************************************)
(* What the engine promises about peer lookups, without the event loop,    *)
(* the event queue or Kademlia: every lookup is answered at most once,     *)
(* with the peer it asked for, never after the application has stopped,    *)
(* and it is answered eventually unless the application stops.             *)
(***************************************************************************)
EXTENDS Naturals

CONSTANTS
  Ids,    \* lookup identifiers
  Peers   \* peer ids

VARIABLES
  pending,   \* lookups asked and not answered
  answered,  \* lookups answered
  open       \* is the application still running

lookupVars == <<pending, answered, open>>

Lookups == [id : Ids, peer : Peers]

Init == pending = {} /\ answered = {} /\ open = TRUE

Ask(a) ==
  /\ open
  /\ \A b \in pending \cup answered : b.id # a.id
  /\ pending' = pending \cup {a}
  /\ UNCHANGED <<answered, open>>

Answer(a) ==
  /\ open
  /\ a \in pending
  /\ pending' = pending \ {a}
  /\ answered' = answered \cup {a}
  /\ UNCHANGED open

Close == open /\ open' = FALSE /\ UNCHANGED <<pending, answered>>

Next == (\E a \in Lookups : Ask(a) \/ Answer(a)) \/ Close

Spec == /\ Init /\ [][Next]_lookupVars
        /\ \A a \in Lookups : WF_lookupVars(Answer(a))

=============================================================================
