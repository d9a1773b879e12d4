---------------------------- MODULE OnionCreation ----------------------------
(***************************************************************************)
(* What creating onion services over a control connection promises,        *)
(* without commands, lines and streams: a creation is authenticated before *)
(* it asks for a service, it goes on only with what Tor granted to that    *)
(* very creation, it hands over one service at most, its own, and it ends. *)
(***************************************************************************)
EXTENDS Naturals

CONSTANT MaxCreations

VARIABLES
  count,   \* number of creations begun
  stage,   \* what the current one is waiting for, or "idle"
  granted, \* what Tor has granted: [what, creation]
  handed   \* services handed over: [creation, service]

creationVars == <<count, stage, granted, handed>>

Grant(what, n) == [what |-> what, creation |-> n]

Init == count = 0 /\ stage = "idle" /\ granted = {} /\ handed = {}

Begin ==
  /\ stage = "idle"
  /\ count < MaxCreations
  /\ count' = count + 1
  /\ stage' = "auth"
  /\ UNCHANGED <<granted, handed>>

TorGrants ==
  /\ stage # "idle"
  /\ granted' = granted \cup {Grant(stage, count)}
  /\ UNCHANGED <<count, stage, handed>>

Authenticated ==
  /\ stage = "auth"
  /\ Grant("auth", count) \in granted
  /\ stage' = "add"
  /\ UNCHANGED <<count, granted, handed>>

HandsOver ==
  /\ stage = "add"
  /\ Grant("add", count) \in granted
  /\ handed' = handed \cup {[creation |-> count, service |-> count]}
  /\ stage' = "idle"
  /\ UNCHANGED <<count, granted>>

Fails == stage # "idle" /\ stage' = "idle" /\ UNCHANGED <<count, granted, handed>>

Next == Begin \/ TorGrants \/ Authenticated \/ HandsOver \/ Fails

Spec == /\ Init /\ [][Next]_creationVars
        /\ WF_creationVars(Authenticated \/ HandsOver \/ Fails)

=============================================================================
