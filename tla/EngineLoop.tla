----------------------------- MODULE EngineLoop -----------------------------
(***************************************************************************)
(* Engine::run: one task that redraws, waits for input or for a swarm      *)
(* event, handles it, drains the engine's own event queue and starts over. *)
(* Creating an onion service makes the task wait for Tor, at start-up and  *)
(* inside the input arm; nothing else is handled meanwhile.                *)
(*                                                                         *)
(* Peer lookups cross all of it: find_peer starts a Kademlia query and     *)
(* remembers it in query_map until the completion event comes back through *)
(* the swarm, or, without Kademlia, queues the answer itself.              *)
(*                                                                         *)
(* Kademlia is external.  A get_closest_peers query completes once; a      *)
(* bootstrap completes several times under one query id.                   *)
(***************************************************************************)
EXTENDS Integers, Sequences, Functions

CONSTANTS
  Peers,      \* peer ids
  Self,       \* the client's own peer id
  MaxQueries, \* bound: lookups and bootstraps after start-up
  MaxSteps,   \* bound: completions of one bootstrap
  MaxReady,   \* bound: swarm events waiting
  KadModes    \* {TRUE} Kademlia discovery enabled, {FALSE} disabled

ASSUME SelfAssumption == Self \in Peers
ASSUME QueryAssumption == MaxQueries \in Nat /\ MaxSteps \in Nat \ {0}
ASSUME ReadyAssumption == MaxReady \in Nat
ASSUME KadAssumption == KadModes \subseteq BOOLEAN

VARIABLES
  kadOn,      \* is the Kademlia behaviour present
  phase,      \* where the task is
  eventQueue, \* Engine::event_queue
  queryMap,   \* Engine::query_map: query id |-> peer
  running,    \* external: Kademlia query id |-> completions still to come
  ready,      \* external: swarm events ready for select_next_some
  nextId,     \* the next lookup or query id
  shown       \* system-message panel: notices and answers, oldest first

vars == <<kadOn, phase, eventQueue, queryMap, running, ready, nextId, shown>>

(* startTor, inputTor: in create_transient_onion_service, waiting for Tor;
   register: what handler.startup() does after that.                       *)
Phases == {"startup", "startTor", "register", "update", "select", "inputTor",
           "drain", "stopped"}
QueryIds == 0 .. MaxQueries
Entry == [kind : {"notice", "addresses"}, id : QueryIds, peer : Peers]

(* The swarm events told apart: completions of a query, and all others. *)
Completed(id) == [kind |-> "completed", id |-> id]
Other == [kind |-> "other", id |-> 0]

Notice(id, p) == [kind |-> "notice", id |-> id, peer |-> p]
Addresses(id, p) == [kind |-> "addresses", id |-> id, peer |-> p]

(* Faulty variant: the loop goes back to the redraw without draining. *)
NoDrain == "update"
(* Both arms of the select! fall through to the drain loop. *)
AfterArm == "drain"
(* The handler goes on when the creation it awaited has ended. *)
AfterTor == IF phase = "startTor" THEN "register" ELSE AfterArm

(* HashMap::insert *)
With(map, key, value) ==
  [k \in DOMAIN map \cup {key} |-> IF k = key THEN value ELSE map[k]]

-----------------------------------------------------------------------------
(* Engine::new starts a bootstrap whose id it does not keep. *)
Init ==
  /\ kadOn \in KadModes
  /\ phase = "startup"
  /\ eventQueue = << >>
  /\ queryMap = << >>
  /\ \E n \in 1 .. MaxSteps : running = IF kadOn THEN With(<< >>, 0, n) ELSE << >>
  /\ ready = << >>
  /\ nextId = 1
  /\ shown = << >>

(* Faulty variant: the query is filed under an id still to be given out. *)
FiledAhead(p, n) ==
  /\ running' = With(running, nextId, n)
  /\ queryMap' = With(queryMap, nextId + 1, p)
  /\ nextId' = nextId + 1

(* Kademlia is given a query that will complete n times; the engine files it
   under p.                                                                *)
StartQuery(p, n) ==
  /\ running' = With(running, nextId, n)
  /\ queryMap' = With(queryMap, nextId, p)
  /\ nextId' = nextId + 1

(* Faulty variant: an answered query stays in the map. *)
Keep(id) == queryMap
(* query_map.remove(&id) *)
Forget(id) == Restrict(queryMap, DOMAIN queryMap \ {id})

(* create_transient_onion_service that succeeds with Kademlia: a new
   bootstrap, filed under the client's own peer id.                        *)
OnionBootstrap ==
  /\ kadOn
  /\ nextId <= MaxQueries
  /\ \E n \in 1 .. MaxSteps : StartQuery(Self, n)

(* handler.startup(): it asks for the onion service of the command line, if
   there is one; an error before that ends the program.                    *)
Startup ==
  /\ phase = "startup"
  /\ phase' \in {"startTor", "register", "stopped"}
  /\ UNCHANGED <<kadOn, eventQueue, queryMap, running, ready, nextId, shown>>

(* Tor has answered all it was asked, or gone away: there is a service, with
   a bootstrap or none (no Kademlia, no known peers), or only an error that
   is logged; or a reply that cannot be converted ends the program.        *)
CreationEnds ==
  /\ phase \in {"startTor", "inputTor"}
  /\ \/ OnionBootstrap /\ phase' = AfterTor
     \/ /\ phase' \in {AfterTor, "stopped"}
        /\ UNCHANGED <<queryMap, running, nextId>>
  /\ UNCHANGED <<kadOn, eventQueue, ready, shown>>

(* The registrations of the command line; an error ends the program. *)
Register ==
  /\ phase = "register"
  /\ phase' \in {"update", "stopped"}
  /\ UNCHANGED <<kadOn, eventQueue, queryMap, running, ready, nextId, shown>>

(* handler.update(): redraw, or fail with an I/O error. *)
Update ==
  /\ phase = "update"
  /\ phase' \in {"select", "stopped"}
  /\ UNCHANGED <<kadOn, eventQueue, queryMap, running, ready, nextId, shown>>

-----------------------------------------------------------------------------
(* The input arm of the select!. *)

(* "/findpeer p" *)
InputFind(p) ==
  /\ phase = "select"
  /\ nextId <= MaxQueries
  /\ IF kadOn
     THEN /\ eventQueue' = Append(eventQueue, Notice(nextId, p))
          /\ StartQuery(p, 1)
     ELSE /\ eventQueue' = Append(eventQueue, Addresses(nextId, p))
          /\ nextId' = nextId + 1
          /\ UNCHANGED <<queryMap, running>>
  /\ phase' = AfterArm
  /\ UNCHANGED <<kadOn, ready, shown>>

(* "/create-onion-service" with ports it can read: the arm awaits Tor. *)
InputOnion ==
  /\ phase = "select"
  /\ phase' = "inputTor"
  /\ UNCHANGED <<kadOn, eventQueue, queryMap, running, ready, nextId, shown>>

(* Any other input: a key, a local command, a message published or refused. *)
InputOther ==
  /\ phase = "select"
  /\ phase' = AfterArm
  /\ UNCHANGED <<kadOn, eventQueue, queryMap, running, ready, nextId, shown>>

(* Shutdown, or an error the handler passes up (a malformed address or peer
   id, an address that cannot be listened on or dialled): the loop returns
   without draining.                                                       *)
InputStops ==
  /\ phase = "select"
  /\ phase' = "stopped"
  /\ UNCHANGED <<kadOn, eventQueue, queryMap, running, ready, nextId, shown>>

(* The swarm arm: a completion whose id is in the map is an answer. *)
SwarmArm ==
  /\ phase = "select"
  /\ ready # << >>
  /\ ready' = Tail(ready)
  /\ LET e == Head(ready)
     IN  IF e.kind = "completed" /\ e.id \in DOMAIN queryMap
         THEN /\ queryMap' = Forget(e.id)
              /\ shown' = Append(shown, Addresses(e.id, queryMap[e.id]))
         ELSE UNCHANGED <<queryMap, shown>>
  /\ phase' = AfterArm
  /\ UNCHANGED <<kadOn, eventQueue, running, nextId>>

(* One turn of while let Some(event) = event_queue.pop_front(). *)
Drain ==
  /\ phase = "drain"
  /\ IF eventQueue = << >>
     THEN phase' = "update" /\ UNCHANGED <<eventQueue, shown>>
     ELSE /\ shown' = Append(shown, Head(eventQueue))
          /\ eventQueue' = Tail(eventQueue)
          /\ UNCHANGED phase
  /\ UNCHANGED <<kadOn, queryMap, running, ready, nextId>>

-----------------------------------------------------------------------------
(* External: a query completes, for the last time or not. *)
KadCompletes(id) ==
  /\ id \in DOMAIN running
  /\ Len(ready) < MaxReady
  /\ ready' = Append(ready, Completed(id))
  /\ running' = IF running[id] = 1
                THEN Restrict(running, DOMAIN running \ {id})
                ELSE [running EXCEPT ![id] = @ - 1]
  /\ UNCHANGED <<kadOn, phase, eventQueue, queryMap, nextId, shown>>

(* External: any other swarm event. *)
OtherEvent ==
  /\ Len(ready) < MaxReady
  /\ ready' = Append(ready, Other)
  /\ UNCHANGED <<kadOn, phase, eventQueue, queryMap, running, nextId, shown>>

Next ==
  \/ Startup \/ CreationEnds \/ Register \/ Update
  \/ \E p \in Peers : InputFind(p)
  \/ InputOnion \/ InputOther \/ InputStops
  \/ SwarmArm \/ Drain
  \/ \E id \in QueryIds : KadCompletes(id)
  \/ OtherEvent

(* Outside the select! and Tor's answers the task does not wait.
   tokio::select! starts from a random branch, so an arm that is ready again
   and again is taken.                                                     *)
TaskGoesOn ==
  /\ WF_vars(Startup) /\ WF_vars(Register) /\ WF_vars(Update) /\ WF_vars(Drain)
  /\ SF_vars(SwarmArm)

(* Every Kademlia query completes or times out. *)
QueriesEnd == \A id \in QueryIds : SF_vars(KadCompletes(id))

(* Assumed of Tor: it answers or ends the connection.  The code has no
   timeout: a Tor that is silent stops the loop, and with it every lookup. *)
TorAnswers == WF_vars(CreationEnds)

Spec == Init /\ [][Next]_vars /\ TaskGoesOn /\ QueriesEnd /\ TorAnswers

-----------------------------------------------------------------------------
(* Every variable stays in its range; ids in use are below nextId. *)
TypeOK ==
  /\ kadOn \in BOOLEAN
  /\ phase \in Phases
  /\ eventQueue \in Seq(Entry)
  /\ DOMAIN queryMap \subseteq 1 .. nextId - 1
  /\ queryMap \in [DOMAIN queryMap -> Peers]
  /\ DOMAIN running \subseteq 0 .. nextId - 1
  /\ running \in [DOMAIN running -> 1 .. MaxSteps]
  /\ ready \in Seq({Other} \cup {Completed(id) : id \in QueryIds})
  /\ nextId \in 1 .. MaxQueries + 1
  /\ shown \in Seq(Entry)

(* A query is in the map only while Kademlia still owes a completion for it
   or one is waiting in the swarm: no entry is left behind unanswerable,
   however bootstraps with many completions and lookups interleave.        *)
NoOrphanQuery ==
  \A id \in DOMAIN queryMap :
    id \in DOMAIN running \/ Completed(id) \in Range(ready)

(* The user sees "please be patient" before the answer it announces, though
   the notice goes through the event queue and the answer does not.        *)
NoticeBeforeAnswer ==
  \A j \in DOMAIN shown :
    LET answer == shown[j]
    IN  kadOn /\ answer.kind = "addresses" /\ answer.peer # Self =>
          \E i \in 1 .. j - 1 : shown[i] = Notice(answer.id, answer.peer)

Lookups(kind, entries) == {[id |-> e.id, peer |-> e.peer] :
                             e \in {f \in Range(entries) : f.kind = kind}}

(* A bootstrap filed under Self is answered like a lookup of Self. *)
L == INSTANCE PeerLookup WITH
       Ids <- 1 .. MaxQueries,
       pending <- {[id |-> id, peer |-> queryMap[id]] : id \in DOMAIN queryMap}
                    \cup Lookups("addresses", eventQueue),
       answered <- Lookups("addresses", shown),
       open <- phase # "stopped"

(* The loop implements the lookup service: each lookup is answered at most
   once and for the peer asked, none after the program has stopped, and
   each is answered unless it stops, creations of onion services in between
   or not, as long as Tor ends them.                                       *)
ImplementsPeerLookup == L!Spec

=============================================================================
