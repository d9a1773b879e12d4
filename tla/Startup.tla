------------------------------- MODULE Startup -------------------------------
(***************************************************************************)
(* From the command line to the event loop: clap and the parser of         *)
(* --register values, the check in main, EngineConfig::from, Engine::new   *)
(* and MyHandler::startup, which does what the command line asks for, one  *)
(* request after the other, before the swarm is polled for the first time. *)
(* Some requests end the program when they fail, with the earlier ones     *)
(* done; others only log.  In the loop, "/register" and "/discover" make   *)
(* the same requests of the rendezvous client, and their errors only log.  *)
(*                                                                         *)
(* The addresses are those of NetworkAddr.  The swarm's and the system's   *)
(* refusals are external.  The Tor options are DialRouting's subject.      *)
(***************************************************************************)
EXTENDS NetworkAddr

CONSTANTS
  CommandLines, \* the command lines given
  Values,       \* what "/register" and "/discover" are given
  MaxCommands,  \* bound: registrations handed over in the loop
  None          \* an option that is not given

VARIABLES
  cli,        \* the command line, fixed
  phase,      \* what main or startup does next, or how the program ended
  present,    \* the optional behaviours of the swarm
  types,      \* Engine::discovery_types and nat_traversal_types
  shown,      \* the methods the status line shows, or None
  listening,  \* addresses listened on
  dialled,    \* addresses dialled
  subscribed, \* topics joined
  hosting,    \* has an onion service been created
  registered, \* registrations handed to the rendezvous client
  told,       \* registrations the user has been told of by "/register"
  discovered  \* discoveries handed to the rendezvous client

vars == <<cli, phase, present, types, shown, listening, dialled, subscribed,
          hosting, registered, told, discovered>>

commandVars == <<told, discovered>>
requestVars == <<listening, dialled, subscribed, hosting, registered, commandVars>>

Discoveries == {"kademlia", "mdns", "rendezvous"}
NatMethods == {"autonat", "circuit_relay", "dcutr"}

(* A --register value, as the parts the first '/' cuts it into. *)
Registration(namespace, node) == [slash |-> TRUE, namespace |-> namespace, node |-> node]
Registrations == [slash : BOOLEAN, namespace : STRING, node : STRING]
NoSlash == [slash |-> FALSE, namespace |-> "", node |-> ""]

(* Namespace::new and PeerId::from_str *)
Readable(value) == value.namespace # "too_long" /\ value.node # "bad"
(* NamespaceAndNodeIdParser::parse_ref *)
Accepts(value) == value.slash /\ Readable(value)

(* A --discovery or --nat-traversal that is given has a value, so that {} is
   its absence.                                                            *)
ASSUME CommandLineAssumption ==
  \A c \in CommandLines :
    /\ DOMAIN c = {"discovery", "nat", "listen", "connect", "subscribe",
                   "onion", "server", "register"}
    /\ c.discovery \subseteq Discoveries
    /\ c.nat \subseteq NatMethods
    /\ c.server \in BOOLEAN
    /\ c.register \in Seq(Registrations)
ASSUME ValuesAssumption == Values \subseteq Registrations /\ MaxCommands \in Nat

Init ==
  /\ cli \in CommandLines
  /\ phase = "parse"
  /\ present = {}
  /\ types = [discovery |-> {}, nat |-> {}]
  /\ shown = None
  /\ listening = {}
  /\ dialled = {}
  /\ subscribed = {}
  /\ hosting = FALSE
  /\ registered = << >>
  /\ told = {}
  /\ discovered = {}

-----------------------------------------------------------------------------
(* Cli::parse: one unreadable --register value is a usage error. *)
ParseCli ==
  /\ phase = "parse"
  /\ phase' = IF \A i \in DOMAIN cli.register : Accepts(cli.register[i])
              THEN "check" ELSE "usage"
  /\ UNCHANGED <<cli, present, types, shown>> /\ UNCHANGED requestVars

(* Faulty variant: the options are not compared. *)
NotChecked(c) == FALSE
(* main: the check is made only where --discovery is given. *)
CannotRegister(c) ==
  c.register # << >> /\ c.discovery # {} /\ "rendezvous" \notin c.discovery

CheckRegister ==
  /\ phase = "check"
  /\ phase' = IF CannotRegister(cli) THEN "error" ELSE "engine"
  /\ UNCHANGED <<cli, present, types, shown>> /\ UNCHANGED requestVars

(* EngineConfig::from and Engine::new: the behaviours asked for.  There is
   no relay behaviour: use_circuit_relay is read by nobody.                *)
Behaviours(c) ==
  c.discovery \cup (c.nat \ {"circuit_relay"})
    \cup (IF c.server THEN {"rendezvous_server"} ELSE {})

(* Faulty variant: every method of the command line is listed. *)
AskedTypes(c) == [discovery |-> c.discovery, nat |-> c.nat]
(* What Engine::new notes for the status line, next to each behaviour. *)
NotedTypes(c) == [discovery |-> c.discovery, nat |-> c.nat \ {"circuit_relay"}]

(* Engine::new fails when the resolver's configuration cannot be read or
   mDNS cannot open its socket.                                            *)
EngineNew ==
  /\ phase = "engine"
  /\ \/ phase' = "error" /\ UNCHANGED <<present, types>>
     \/ /\ phase' = "show"
        /\ present' = Behaviours(cli)
        /\ types' = NotedTypes(cli)
  /\ UNCHANGED <<cli, shown>> /\ UNCHANGED requestVars

-----------------------------------------------------------------------------
(* MyHandler::startup. *)

(* UI::startup *)
ShowMethods ==
  /\ phase = "show"
  /\ shown' = types
  /\ phase' = "listen"
  /\ UNCHANGED <<cli, present, types>> /\ UNCHANGED requestVars

(* Faulty variant: a failure is logged and start-up goes on. *)
FailureIsLogged(text, next) ==
  phase' = IF Parse(text).is = "panic" THEN "panicked" ELSE next
(* A failing --listen or --connect ends the program: "?". *)
FailureEnds(text, next) ==
  phase' = IF Parse(text).is = "panic" THEN "panicked" ELSE "error"

(* The address is parsed, then the swarm asked, which may refuse. *)
Request(text, done, next) ==
  IF text = None THEN phase' = next /\ UNCHANGED done
  ELSE \/ /\ Parse(text).is = "address"
          /\ done' = done \cup {Parse(text).addr}
          /\ phase' = next
       \/ FailureEnds(text, next) /\ UNCHANGED done

Listen ==
  /\ phase = "listen"
  /\ Request(cli.listen, listening, "connect")
  /\ UNCHANGED <<cli, present, types, shown, dialled, subscribed, hosting, registered,
                 commandVars>>

Connect ==
  /\ phase = "connect"
  /\ Request(cli.connect, dialled, "subscribe")
  /\ UNCHANGED <<cli, present, types, shown, listening, subscribed, hosting,
                 registered, commandVars>>

(* A refusal by gossipsub is logged. *)
Subscribe ==
  /\ phase = "subscribe"
  /\ subscribed' \in {subscribed, subscribed \cup ({cli.subscribe} \ {None})}
  /\ phase' = "onion"
  /\ UNCHANGED <<cli, present, types, shown, listening, dialled, hosting,
                 registered, commandVars>>

(* UI::create_onion_service: an unreadable port or address and every error
   of the engine are logged; the swarm is not polled meanwhile.            *)
CreateOnionService ==
  /\ phase = "onion"
  /\ hosting' \in IF cli.onion = "readable" THEN BOOLEAN ELSE {FALSE}
  /\ phase' = "register"
  /\ UNCHANGED <<cli, present, types, shown, listening, dialled, subscribed,
                 registered, commandVars>>

(* Faulty variant: the first value is registered every time. *)
FirstValue == cli.register[1]
NextValue == cli.register[Len(registered) + 1]

(* Engine::register, once per value. *)
Register ==
  /\ phase = "register"
  /\ \/ /\ Len(registered) = Len(cli.register)
        /\ phase' = "loop"
        /\ UNCHANGED registered
     \/ /\ Len(registered) < Len(cli.register)
        /\ IF "rendezvous" \in present
           THEN registered' = Append(registered, NextValue) /\ UNCHANGED phase
           ELSE phase' = "error" /\ UNCHANGED registered
  /\ UNCHANGED <<cli, present, types, shown, listening, dialled, subscribed,
                 hosting, commandVars>>

-----------------------------------------------------------------------------
(* In the loop (UI::handle_command).  What cannot be read, and what the
   engine refuses for want of a rendezvous client, is logged.              *)
Granted(value) == phase = "loop" /\ Readable(value) /\ "rendezvous" \in present

(* "/register NAMESPACE NODE": the user reads "Registered" as soon as the
   client has the request, whatever the node will answer.                  *)
RegisterCommand(value) ==
  /\ Granted(value)
  /\ Len(registered) < Len(cli.register) + MaxCommands
  /\ registered' = Append(registered, value)
  /\ told' = told \cup {value}
  /\ UNCHANGED <<cli, phase, present, types, shown, listening, dialled, subscribed,
                 hosting, discovered>>

(* "/discover NODE [NAMESPACE [LIMIT]]", the limit one that can be read. *)
DiscoverCommand(value) ==
  /\ Granted(value)
  /\ discovered' = discovered \cup {value}
  /\ UNCHANGED <<cli, phase, present, types, shown, listening, dialled, subscribed,
                 hosting, registered, told>>

Next ==
  \/ ParseCli \/ CheckRegister \/ EngineNew \/ ShowMethods
  \/ Listen \/ Connect \/ Subscribe \/ CreateOnionService \/ Register
  \/ \E value \in Values : RegisterCommand(value) \/ DiscoverCommand(value)

Spec == Init /\ [][Next]_vars

-----------------------------------------------------------------------------
Steps == {"parse", "check", "engine", "show", "listen", "connect",
          "subscribe", "onion", "register"}
Ends == {"loop", "usage", "error", "panicked"}
Methods == [discovery : SUBSET Discoveries, nat : SUBSET NatMethods]

Asked(text) == IF text = None THEN {} ELSE {Parse(text).addr}

(* What was registered first is what the command line lists, as far as it
   got.                                                                    *)
InOrder ==
  \A i \in DOMAIN registered \cap DOMAIN cli.register :
    registered[i] = cli.register[i]

(* Every variable stays in its range; before the loop, nothing is registered
   but what the command line lists.                                        *)
TypeOK ==
  /\ cli \in CommandLines
  /\ phase \in Steps \cup Ends
  /\ present \subseteq Discoveries \cup NatMethods \cup {"rendezvous_server"}
  /\ types \in Methods
  /\ shown \in Methods \cup {None}
  /\ listening \subseteq Asked(cli.listen)
  /\ dialled \subseteq Asked(cli.connect)
  /\ subscribed \subseteq {cli.subscribe} \ {None}
  /\ hosting \in BOOLEAN
  /\ registered \in Seq(Registrations)
  /\ InOrder
  /\ phase # "loop" => Len(registered) <= Len(cli.register)
  /\ told \subseteq Values
  /\ discovered \subseteq Values

(* The event loop is reached only with everything done whose failure is not
   merely logged: listening, the dial, and every registration in order.    *)
LoopMeansDone ==
  phase = "loop" =>
    /\ listening = Asked(cli.listen)
    /\ dialled = Asked(cli.connect)
    /\ Len(registered) >= Len(cli.register) /\ InOrder

NothingDone == listening = {} /\ dialled = {} /\ subscribed = {} /\ ~hosting

(* Without the rendezvous client nothing is registered or discovered, nor
   does the user read that it was.  A command line that asks for it all the
   same never reaches the loop: it is refused before anything is done if it
   names other discovery methods, at its first registration if it names none. *)
RefusedWithoutRendezvous ==
  "rendezvous" \notin cli.discovery =>
    /\ registered = << >> /\ told = {} /\ discovered = {}
    /\ cli.register # << >> =>
         phase # "loop" /\ (cli.discovery # {} => NothingDone)

(* The methods on the status line are those of the behaviours that run, and
   all of those: circuit_relay, which has no behaviour, is never shown.    *)
MethodsShownArePresent ==
  shown # None => shown.discovery \cup shown.nat = present \ {"rendezvous_server"}

=============================================================================
