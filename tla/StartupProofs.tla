---------------------------- MODULE StartupProofs ----------------------------
(***************************************************************************)
(* Proofs about Startup: its invariants hold for any set of command lines, *)
(* any commands in the loop, and whatever the system refuses.              *)
(***************************************************************************)
EXTENDS Startup, SequenceTheorems, TLAPS

(* A line that the check in main stops has done nothing, ever. *)
Stopped ==
  CannotRegister(cli) =>
    phase \in {"parse", "check", "usage", "error"} /\ NothingDone

(* The behaviours are those of the command line once the engine is made. *)
Made ==
  /\ present \in {{}, Behaviours(cli)}
  /\ phase \notin {"parse", "check", "engine", "usage", "error", "panicked"} =>
       present = Behaviours(cli)
  /\ phase = "show" => types = NotedTypes(cli)
  /\ shown # None => shown = NotedTypes(cli) /\ present = Behaviours(cli)

(* The requests made so far. *)
Requested ==
  /\ phase \in {"connect", "subscribe", "onion", "register", "loop"} =>
       listening = Asked(cli.listen)
  /\ phase \in {"subscribe", "onion", "register", "loop"} =>
       dialled = Asked(cli.connect)
  /\ phase = "loop" => Len(registered) >= Len(cli.register)

(* The rendezvous client gets requests only where there is one. *)
Client ==
  "rendezvous" \notin cli.discovery =>
    /\ registered = << >> /\ told = {} /\ discovered = {}
    /\ cli.register # << >> => phase # "loop"

(* The inductive invariant. *)
IInv == TypeOK /\ Stopped /\ Made /\ Requested /\ Client

-----------------------------------------------------------------------------
(* What is known of a command line that is given. *)
LEMMA CliFacts ==
  ASSUME cli \in CommandLines
  PROVE  /\ cli.discovery \subseteq Discoveries
         /\ cli.nat \subseteq NatMethods
         /\ cli.register \in Seq(Registrations)
BY CommandLineAssumption

(* There is a rendezvous client exactly if the method is asked for. *)
LEMMA ClientAsked ==
  ASSUME cli \in CommandLines
  PROVE  "rendezvous" \in Behaviours(cli) <=> "rendezvous" \in cli.discovery
BY CliFacts DEF Behaviours, NatMethods

(* At first nothing has been done or registered. *)
LEMMA InitInv == Init => IInv
<1> SUFFICES ASSUME Init PROVE IInv
  OBVIOUS
<1>1. cli.register \in Seq(Registrations) /\ Len(cli.register) \in Nat
  BY CliFacts, LenProperties DEF Init
<1>2. TypeOK
  <2>1. types \in Methods
    BY DEF Init, Methods
  <2>2. /\ registered \in Seq(Registrations)
        /\ Len(registered) = 0 /\ DOMAIN registered = 1 .. 0
    BY EmptySeq, LenProperties DEF Init
  <2>3. InOrder
    BY <2>2 DEF InOrder
  <2>4. phase \in Steps \cup Ends
    BY DEF Init, Steps, Ends
  <2>5. /\ cli \in CommandLines /\ shown \in Methods \cup {None} /\ hosting \in BOOLEAN
    BY DEF Init
  <2>6. Len(registered) <= Len(cli.register)
    BY <1>1, <2>2
  <2>7. /\ present \subseteq Discoveries \cup NatMethods \cup {"rendezvous_server"}
        /\ listening \subseteq Asked(cli.listen) /\ dialled \subseteq Asked(cli.connect)
        /\ subscribed \subseteq {cli.subscribe} \ {None}
        /\ told \subseteq Values /\ discovered \subseteq Values
    BY DEF Init
  <2> QED BY <2>1, <2>2, <2>3, <2>4, <2>5, <2>6, <2>7 DEF TypeOK
<1>3. Stopped /\ Made /\ Requested /\ Client
  BY DEF Init, Stopped, Made, Requested, Client, NothingDone
<1> QED BY <1>2, <1>3 DEF IInv

-----------------------------------------------------------------------------
(* Every request, failure or command keeps the invariant. *)
LEMMA StepInv == ASSUME IInv, [Next]_vars PROVE IInv'
<1>0. /\ cli \in CommandLines
      /\ cli.discovery \subseteq Discoveries /\ cli.nat \subseteq NatMethods
      /\ cli.register \in Seq(Registrations) /\ Len(cli.register) \in Nat
      /\ "rendezvous" \in Behaviours(cli) <=> "rendezvous" \in cli.discovery
      /\ registered \in Seq(Registrations) /\ Len(registered) \in Nat
  BY CliFacts, ClientAsked, LenProperties DEF IInv, TypeOK
<1>1. CASE ParseCli
  BY <1>0, <1>1 DEF ParseCli, requestVars, commandVars, IInv, TypeOK, InOrder, Stopped,
     Made, Requested, Client, NothingDone, Steps, Ends
<1>2. CASE CheckRegister
  BY <1>0, <1>2 DEF CheckRegister, requestVars, commandVars, IInv, TypeOK, InOrder, Stopped,
     Made, Requested, Client, NothingDone, Steps, Ends
<1>3. CASE EngineNew
  <2>1. NotedTypes(cli) \in Methods
    BY <1>0 DEF NotedTypes, Methods
  <2>2. Behaviours(cli) \subseteq Discoveries \cup NatMethods \cup {"rendezvous_server"}
    BY <1>0 DEF Behaviours
  <2> QED
    BY <1>0, <1>3, <2>1, <2>2 DEF EngineNew, requestVars, commandVars, IInv, TypeOK, InOrder,
       Stopped, Made, Requested, Client, NothingDone, Steps, Ends
<1>4. CASE ShowMethods
  BY <1>0, <1>4 DEF ShowMethods, requestVars, commandVars, IInv, TypeOK, InOrder, Stopped,
     Made, Requested, Client, NothingDone, Steps, Ends
<1>5. CASE Listen
  BY <1>0, <1>5 DEF Listen, Request, FailureEnds, Asked, requestVars, commandVars, IInv,
     TypeOK, InOrder, Stopped, Made, Requested, Client, NothingDone, Steps, Ends
<1>6. CASE Connect
  BY <1>0, <1>6 DEF Connect, Request, FailureEnds, Asked, requestVars, commandVars, IInv,
     TypeOK, InOrder, Stopped, Made, Requested, Client, NothingDone, Steps, Ends
<1>7. CASE Subscribe
  BY <1>0, <1>7 DEF Subscribe, requestVars, commandVars, IInv, TypeOK, InOrder, Stopped,
     Made, Requested, Client, NothingDone, Steps, Ends
<1>8. CASE CreateOnionService
  BY <1>0, <1>8 DEF CreateOnionService, requestVars, commandVars, IInv, TypeOK, InOrder,
     Stopped, Made, Requested, Client, NothingDone, Steps, Ends
<1>9. CASE Register
  <2>1. CASE Len(registered) = Len(cli.register)
    BY <1>0, <1>9, <2>1 DEF Register, commandVars, IInv, TypeOK, InOrder, Stopped,
       Made, Requested, Client, NothingDone, Steps, Ends
  <2>2. CASE Len(registered) < Len(cli.register) /\ "rendezvous" \in present
    <3>1. registered' = Append(registered, NextValue) /\ phase' = phase
      BY <1>9, <2>2, <1>0 DEF Register
    <3>2. NextValue \in Registrations
      BY <1>0, <2>2, ElementOfSeq DEF NextValue
    <3>3. /\ registered' \in Seq(Registrations)
          /\ Len(registered') = Len(registered) + 1
          /\ DOMAIN registered' = 1 .. Len(registered) + 1
          /\ \A i \in 1 .. Len(registered) : registered'[i] = registered[i]
          /\ registered'[Len(registered) + 1] = NextValue
      BY <1>0, <3>1, <3>2, AppendProperties, LenProperties
    <3>4. DOMAIN registered = 1 .. Len(registered)
      BY <1>0, LenProperties
    <3>5. cli' = cli
      BY <1>9 DEF Register
    <3>6. InOrder'
      BY <1>0, <3>3, <3>4, <3>5 DEF InOrder, NextValue, IInv, TypeOK
    <3>7. TypeOK'
      BY <1>0, <1>9, <2>2, <3>1, <3>3, <3>6
      DEF Register, commandVars, IInv, TypeOK, Steps, Ends
    <3>8. "rendezvous" \in cli.discovery
      BY <1>0, <2>2 DEF IInv, Made
    <3> QED
      BY <1>0, <1>9, <2>2, <3>1, <3>7, <3>8 DEF Register, commandVars, IInv, Stopped,
         Made, Requested, Client, NothingDone
  <2>3. CASE Len(registered) < Len(cli.register) /\ "rendezvous" \notin present
    BY <1>0, <1>9, <2>3 DEF Register, commandVars, IInv, TypeOK, InOrder, Stopped,
       Made, Requested, Client, NothingDone, Steps, Ends
  <2> QED BY <1>9, <2>1, <2>2, <2>3 DEF Register
<1>10. ASSUME NEW value \in Values, RegisterCommand(value) PROVE IInv'
  BY <1>0, <1>10, ValuesAssumption DEF RegisterCommand, Granted, IInv, TypeOK, InOrder,
     Stopped, Made, Requested, Client, NothingDone, Steps, Ends
<1>11. ASSUME NEW value \in Values, DiscoverCommand(value) PROVE IInv'
  BY <1>0, <1>11 DEF DiscoverCommand, Granted, IInv, TypeOK, InOrder,
     Stopped, Made, Requested, Client, NothingDone, Steps, Ends
<1>12. CASE UNCHANGED vars
  BY <1>12 DEF vars, IInv, TypeOK, InOrder, Stopped, Made, Requested, Client, NothingDone
<1> QED BY <1>1, <1>2, <1>3, <1>4, <1>5, <1>6, <1>7, <1>8, <1>9, <1>10, <1>11, <1>12 DEF Next

(* The inductive invariant holds in every reachable state. *)
THEOREM StartupInvariance == Spec => []IInv
<1>1. IInv /\ [Next]_vars => IInv'
  BY StepInv
<1> QED BY InitInv, <1>1, PTL DEF Spec

-----------------------------------------------------------------------------
(* Every variable stays in its range, and registrations are made in the
   order of the command line.                                              *)
THEOREM StartupTypes == Spec => []TypeOK
<1>1. IInv => TypeOK
  BY DEF IInv
<1> QED BY StartupInvariance, <1>1, PTL

(* The loop is reached only with what the command line asks for done, but
   for what may fail with a log line.                                      *)
THEOREM LoopReached == Spec => []LoopMeansDone
<1>1. IInv => LoopMeansDone
  BY DEF IInv, TypeOK, Requested, LoopMeansDone
<1> QED BY StartupInvariance, <1>1, PTL

(* Without rendezvous nothing is registered, by option or by command, and a
   line that names other methods and asks for it leaves no trace.          *)
THEOREM Refused == Spec => []RefusedWithoutRendezvous
<1>1. IInv => RefusedWithoutRendezvous
  BY DEF IInv, Stopped, Client, CannotRegister, RefusedWithoutRendezvous
<1> QED BY StartupInvariance, <1>1, PTL

(* The status line shows the methods whose behaviours run, and only those. *)
THEOREM ShownArePresent == Spec => []MethodsShownArePresent
<1>1. ASSUME IInv PROVE MethodsShownArePresent
  <2>1. cli \in CommandLines
    BY <1>1 DEF IInv, TypeOK
  <2>2. cli.discovery \subseteq Discoveries /\ cli.nat \subseteq NatMethods
    BY <2>1, CliFacts
  <2>3. "rendezvous_server" \notin cli.discovery \cup cli.nat
    BY <2>2 DEF Discoveries, NatMethods
  <2>4. cli.discovery \cup (cli.nat \ {"circuit_relay"})
          = Behaviours(cli) \ {"rendezvous_server"}
    BY <2>3 DEF Behaviours
  <2>5. ASSUME shown # None
        PROVE  shown.discovery \cup shown.nat = present \ {"rendezvous_server"}
    <3>1. shown = NotedTypes(cli) /\ present = Behaviours(cli)
      BY <1>1, <2>5 DEF IInv, Made
    <3> QED BY <2>4, <3>1 DEF NotedTypes
  <2> QED BY <2>5 DEF MethodsShownArePresent
<1> QED BY StartupInvariance, <1>1, PTL

=============================================================================
