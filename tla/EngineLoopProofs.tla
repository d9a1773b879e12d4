-------------------------- MODULE EngineLoopProofs --------------------------
(***************************************************************************)
(* Proofs about EngineLoop, for every set of peers, any number of queries, *)
(* completions and waiting events, with Kademlia and without.              *)
(***************************************************************************)
EXTENDS EngineLoop, SequenceTheorems, TLAPS

(* Types, and that every query filed will still be answered. *)
IInv == TypeOK /\ NoOrphanQuery

(* Whatever is queued or shown was asked before; the queue is in the order
   asked, and its events are notices with Kademlia and answers without.    *)
Queued ==
  /\ \A i \in DOMAIN eventQueue :
       /\ eventQueue[i].id \in 1 .. nextId - 1
       /\ eventQueue[i].kind = IF kadOn THEN "notice" ELSE "addresses"
  /\ \A i, j \in DOMAIN eventQueue : i < j => eventQueue[i].id # eventQueue[j].id
  /\ \A i \in DOMAIN shown : shown[i].id \in 1 .. nextId - 1
  /\ ~kadOn => DOMAIN queryMap = {}
  /\ phase # "drain" => eventQueue = << >>

(* The user has read the notice of a pending lookup, or will before the next
   event of the swarm is handled.                                          *)
Announced ==
  \A id \in DOMAIN queryMap :
    queryMap[id] # Self =>
      Notice(id, queryMap[id]) \in Range(eventQueue) \cup Range(shown)

(* The inductive invariant. *)
LoopInv == IInv /\ Queued /\ Announced /\ NoticeBeforeAnswer

(* The swarm events that may wait. *)
Events == {Other} \cup {Completed(id) : id \in QueryIds}

(* Taking the head of a queue: nothing but the head is lost. *)
LEMMA TailRange ==
  ASSUME NEW S, NEW s \in Seq(S), s # << >>
  PROVE  /\ Head(s) \in S /\ Tail(s) \in Seq(S)
         /\ Range(s) = {Head(s)} \cup Range(Tail(s))
<1>1. /\ Tail(s) \in Seq(S) /\ Head(s) \in S
      /\ Len(Tail(s)) = Len(s) - 1 /\ Len(s) \in Nat
      /\ \A i \in 1 .. Len(Tail(s)) : Tail(s)[i] = s[i + 1]
  BY HeadTailProperties, LenProperties
<1>2. DOMAIN s = 1 .. Len(s) /\ DOMAIN Tail(s) = 1 .. Len(s) - 1
  BY <1>1, LenProperties
<1>3. ASSUME NEW i \in 1 .. Len(s) PROVE s[i] = Head(s) \/ s[i] \in Range(Tail(s))
  <2>1. CASE i = 1
    BY <2>1
  <2>2. CASE i # 1
    <3>1. i - 1 \in 1 .. Len(s) - 1 /\ (i - 1) + 1 = i
      BY <1>1, <2>2
    <3> QED BY <1>1, <1>2, <3>1 DEF Range
  <2> QED BY <2>1, <2>2
<1>4. Head(s) \in Range(s)
  <2>1. 1 \in 1 .. Len(s) /\ Head(s) = s[1]
    BY <1>1, EmptySeq
  <2> QED BY <1>2, <2>1 DEF Range
<1>5. Range(Tail(s)) \subseteq Range(s)
  <2>1. \A i \in 1 .. Len(s) - 1 : i + 1 \in 1 .. Len(s)
    BY <1>1
  <2> QED BY <1>1, <1>2, <2>1 DEF Range
<1> QED BY <1>1, <1>2, <1>3, <1>4, <1>5 DEF Range

(* Appending to a queue keeps what is in it. *)
LEMMA AppendRange ==
  ASSUME NEW S, NEW s \in Seq(S), NEW e \in S
  PROVE  Append(s, e) \in Seq(S) /\ Range(Append(s, e)) = Range(s) \cup {e}
<1>1. /\ Append(s, e) \in Seq(S)
      /\ Len(Append(s, e)) = Len(s) + 1 /\ Len(s) \in Nat
      /\ \A i \in 1 .. Len(s) : Append(s, e)[i] = s[i]
      /\ Append(s, e)[Len(s) + 1] = e
  BY AppendProperties, LenProperties
<1>2. DOMAIN s = 1 .. Len(s) /\ DOMAIN Append(s, e) = 1 .. Len(s) + 1
  BY <1>1, LenProperties
<1>3. 1 .. Len(s) + 1 = (1 .. Len(s)) \cup {Len(s) + 1}
  BY <1>1
<1> QED BY <1>1, <1>2, <1>3 DEF Range

-----------------------------------------------------------------------------
(* A query started with the id nextId is owed a completion. *)
LEMMA StartQueryKeeps ==
  ASSUME IInv, nextId <= MaxQueries, ready' = ready,
         NEW p \in Peers, NEW n \in 1 .. MaxSteps, StartQuery(p, n)
  PROVE  /\ DOMAIN queryMap' \subseteq 1 .. nextId' - 1
         /\ queryMap' \in [DOMAIN queryMap' -> Peers]
         /\ DOMAIN running' \subseteq 0 .. nextId' - 1
         /\ running' \in [DOMAIN running' -> 1 .. MaxSteps]
         /\ nextId' \in 1 .. MaxQueries + 1
         /\ NoOrphanQuery'
<1>1. /\ nextId \in Nat /\ nextId >= 1 /\ nextId' = nextId + 1 /\ MaxQueries \in Nat
  BY QueryAssumption DEF IInv, TypeOK, StartQuery
<1>2. /\ DOMAIN queryMap' = DOMAIN queryMap \cup {nextId}
      /\ \A k \in DOMAIN queryMap' : queryMap'[k] = IF k = nextId THEN p ELSE queryMap[k]
      /\ queryMap' = [k \in DOMAIN queryMap' |-> queryMap'[k]]
  BY DEF StartQuery, With
<1>3. /\ DOMAIN running' = DOMAIN running \cup {nextId}
      /\ \A k \in DOMAIN running' : running'[k] = IF k = nextId THEN n ELSE running[k]
      /\ running' = [k \in DOMAIN running' |-> running'[k]]
  BY DEF StartQuery, With
<1>4. /\ \A k \in DOMAIN queryMap : k \in 1 .. nextId - 1 /\ queryMap[k] \in Peers
      /\ \A k \in DOMAIN running : k \in 0 .. nextId - 1 /\ running[k] \in 1 .. MaxSteps
  BY DEF IInv, TypeOK
<1>5. /\ 1 .. nextId - 1 \subseteq 1 .. nextId' - 1 /\ nextId \in 1 .. nextId' - 1
      /\ 0 .. nextId - 1 \subseteq 0 .. nextId' - 1 /\ nextId \in 0 .. nextId' - 1
      /\ nextId' \in 1 .. MaxQueries + 1
  BY <1>1
<1>6. DOMAIN queryMap' \subseteq 1 .. nextId' - 1 /\ DOMAIN running' \subseteq 0 .. nextId' - 1
  BY <1>2, <1>3, <1>4, <1>5
<1>7. queryMap' \in [DOMAIN queryMap' -> Peers]
  BY <1>2, <1>4
<1>8. running' \in [DOMAIN running' -> 1 .. MaxSteps]
  BY <1>3, <1>4
<1>9. NoOrphanQuery'
  BY <1>2, <1>3 DEF IInv, NoOrphanQuery
<1> QED BY <1>5, <1>6, <1>7, <1>8, <1>9

(* An answered query is forgotten; every other keeps what answers it. *)
LEMMA ForgetKeeps ==
  ASSUME IInv, NEW id, queryMap' = Forget(id)
  PROVE  /\ DOMAIN queryMap' = DOMAIN queryMap \ {id}
         /\ queryMap' \in [DOMAIN queryMap' -> Peers]
BY DEF IInv, TypeOK, Forget, Restrict

-----------------------------------------------------------------------------
(* The maps and queues start empty, but for Engine::new's bootstrap. *)
LEMMA InitInv == Init => IInv
<1> SUFFICES ASSUME Init PROVE IInv
  OBVIOUS
<1>1. \A S : << >> \in Seq(S)
  BY EmptySeq
<1>2. DOMAIN << >> = {} /\ << >> = [k \in {} |-> k]
  OBVIOUS
<1>3. PICK n \in 1 .. MaxSteps : running = IF kadOn THEN With(<< >>, 0, n) ELSE << >>
  BY DEF Init
<1>4. DOMAIN running \subseteq 0 .. nextId - 1 /\ running \in [DOMAIN running -> 1 .. MaxSteps]
  <2>1. CASE kadOn
    <3>1. running = [k \in {0} |-> n]
      BY <1>2, <1>3, <2>1 DEF With
    <3> QED BY <3>1 DEF Init
  <2>2. CASE ~kadOn
    BY <1>2, <1>3, <2>2
  <2> QED BY <2>1, <2>2
<1>5. DOMAIN queryMap = {} /\ queryMap \in [DOMAIN queryMap -> Peers]
  BY <1>2 DEF Init
<1>6. /\ eventQueue \in Seq(Entry) /\ shown \in Seq(Entry)
      /\ ready \in Seq({Other} \cup {Completed(id) : id \in QueryIds})
  BY <1>1 DEF Init
<1>7. kadOn \in BOOLEAN /\ phase \in Phases /\ nextId \in 1 .. MaxQueries + 1
  BY KadAssumption, QueryAssumption DEF Init, Phases
<1> QED BY <1>4, <1>5, <1>6, <1>7 DEF IInv, TypeOK, NoOrphanQuery

(* Every step keeps the types and leaves no query without an answer. *)
LEMMA StepInv == ASSUME IInv, [Next]_vars PROVE IInv'
<1>0. /\ eventQueue \in Seq(Entry) /\ shown \in Seq(Entry)
      /\ ready \in Seq(Events)
      /\ nextId \in 1 .. MaxQueries + 1 /\ MaxQueries \in Nat /\ kadOn \in BOOLEAN
  BY QueryAssumption DEF IInv, TypeOK, Events
<1>1. CASE CreationEnds
  <2>1. /\ UNCHANGED <<kadOn, eventQueue, ready, shown>> /\ phase' \in Phases
    BY <1>1 DEF CreationEnds, AfterTor, AfterArm, Phases
  <2>2. CASE OnionBootstrap
    <3>1. PICK n \in 1 .. MaxSteps : StartQuery(Self, n)
      BY <2>2 DEF OnionBootstrap
    <3>2. nextId <= MaxQueries
      BY <2>2 DEF OnionBootstrap
    <3> QED BY SelfAssumption, StartQueryKeeps, <2>1, <3>1, <3>2 DEF IInv, TypeOK
  <2>3. CASE UNCHANGED <<queryMap, running, nextId>>
    BY <2>1, <2>3 DEF IInv, TypeOK, NoOrphanQuery
  <2> QED BY <1>1, <2>2, <2>3 DEF CreationEnds
<1>2. CASE Startup \/ Register \/ Update \/ InputOnion \/ InputOther \/ InputStops
  <2>1. /\ UNCHANGED <<kadOn, eventQueue, queryMap, running, ready, nextId, shown>>
        /\ phase' \in Phases
    BY <1>2 DEF Startup, Register, Update, InputOnion, InputOther, InputStops, AfterArm, Phases
  <2> QED BY <2>1 DEF IInv, TypeOK, NoOrphanQuery
<1>3. ASSUME NEW p \in Peers, InputFind(p) PROVE IInv'
  <2>1. nextId \in QueryIds
    BY <1>0, <1>3 DEF InputFind, QueryIds
  <2>2. Notice(nextId, p) \in Entry /\ Addresses(nextId, p) \in Entry
    BY <2>1 DEF Notice, Addresses, Entry
  <2>3. eventQueue' \in Seq(Entry)
    <3>1. /\ Append(eventQueue, Notice(nextId, p)) \in Seq(Entry)
          /\ Append(eventQueue, Addresses(nextId, p)) \in Seq(Entry)
      BY <1>0, <2>2, AppendRange
    <3> QED BY <1>3, <3>1 DEF InputFind
  <2>4. /\ nextId <= MaxQueries /\ ready' = ready /\ kadOn' = kadOn /\ phase' \in Phases
        /\ shown' = shown
    BY <1>3 DEF InputFind, AfterArm, Phases
  <2>5. CASE kadOn
    <3>1. StartQuery(p, 1) /\ 1 \in 1 .. MaxSteps
      BY <1>3, <2>5, QueryAssumption DEF InputFind
    <3> QED BY StartQueryKeeps, <2>3, <2>4, <3>1 DEF IInv, TypeOK
  <2>6. CASE ~kadOn
    <3>1. nextId' = nextId + 1 /\ queryMap' = queryMap /\ running' = running
      BY <1>3, <2>6 DEF InputFind
    <3>2. /\ nextId' \in 1 .. MaxQueries + 1
          /\ 1 .. nextId - 1 \subseteq 1 .. nextId' - 1
          /\ 0 .. nextId - 1 \subseteq 0 .. nextId' - 1
      BY <1>0, <2>4, <3>1
    <3> QED BY <2>3, <2>4, <3>1, <3>2 DEF IInv, TypeOK, NoOrphanQuery
  <2> QED BY <2>5, <2>6
<1>4. CASE SwarmArm
  <2> DEFINE e == Head(ready)
             answers == e.kind = "completed" /\ e.id \in DOMAIN queryMap
  <2>1. /\ e \in Events /\ ready' \in Seq(Events)
        /\ Range(ready) \subseteq {e} \cup Range(ready')
    BY <1>0, <1>4, TailRange DEF SwarmArm
  <2>2. kadOn' = kadOn /\ phase' \in Phases /\ UNCHANGED <<eventQueue, running, nextId>>
    BY <1>4 DEF SwarmArm, AfterArm, Phases
  <2>3. CASE answers
    <3>1. queryMap' = Forget(e.id) /\ shown' = Append(shown, Addresses(e.id, queryMap[e.id]))
      BY <1>4, <2>3 DEF SwarmArm
    <3>2. /\ DOMAIN queryMap' = DOMAIN queryMap \ {e.id}
          /\ queryMap' \in [DOMAIN queryMap' -> Peers]
      BY <3>1, ForgetKeeps
    <3>3. Addresses(e.id, queryMap[e.id]) \in Entry
      BY <1>0, <2>3 DEF IInv, TypeOK, Addresses, Entry, QueryIds
    <3>4. shown' \in Seq(Entry)
      BY <1>0, <3>1, <3>3, AppendRange
    <3>5. TypeOK'
      BY <2>1, <2>2, <3>2, <3>4 DEF IInv, TypeOK, Events
    <3>6. ASSUME NEW id \in DOMAIN queryMap'
          PROVE  id \in DOMAIN running' \/ Completed(id) \in Range(ready')
      <4>1. Completed(id) # e
        BY <3>2 DEF Completed
      <4> QED BY <2>1, <2>2, <3>2, <4>1 DEF IInv, NoOrphanQuery
    <3> QED BY <3>5, <3>6 DEF IInv, NoOrphanQuery
  <2>4. CASE ~answers
    <3>1. queryMap' = queryMap /\ shown' = shown
      BY <1>4, <2>4 DEF SwarmArm
    <3>2. TypeOK'
      BY <2>1, <2>2, <3>1 DEF IInv, TypeOK, Events
    <3>3. ASSUME NEW id \in DOMAIN queryMap
          PROVE  Completed(id) # e
      BY <2>4 DEF Completed
    <3> QED BY <2>1, <2>2, <3>1, <3>2, <3>3 DEF IInv, NoOrphanQuery
  <2> QED BY <2>3, <2>4
<1>5. CASE Drain
  <2>1. CASE eventQueue = << >>
    BY <1>5, <2>1 DEF Drain, IInv, TypeOK, NoOrphanQuery, Phases
  <2>2. CASE eventQueue # << >>
    <3>1. Head(eventQueue) \in Entry /\ eventQueue' \in Seq(Entry)
      BY <1>0, <1>5, <2>2, TailRange DEF Drain
    <3>2. shown' \in Seq(Entry)
      <4>1. Append(shown, Head(eventQueue)) \in Seq(Entry)
        BY <1>0, <3>1, AppendRange
      <4> QED BY <1>5, <2>2, <4>1 DEF Drain
    <3> QED BY <1>5, <2>2, <3>1, <3>2 DEF Drain, IInv, TypeOK, NoOrphanQuery
  <2> QED BY <2>1, <2>2
<1>6. ASSUME NEW id \in QueryIds, KadCompletes(id) PROVE IInv'
  <2>1. Completed(id) \in Events
    BY DEF Events
  <2>2. ready' \in Seq(Events) /\ Range(ready') = Range(ready) \cup {Completed(id)}
    BY <1>0, <1>6, <2>1, AppendRange DEF KadCompletes
  <2>3. /\ id \in DOMAIN running /\ DOMAIN running \ {id} \subseteq DOMAIN running'
        /\ DOMAIN running' \subseteq DOMAIN running
        /\ running' \in [DOMAIN running' -> 1 .. MaxSteps]
    <3>1. CASE running[id] = 1
      BY <1>6, <3>1 DEF KadCompletes, Restrict, IInv, TypeOK
    <3>2. CASE running[id] # 1
      <4>1. running[id] - 1 \in 1 .. MaxSteps
        BY <1>6, <3>2, QueryAssumption DEF KadCompletes, IInv, TypeOK
      <4> QED BY <1>6, <3>2, <4>1 DEF KadCompletes, IInv, TypeOK
    <3> QED BY <3>1, <3>2
  <2>4. UNCHANGED <<kadOn, phase, eventQueue, queryMap, nextId, shown>>
    BY <1>6 DEF KadCompletes
  <2>5. TypeOK'
    BY <2>2, <2>3, <2>4 DEF IInv, TypeOK, Events
  <2>6. NoOrphanQuery'
    BY <2>2, <2>3, <2>4 DEF IInv, NoOrphanQuery
  <2> QED BY <2>5, <2>6 DEF IInv
<1>7. CASE OtherEvent
  <2>1. Other \in Events
    BY DEF Events
  <2>2. ready' \in Seq(Events) /\ Range(ready') = Range(ready) \cup {Other}
    BY <1>0, <1>7, <2>1, AppendRange DEF OtherEvent
  <2> QED BY <1>7, <2>2 DEF OtherEvent, IInv, TypeOK, NoOrphanQuery, Events
<1>8. CASE UNCHANGED vars
  BY <1>8 DEF vars, IInv, TypeOK, NoOrphanQuery
<1> QED BY <1>1, <1>2, <1>3, <1>4, <1>5, <1>6, <1>7, <1>8 DEF Next

-----------------------------------------------------------------------------
(* Positions after taking the head of a queue. *)
LEMMA TailAt ==
  ASSUME NEW S, NEW s \in Seq(S), s # << >>
  PROVE  /\ DOMAIN s = 1 .. Len(s) /\ DOMAIN Tail(s) = 1 .. Len(s) - 1
         /\ Len(s) \in Nat \ {0}
         /\ \A i \in 1 .. Len(s) - 1 : i + 1 \in 1 .. Len(s) /\ Tail(s)[i] = s[i + 1]
         /\ Head(s) = s[1] /\ 1 \in 1 .. Len(s)
<1>1. /\ Tail(s) \in Seq(S) /\ Len(Tail(s)) = Len(s) - 1 /\ Len(s) \in Nat \ {0}
      /\ \A i \in 1 .. Len(Tail(s)) : Tail(s)[i] = s[i + 1]
  BY HeadTailProperties, EmptySeq
<1>2. DOMAIN s = 1 .. Len(s) /\ DOMAIN Tail(s) = 1 .. Len(s) - 1
  BY <1>1, LenProperties
<1>3. 1 \in 1 .. Len(s) /\ \A i \in 1 .. Len(s) - 1 : i + 1 \in 1 .. Len(s)
  BY <1>1
<1> QED BY <1>1, <1>2, <1>3

(* Positions after appending to a queue. *)
LEMMA AppendAt ==
  ASSUME NEW S, NEW s \in Seq(S), NEW e \in S
  PROVE  /\ Len(s) \in Nat /\ DOMAIN s = 1 .. Len(s)
         /\ DOMAIN Append(s, e) = 1 .. Len(s) + 1
         /\ \A i \in 1 .. Len(s) : Append(s, e)[i] = s[i]
         /\ Append(s, e)[Len(s) + 1] = e
         /\ \A i \in 1 .. Len(s) + 1 : i \in 1 .. Len(s) \/ i = Len(s) + 1
         /\ \A i \in 1 .. Len(s) : i < Len(s) + 1
<1>1. /\ Append(s, e) \in Seq(S)
      /\ Len(Append(s, e)) = Len(s) + 1 /\ Len(s) \in Nat
      /\ \A i \in 1 .. Len(s) : Append(s, e)[i] = s[i]
      /\ Append(s, e)[Len(s) + 1] = e
  BY AppendProperties, LenProperties
<1>2. DOMAIN s = 1 .. Len(s) /\ DOMAIN Append(s, e) = 1 .. Len(s) + 1
  BY <1>1, LenProperties
<1> QED BY <1>1, <1>2

-----------------------------------------------------------------------------
(* Nothing is queued, shown or asked at first. *)
LEMMA InitLoop == Init => LoopInv
<1> SUFFICES ASSUME Init PROVE LoopInv
  OBVIOUS
<1>1. DOMAIN << >> = {} /\ eventQueue = << >> /\ queryMap = << >> /\ shown = << >>
  BY DEF Init
<1>2. Queued /\ Announced /\ NoticeBeforeAnswer
  BY <1>1 DEF Queued, Announced, NoticeBeforeAnswer
<1> QED BY <1>2, InitInv DEF LoopInv

(* What most steps need: nothing queued or shown, and the map no larger. *)
LEMMA QuietStep ==
  ASSUME LoopInv, UNCHANGED <<kadOn, eventQueue, shown>>,
         phase' # "drain" => eventQueue = << >>,
         1 .. nextId - 1 \subseteq 1 .. nextId' - 1,
         \A id \in DOMAIN queryMap' :
           kadOn /\ (queryMap'[id] = Self \/ (id \in DOMAIN queryMap /\ queryMap'[id] = queryMap[id]))
  PROVE  Queued' /\ Announced' /\ NoticeBeforeAnswer'
<1>1. Queued'
  BY DEF LoopInv, Queued
<1>2. Announced'
  BY DEF LoopInv, Announced, Notice
<1>3. NoticeBeforeAnswer'
  BY DEF LoopInv, NoticeBeforeAnswer, Notice
<1> QED BY <1>1, <1>2, <1>3

(* The onion service's bootstrap is filed under Self and needs no notice. *)
LEMMA BootstrapStep ==
  ASSUME LoopInv, OnionBootstrap, UNCHANGED <<kadOn, eventQueue, shown>>,
         phase' # "drain" => eventQueue = << >>
  PROVE  Queued' /\ Announced' /\ NoticeBeforeAnswer'
<1>1. PICK n \in 1 .. MaxSteps : StartQuery(Self, n)
  BY DEF OnionBootstrap
<1>2. nextId' = nextId + 1 /\ nextId \in Int /\ kadOn
  BY <1>1 DEF StartQuery, OnionBootstrap, LoopInv, IInv, TypeOK
<1>3. /\ DOMAIN queryMap' = DOMAIN queryMap \cup {nextId}
      /\ \A k \in DOMAIN queryMap' : queryMap'[k] = IF k = nextId THEN Self ELSE queryMap[k]
  BY <1>1 DEF StartQuery, With
<1>4. 1 .. nextId - 1 \subseteq 1 .. nextId' - 1
  BY <1>2
<1>5. \A id \in DOMAIN queryMap' :
        kadOn /\ (queryMap'[id] = Self \/ (id \in DOMAIN queryMap /\ queryMap'[id] = queryMap[id]))
  BY <1>2, <1>3
<1> QED BY <1>2, <1>4, <1>5, QuietStep

(* Every step keeps queue, panel and map consistent with each other. *)
LEMMA StepLoop == ASSUME LoopInv, [Next]_vars PROVE LoopInv'
<1>0. /\ eventQueue \in Seq(Entry) /\ shown \in Seq(Entry)
      /\ ready \in Seq(Events)
      /\ nextId \in 1 .. MaxQueries + 1 /\ nextId \in Int /\ MaxQueries \in Nat
      /\ kadOn \in BOOLEAN
      /\ queryMap \in [DOMAIN queryMap -> Peers] /\ DOMAIN queryMap \subseteq 1 .. nextId - 1
  BY QueryAssumption DEF LoopInv, IInv, TypeOK, Events
<1> SUFFICES Queued' /\ Announced' /\ NoticeBeforeAnswer'
  BY StepInv DEF LoopInv
<1>k. ASSUME NEW id \in DOMAIN queryMap PROVE kadOn
  BY DEF LoopInv, Queued
<1>1. CASE CreationEnds
  <2>1. UNCHANGED <<kadOn, eventQueue, shown>> /\ eventQueue = << >>
    BY <1>1 DEF CreationEnds, LoopInv, Queued
  <2>2. CASE OnionBootstrap
    BY <2>1, <2>2, BootstrapStep
  <2>3. CASE UNCHANGED <<queryMap, running, nextId>>
    BY <1>k, <2>1, <2>3, QuietStep
  <2> QED BY <1>1, <2>2, <2>3 DEF CreationEnds
<1>2. CASE Startup \/ Register \/ Update \/ InputOnion \/ InputOther \/ InputStops
  <2>1. UNCHANGED <<kadOn, eventQueue, queryMap, nextId, shown>> /\ eventQueue = << >>
    BY <1>2 DEF Startup, Register, Update, InputOnion, InputOther, InputStops, LoopInv, Queued
  <2> QED BY <1>k, <2>1, QuietStep
<1>3. CASE (\E id \in QueryIds : KadCompletes(id)) \/ OtherEvent \/ UNCHANGED vars
  <2>1. UNCHANGED <<kadOn, phase, eventQueue, queryMap, nextId, shown>>
    BY <1>3 DEF KadCompletes, OtherEvent, vars
  <2>2. phase' # "drain" => eventQueue = << >>
    BY <2>1 DEF LoopInv, Queued
  <2> QED BY <1>k, <2>1, <2>2, QuietStep
<1>4. ASSUME NEW p \in Peers, InputFind(p) PROVE Queued' /\ Announced' /\ NoticeBeforeAnswer'
  <2> DEFINE e == IF kadOn THEN Notice(nextId, p) ELSE Addresses(nextId, p)
  <2>1. /\ eventQueue = << >> /\ eventQueue' = Append(eventQueue, e)
        /\ nextId' = nextId + 1 /\ kadOn' = kadOn /\ shown' = shown /\ phase' = "drain"
    BY <1>4 DEF InputFind, StartQuery, AfterArm, LoopInv, Queued
  <2>2. e \in Entry
    <3>1. nextId \in QueryIds
      BY <1>0, <1>4 DEF InputFind, QueryIds
    <3> QED BY <3>1 DEF Notice, Addresses, Entry
  <2>3. /\ DOMAIN eventQueue' = {1} /\ eventQueue'[1] = e /\ Range(eventQueue') = {e}
    <3>1. eventQueue' = << e >>
      BY <2>1
    <3> QED BY <3>1 DEF Range
  <2>4. e.id = nextId /\ e.kind = IF kadOn THEN "notice" ELSE "addresses"
    BY DEF Notice, Addresses
  <2>5. nextId \in 1 .. nextId' - 1 /\ \A k \in 1 .. nextId - 1 : k \in 1 .. nextId' - 1
    BY <1>0, <2>1
  <2>6. ~kadOn => DOMAIN queryMap' = {}
    BY <1>4 DEF InputFind, LoopInv, Queued
  <2>7. Queued'
    BY <2>1, <2>3, <2>4, <2>5, <2>6 DEF LoopInv, Queued
  <2>8. Announced'
    <3>1. CASE kadOn
      <4>1. /\ DOMAIN queryMap' = DOMAIN queryMap \cup {nextId}
            /\ \A k \in DOMAIN queryMap' : queryMap'[k] = IF k = nextId THEN p ELSE queryMap[k]
        BY <1>4, <3>1 DEF InputFind, StartQuery, With
      <4>2. Range(eventQueue) = {}
        BY <2>1 DEF Range
      <4> QED BY <2>1, <2>3, <3>1, <4>1, <4>2 DEF LoopInv, Announced
    <3>2. CASE ~kadOn
      BY <2>6, <3>2 DEF Announced
    <3> QED BY <3>1, <3>2
  <2>9. NoticeBeforeAnswer'
    BY <2>1 DEF LoopInv, NoticeBeforeAnswer, Notice
  <2> QED BY <2>7, <2>8, <2>9
<1>5. CASE SwarmArm
  <2> DEFINE e == Head(ready)
             answers == e.kind = "completed" /\ e.id \in DOMAIN queryMap
             answer == Addresses(e.id, queryMap[e.id])
  <2>1. /\ UNCHANGED <<kadOn, eventQueue, nextId>> /\ phase' = "drain"
        /\ eventQueue = << >>
    BY <1>5 DEF SwarmArm, AfterArm, LoopInv, Queued
  <2>2. CASE ~answers
    <3>1. queryMap' = queryMap /\ shown' = shown
      BY <1>5, <2>2 DEF SwarmArm
    <3> QED BY <1>k, <2>1, <3>1, QuietStep
  <2>3. CASE answers
    <3>1. queryMap' = Forget(e.id) /\ shown' = Append(shown, answer)
      BY <1>5, <2>3 DEF SwarmArm
    <3>2. /\ DOMAIN queryMap' = DOMAIN queryMap \ {e.id}
          /\ \A k \in DOMAIN queryMap' : queryMap'[k] = queryMap[k]
      BY <3>1 DEF Forget, Restrict
    <3>3. e.id \in 1 .. nextId - 1 /\ answer \in Entry
      BY <1>0, <2>3 DEF Addresses, Entry, QueryIds
    <3>4. answer.id = e.id /\ answer.peer = queryMap[e.id]
      BY DEF Addresses
    <3>5. /\ Len(shown) \in Nat /\ DOMAIN shown = 1 .. Len(shown)
          /\ DOMAIN shown' = 1 .. Len(shown) + 1
          /\ \A i \in 1 .. Len(shown) : shown'[i] = shown[i]
          /\ shown'[Len(shown) + 1] = answer
          /\ \A i \in 1 .. Len(shown) + 1 : i \in 1 .. Len(shown) \/ i = Len(shown) + 1
      BY <1>0, <3>1, <3>3, AppendAt
    <3>6. Range(shown') = Range(shown) \cup {answer}
      BY <1>0, <3>1, <3>3, AppendRange
    <3>7. Queued'
      <4>1. \A i \in DOMAIN shown' : shown'[i].id \in 1 .. nextId - 1
        BY <3>3, <3>4, <3>5 DEF LoopInv, Queued
      <4> QED BY <2>1, <3>2, <4>1 DEF LoopInv, Queued
    <3>8. Announced'
      BY <2>1, <3>2, <3>6 DEF LoopInv, Announced
    <3>9. NoticeBeforeAnswer'
      <4> SUFFICES ASSUME NEW j \in DOMAIN shown', kadOn,
                          shown'[j].kind = "addresses", shown'[j].peer # Self
                   PROVE  \E i \in 1 .. j - 1 : shown'[i] = Notice(shown'[j].id, shown'[j].peer)
        BY <2>1 DEF NoticeBeforeAnswer
      <4>1. CASE j = Len(shown) + 1
        <5>1. Notice(e.id, queryMap[e.id]) \in Range(eventQueue) \cup Range(shown)
          BY <2>3, <3>4, <3>5, <4>1 DEF LoopInv, Announced
        <5>2. Range(eventQueue) = {}
          BY <2>1 DEF Range
        <5>3. PICK i \in 1 .. Len(shown) : shown[i] = Notice(e.id, queryMap[e.id])
          BY <3>5, <5>1, <5>2 DEF Range
        <5>4. i \in 1 .. j - 1
          BY <3>5, <4>1
        <5> QED BY <3>4, <3>5, <4>1, <5>3, <5>4
      <4>2. CASE j \in 1 .. Len(shown)
        <5>1. PICK i \in 1 .. j - 1 : shown[i] = Notice(shown[j].id, shown[j].peer)
          BY <3>5, <4>2 DEF LoopInv, NoticeBeforeAnswer
        <5>2. i \in 1 .. Len(shown)
          BY <3>5, <4>2
        <5> QED BY <3>5, <4>2, <5>1, <5>2
      <4> QED BY <3>5, <4>1, <4>2
    <3> QED BY <3>7, <3>8, <3>9
  <2> QED BY <2>2, <2>3
<1>6. CASE Drain
  <2>1. CASE eventQueue = << >>
    <3>1. UNCHANGED <<kadOn, eventQueue, queryMap, nextId, shown>>
      BY <1>6, <2>1 DEF Drain
    <3> QED BY <1>k, <2>1, <3>1, QuietStep
  <2>2. CASE eventQueue # << >>
    <3> DEFINE e == Head(eventQueue)
    <3>1. /\ shown' = Append(shown, e) /\ eventQueue' = Tail(eventQueue)
          /\ phase' = "drain" /\ UNCHANGED <<kadOn, queryMap, nextId>>
      BY <1>6, <2>2 DEF Drain
    <3>2. e \in Entry /\ Range(eventQueue) = {e} \cup Range(eventQueue')
      BY <1>0, <2>2, <3>1, TailRange
    <3>3. /\ DOMAIN eventQueue = 1 .. Len(eventQueue)
          /\ DOMAIN eventQueue' = 1 .. Len(eventQueue) - 1
          /\ Len(eventQueue) \in Nat \ {0}
          /\ \A i \in 1 .. Len(eventQueue) - 1 :
               i + 1 \in 1 .. Len(eventQueue) /\ eventQueue'[i] = eventQueue[i + 1]
          /\ e = eventQueue[1] /\ 1 \in 1 .. Len(eventQueue)
      BY <1>0, <2>2, <3>1, TailAt
    <3>4. /\ e.id \in 1 .. nextId - 1
          /\ e.kind = IF kadOn THEN "notice" ELSE "addresses"
      BY <3>3 DEF LoopInv, Queued
    <3>5. /\ Len(shown) \in Nat /\ DOMAIN shown = 1 .. Len(shown)
          /\ DOMAIN shown' = 1 .. Len(shown) + 1
          /\ \A i \in 1 .. Len(shown) : shown'[i] = shown[i]
          /\ shown'[Len(shown) + 1] = e
          /\ \A i \in 1 .. Len(shown) + 1 : i \in 1 .. Len(shown) \/ i = Len(shown) + 1
      BY <1>0, <3>1, <3>2, AppendAt
    <3>6. Range(shown') = Range(shown) \cup {e}
      BY <1>0, <3>1, <3>2, AppendRange
    <3>7. Queued'
      <4>1. \A i \in DOMAIN shown' : shown'[i].id \in 1 .. nextId - 1
        BY <3>4, <3>5 DEF LoopInv, Queued
      <4>2. \A i \in DOMAIN eventQueue' :
              /\ eventQueue'[i].id \in 1 .. nextId - 1
              /\ eventQueue'[i].kind = IF kadOn THEN "notice" ELSE "addresses"
        BY <3>3 DEF LoopInv, Queued
      <4>3. ASSUME NEW i \in DOMAIN eventQueue', NEW j \in DOMAIN eventQueue', i < j
            PROVE  eventQueue'[i].id # eventQueue'[j].id
        <5>1. i + 1 < j + 1
          BY <3>3, <4>3
        <5>2. /\ eventQueue'[i] = eventQueue[i + 1] /\ eventQueue'[j] = eventQueue[j + 1]
              /\ i + 1 \in DOMAIN eventQueue /\ j + 1 \in DOMAIN eventQueue
          BY <3>3, <4>3
        <5> QED BY <5>1, <5>2 DEF LoopInv, Queued
      <4> QED BY <3>1, <4>1, <4>2, <4>3 DEF LoopInv, Queued
    <3>8. Announced'
      BY <3>1, <3>2, <3>6 DEF LoopInv, Announced
    <3>9. NoticeBeforeAnswer'
      <4> SUFFICES ASSUME NEW j \in DOMAIN shown', kadOn,
                          shown'[j].kind = "addresses", shown'[j].peer # Self
                   PROVE  \E i \in 1 .. j - 1 : shown'[i] = Notice(shown'[j].id, shown'[j].peer)
        BY <3>1 DEF NoticeBeforeAnswer
      <4>1. j \in 1 .. Len(shown)
        BY <3>4, <3>5
      <4>2. PICK i \in 1 .. j - 1 : shown[i] = Notice(shown[j].id, shown[j].peer)
        BY <3>5, <4>1 DEF LoopInv, NoticeBeforeAnswer
      <4>3. i \in 1 .. Len(shown)
        BY <3>5, <4>1
      <4> QED BY <3>5, <4>1, <4>2, <4>3
    <3> QED BY <3>7, <3>8, <3>9
  <2> QED BY <2>1, <2>2
<1> QED BY <1>1, <1>2, <1>3, <1>4, <1>5, <1>6 DEF Next

(* The inductive invariant holds in every reachable state. *)
THEOREM LoopInvariance == Spec => []LoopInv
<1>1. LoopInv /\ [Next]_vars => LoopInv'
  BY StepLoop
<1> QED BY InitLoop, <1>1, PTL DEF Spec

(* Every variable stays in its range; ids in use are below the next one. *)
THEOREM LoopTypes == Spec => []TypeOK
<1>1. LoopInv => TypeOK
  BY DEF LoopInv, IInv
<1> QED BY LoopInvariance, <1>1, PTL

(* query_map holds no query that nothing will answer: Kademlia owes a
   completion for each, or one is waiting in the swarm.                    *)
THEOREM NoneOrphaned == Spec => []NoOrphanQuery
<1>1. LoopInv => NoOrphanQuery
  BY DEF LoopInv, IInv
<1> QED BY LoopInvariance, <1>1, PTL

(* The notice of a lookup is read before the answer it announces. *)
THEOREM AnnouncedFirst == Spec => []NoticeBeforeAnswer
<1>1. LoopInv => NoticeBeforeAnswer
  BY DEF LoopInv
<1> QED BY LoopInvariance, <1>1, PTL

-----------------------------------------------------------------------------
(* The refinement of PeerLookup, but for its fairness. *)

Pending == {[id |-> id, peer |-> queryMap[id]] : id \in DOMAIN queryMap}
             \cup Lookups("addresses", eventQueue)
Answered == Lookups("addresses", shown)
(* The state of the lookup service. *)
Abstract == <<Pending, Answered, phase # "stopped">>

(* Every lookup the abstract state holds has an id that was given out. *)
LEMMA IdsGivenOut ==
  ASSUME LoopInv
  PROVE  \A a \in Pending \cup Answered : a.id \in 1 .. nextId - 1
<1>1. \A a \in Lookups("addresses", eventQueue) \cup Answered : a.id \in 1 .. nextId - 1
  BY DEF LoopInv, Queued, Lookups, Answered, Range
<1>2. DOMAIN queryMap \subseteq 1 .. nextId - 1
  BY DEF LoopInv, IInv, TypeOK
<1> QED BY <1>1, <1>2 DEF Pending

(* A step that leaves the lookups alone and does not stop is a stutter. *)
LEMMA Stutters ==
  ASSUME UNCHANGED <<queryMap, eventQueue, shown>>,
         phase' # "stopped" <=> phase # "stopped"
  PROVE  UNCHANGED Abstract
BY DEF Abstract, Pending, Answered, Lookups

(* One that stops the loop is the abstract Close. *)
LEMMA Closes ==
  ASSUME UNCHANGED <<queryMap, eventQueue, shown>>, phase # "stopped", phase' = "stopped"
  PROVE  L!Close
BY DEF L!Close, Pending, Answered, Lookups

(* Each action of the lookup service is a step of it. *)
LEMMA AskIsNext ==
  ASSUME NEW a \in L!Lookups, L!Ask(a)
  PROVE  L!Next
BY DEF L!Next, L!Ask

(* The same for an answer. *)
LEMMA AnswerIsNext ==
  ASSUME NEW a \in L!Lookups, L!Answer(a)
  PROVE  L!Next
BY DEF L!Next, L!Answer

(* A query filed under nextId is a lookup asked. *)
LEMMA QueryAsks ==
  ASSUME LoopInv, nextId <= MaxQueries, NEW p \in Peers, NEW n, StartQuery(p, n),
         phase # "stopped", phase' # "stopped",
         Lookups("addresses", eventQueue') = Lookups("addresses", eventQueue),
         shown' = shown
  PROVE  L!Next
<1>1. nextId \in 1 .. MaxQueries
  BY QueryAssumption DEF LoopInv, IInv, TypeOK
<1>2. PICK a \in L!Lookups : a = [id |-> nextId, peer |-> p]
  BY <1>1 DEF L!Lookups
<1>3. \A b \in Pending \cup Answered : b.id # a.id
  BY <1>1, <1>2, IdsGivenOut
<1>4. nextId \notin DOMAIN queryMap
  BY <1>1 DEF LoopInv, IInv, TypeOK
<1>5. {[id |-> id, peer |-> queryMap'[id]] : id \in DOMAIN queryMap'}
        = {[id |-> id, peer |-> queryMap[id]] : id \in DOMAIN queryMap} \cup {a}
  BY <1>2, <1>4 DEF StartQuery, With
<1>6. Pending' = Pending \cup {a} /\ Answered' = Answered
  BY <1>5 DEF Pending, Answered
<1>7. L!Ask(a)
  BY <1>3, <1>6 DEF L!Ask, Pending, Answered
<1> QED BY <1>7, AskIsNext

(* Draining an answer is that lookup answered, a notice is nothing. *)
LEMMA DrainAnswers ==
  ASSUME LoopInv, Drain, eventQueue # << >>
  PROVE  L!Next \/ UNCHANGED Abstract
<1> DEFINE e == Head(eventQueue)
<1>0. eventQueue \in Seq(Entry) /\ shown \in Seq(Entry)
  BY DEF LoopInv, IInv, TypeOK
<1>1. /\ shown' = Append(shown, e) /\ eventQueue' = Tail(eventQueue)
      /\ queryMap' = queryMap /\ phase = "drain" /\ phase' = "drain"
  BY DEF Drain
<1>2. e \in Entry /\ Range(eventQueue) = Range(eventQueue') \cup {e}
  BY <1>0, <1>1, TailRange
<1>3. Range(shown') = Range(shown) \cup {e}
  BY <1>0, <1>1, <1>2, AppendRange
<1>4. CASE e.kind # "addresses"
  <2>1. /\ Lookups("addresses", eventQueue') = Lookups("addresses", eventQueue)
        /\ Lookups("addresses", shown') = Lookups("addresses", shown)
    BY <1>2, <1>3, <1>4 DEF Lookups
  <2> QED BY <1>1, <2>1 DEF Abstract, Pending, Answered
<1>5. CASE e.kind = "addresses"
  <2> DEFINE lookup == [id |-> e.id, peer |-> e.peer]
  <2>1. /\ Lookups("addresses", eventQueue)
             = Lookups("addresses", eventQueue') \cup {lookup}
        /\ Answered' = Answered \cup {lookup}
    BY <1>2, <1>3, <1>5 DEF Lookups, Answered
  <2>2. /\ DOMAIN eventQueue = 1 .. Len(eventQueue)
        /\ DOMAIN eventQueue' = 1 .. Len(eventQueue) - 1
        /\ Len(eventQueue) \in Nat \ {0}
        /\ \A i \in 1 .. Len(eventQueue) - 1 :
             i + 1 \in 1 .. Len(eventQueue) /\ eventQueue'[i] = eventQueue[i + 1]
        /\ e = eventQueue[1] /\ 1 \in 1 .. Len(eventQueue)
    BY <1>0, <1>1, TailAt
  <2>3. ~kadOn /\ DOMAIN queryMap = {} /\ e.id \in 1 .. nextId - 1
    BY <1>5, <2>2 DEF LoopInv, Queued, IInv, TypeOK
  <2>4. ASSUME NEW i \in DOMAIN eventQueue' PROVE eventQueue'[i].id # e.id
    <3>1. i + 1 \in DOMAIN eventQueue /\ 1 < i + 1 /\ 1 \in DOMAIN eventQueue
      BY <2>2
    <3> QED BY <2>2, <3>1 DEF LoopInv, Queued
  <2>5. lookup \notin Lookups("addresses", eventQueue')
    BY <2>4 DEF Lookups, Range
  <2>6. Pending = Lookups("addresses", eventQueue) /\ Pending' = Lookups("addresses", eventQueue')
    BY <1>1, <2>3 DEF Pending
  <2>7. lookup \in Pending /\ Pending' = Pending \ {lookup}
    BY <2>1, <2>5, <2>6
  <2>8. lookup \in L!Lookups
    <3>1. e.id \in 1 .. MaxQueries
      BY <2>3, QueryAssumption DEF LoopInv, IInv, TypeOK
    <3> QED BY <1>2, <3>1 DEF L!Lookups, Entry
  <2>9. PICK a \in L!Lookups : a = lookup
    BY <2>8
  <2>10. L!Answer(a)
    BY <1>1, <2>1, <2>7, <2>9 DEF L!Answer, Pending, Answered
  <2> QED BY <2>10, AnswerIsNext
<1> QED BY <1>4, <1>5

(* A completion found in query_map is that lookup answered. *)
LEMMA SwarmAnswers ==
  ASSUME LoopInv, SwarmArm
  PROVE  L!Next \/ UNCHANGED Abstract
<1> DEFINE e == Head(ready)
           answers == e.kind = "completed" /\ e.id \in DOMAIN queryMap
           lookup == [id |-> e.id, peer |-> queryMap[e.id]]
           entry == Addresses(e.id, queryMap[e.id])
<1>0. shown \in Seq(Entry) /\ queryMap \in [DOMAIN queryMap -> Peers]
  BY DEF LoopInv, IInv, TypeOK
<1>1. eventQueue' = eventQueue /\ eventQueue = << >> /\ phase = "select" /\ phase' = "drain"
  BY DEF SwarmArm, AfterArm, LoopInv, Queued
<1>2. CASE ~answers
  <2>1. queryMap' = queryMap /\ shown' = shown
    BY <1>2 DEF SwarmArm
  <2> QED BY <1>1, <2>1, Stutters
<1>3. CASE answers
  <2>1. queryMap' = Forget(e.id) /\ shown' = Append(shown, entry)
    BY <1>3 DEF SwarmArm
  <2>2. e.id \in 1 .. MaxQueries /\ queryMap[e.id] \in Peers
    BY <1>0, <1>3, QueryAssumption DEF LoopInv, IInv, TypeOK
  <2>3. entry \in Entry /\ entry.id = e.id /\ entry.peer = queryMap[e.id] /\ entry.kind = "addresses"
    BY <2>2, QueryAssumption DEF Addresses, Entry, QueryIds
  <2>4. Range(shown') = Range(shown) \cup {entry}
    BY <1>0, <2>1, <2>3, AppendRange
  <2>5. Answered' = Answered \cup {lookup}
    BY <2>3, <2>4 DEF Lookups, Answered
  <2>6. Lookups("addresses", eventQueue) = {} /\ Lookups("addresses", eventQueue') = {}
    BY <1>1 DEF Lookups, Range
  <2>7. /\ DOMAIN queryMap' = DOMAIN queryMap \ {e.id}
        /\ \A k \in DOMAIN queryMap' : queryMap'[k] = queryMap[k]
    BY <2>1 DEF Forget, Restrict
  <2>8. lookup \in Pending /\ Pending' = Pending \ {lookup}
    BY <1>3, <2>6, <2>7 DEF Pending
  <2>9. PICK a \in L!Lookups : a = lookup
    BY <2>2 DEF L!Lookups
  <2>10. L!Answer(a)
    BY <1>1, <2>5, <2>8, <2>9 DEF L!Answer, Pending, Answered
  <2> QED BY <2>10, AnswerIsNext
<1> QED BY <1>2, <1>3

(* Every step of the loop is one of the lookup service, or none. *)
LEMMA StepMaps ==
  ASSUME LoopInv, [Next]_vars
  PROVE  L!Next \/ UNCHANGED Abstract
<1>1. CASE CreationEnds
  <2>1. UNCHANGED <<eventQueue, shown>> /\ phase # "stopped"
    BY <1>1 DEF CreationEnds
  <2>2. CASE OnionBootstrap /\ phase' = AfterTor
    <3>1. PICK n \in 1 .. MaxSteps : StartQuery(Self, n)
      BY <2>2 DEF OnionBootstrap
    <3>2. nextId <= MaxQueries /\ phase' # "stopped"
      BY <2>2 DEF OnionBootstrap, AfterTor, AfterArm
    <3> QED BY <2>1, <3>1, <3>2, SelfAssumption, QueryAsks
  <2>3. CASE queryMap' = queryMap
    BY <2>1, <2>3, Stutters, Closes DEF L!Next
  <2> QED BY <1>1, <2>2, <2>3 DEF CreationEnds
<1>2. CASE Startup \/ Register \/ Update \/ InputOnion \/ InputOther \/ InputStops
  <2>1. UNCHANGED <<queryMap, eventQueue, shown>> /\ phase # "stopped"
    BY <1>2 DEF Startup, Register, Update, InputOnion, InputOther, InputStops
  <2> QED BY <2>1, Stutters, Closes DEF L!Next
<1>3. ASSUME NEW p \in Peers, InputFind(p) PROVE L!Next
  <2>1. /\ nextId <= MaxQueries /\ shown' = shown
        /\ phase # "stopped" /\ phase' # "stopped" /\ eventQueue = << >>
    BY <1>3 DEF InputFind, AfterArm, LoopInv, Queued
  <2>2. nextId \in 1 .. MaxQueries
    BY <2>1, QueryAssumption DEF LoopInv, IInv, TypeOK
  <2>3. Lookups("addresses", eventQueue) = {}
    BY <2>1 DEF Lookups, Range
  <2>4. CASE kadOn
    <3>1. StartQuery(p, 1) /\ eventQueue' = << Notice(nextId, p) >>
      BY <1>3, <2>1, <2>4 DEF InputFind
    <3>2. Lookups("addresses", eventQueue') = {}
      BY <3>1 DEF Lookups, Range, Notice
    <3> QED BY <2>1, <2>3, <3>1, <3>2, QueryAsks
  <2>5. CASE ~kadOn
    <3>1. PICK a \in L!Lookups : a = [id |-> nextId, peer |-> p]
      BY <2>2 DEF L!Lookups
    <3>2. eventQueue' = << Addresses(nextId, p) >> /\ queryMap' = queryMap
      BY <1>3, <2>1, <2>5 DEF InputFind
    <3>3. Lookups("addresses", eventQueue') = {a}
      BY <3>2, <3>1 DEF Lookups, Range, Addresses
    <3>4. Pending' = Pending \cup {a} /\ Answered' = Answered
      BY <2>1, <2>3, <3>2, <3>3 DEF Pending, Answered
    <3>5. \A b \in Pending \cup Answered : b.id # a.id
      BY <2>2, <3>1, IdsGivenOut
    <3>6. L!Ask(a)
      BY <2>1, <3>4, <3>5 DEF L!Ask, Pending, Answered
    <3> QED BY <3>6, AskIsNext
  <2> QED BY <2>4, <2>5
<1>4. CASE SwarmArm
  BY <1>4, SwarmAnswers
<1>5. CASE Drain
  <2>1. CASE eventQueue = << >>
    BY <1>5, <2>1, Stutters DEF Drain
  <2> QED BY <1>5, <2>1, DrainAnswers
<1>6. CASE (\E id \in QueryIds : KadCompletes(id)) \/ OtherEvent \/ UNCHANGED vars
  <2>1. UNCHANGED <<phase, eventQueue, queryMap, shown>>
    BY <1>6 DEF KadCompletes, OtherEvent, vars
  <2> QED BY <2>1, Stutters
<1> QED BY <1>1, <1>2, <1>3, <1>4, <1>5, <1>6 DEF Next

(* The loop makes no step the lookup service does not allow: each lookup is
   answered at most once, for the peer asked, and not after the end.       *)
THEOREM LookupsAnsweredOnce == Spec => L!Init /\ [][L!Next]_(L!lookupVars)
<1>1. Init => L!Init
  <2> SUFFICES ASSUME Init PROVE L!Init
    OBVIOUS
  <2>1. DOMAIN << >> = {} /\ eventQueue = << >> /\ queryMap = << >> /\ shown = << >>
    BY DEF Init
  <2> QED BY <2>1 DEF Init, L!Init, Lookups, Range
<1>2. LoopInv /\ [Next]_vars => [L!Next]_(L!lookupVars)
  BY StepMaps DEF L!lookupVars, Abstract, Pending, Answered
<1> QED BY <1>1, <1>2, LoopInvariance, PTL DEF Spec

=============================================================================
