----------------------------- MODULE ChatProofs -----------------------------
(***************************************************************************)
(* Proofs about Chat, for every set of topics, history capacity, word      *)
(* size, number of messages and build profile.                             *)
(***************************************************************************)
EXTENDS Chat, SequenceTheorems, TLAPS

(* CircularQueue::push keeps a history a history. *)
LEMMA PushType ==
  ASSUME NEW S, NEW queue \in Seq(S), NEW m \in S
  PROVE  Push(queue, m) \in Seq(S)
<1>1. CASE Len(queue) < HistoryCap
  BY <1>1 DEF Push
<1>2. CASE ~(Len(queue) < HistoryCap)
  <2>1. Len(queue) \in Nat /\ HistoryCap \in Nat \ {0}
    BY CapAssumption, LenProperties
  <2>2. queue # << >>
    BY <1>2, <2>1, EmptySeq
  <2>3. Tail(queue) \in Seq(S)
    BY <2>2, HeadTailProperties
  <2> QED BY <1>2, <2>3 DEF Push
<1> QED BY <1>1, <1>2

(* A tab appended to a row of distinct tabs that does not hold it. *)
LEMMA AppendTab ==
  ASSUME NEW S, NEW s \in Seq(S), NEW e \in S,
         IsInjective(s), e \notin Range(s)
  PROVE  /\ Append(s, e) \in Seq(S)
         /\ Len(Append(s, e)) = Len(s) + 1
         /\ Range(Append(s, e)) = Range(s) \cup {e}
         /\ IsInjective(Append(s, e))
<1> DEFINE a == Append(s, e)
<1>1. /\ a \in Seq(S) /\ Len(s) \in Nat /\ Len(a) = Len(s) + 1
      /\ \A i \in 1 .. Len(s) : a[i] = s[i]
      /\ a[Len(s) + 1] = e
  BY LenProperties
<1>2. DOMAIN s = 1 .. Len(s) /\ DOMAIN a = 1 .. Len(s) + 1
  BY <1>1, LenProperties
<1>3. \A i \in 1 .. Len(s) + 1 : i \in 1 .. Len(s) \/ i = Len(s) + 1
  BY <1>1
<1>4. \A i \in 1 .. Len(s) : s[i] # e
  BY <1>2 DEF Range
<1>5. Range(a) = Range(s) \cup {e}
  <2>1. Range(a) \subseteq Range(s) \cup {e}
    BY <1>1, <1>2, <1>3 DEF Range
  <2>2. Range(s) \subseteq Range(a)
    <3>1. 1 .. Len(s) \subseteq 1 .. Len(s) + 1
      BY <1>1
    <3> QED BY <1>1, <1>2, <3>1 DEF Range
  <2>3. e \in Range(a)
    <3>1. Len(s) + 1 \in 1 .. Len(s) + 1
      BY <1>1
    <3> QED BY <1>1, <1>2, <3>1 DEF Range
  <2> QED BY <2>1, <2>2, <2>3
<1>6. IsInjective(a)
  <2> SUFFICES ASSUME NEW i \in 1 .. Len(s) + 1, NEW j \in 1 .. Len(s) + 1,
                      a[i] = a[j]
               PROVE  i = j
    BY <1>2 DEF IsInjective
  <2> QED BY <1>1, <1>2, <1>3, <1>4 DEF IsInjective
<1> QED BY <1>1, <1>5, <1>6

(* swap_remove takes exactly one tab out of a row of distinct tabs. *)
LEMMA SwapRemoveTab ==
  ASSUME NEW S, NEW s \in Seq(S), NEW i \in 1 .. Len(s), IsInjective(s)
  PROVE  /\ SwapRemove(s, i) \in Seq(S)
         /\ Len(SwapRemove(s, i)) = Len(s) - 1
         /\ Range(SwapRemove(s, i)) = Range(s) \ {s[i]}
         /\ IsInjective(SwapRemove(s, i))
<1> DEFINE n == Len(s)
           r == SwapRemove(s, i)
<1>1. /\ n \in Nat /\ i \in Nat /\ 1 <= i /\ i <= n
      /\ n - 1 \in Nat /\ DOMAIN s = 1 .. n
  BY LenProperties
<1>2. \A j \in 1 .. n : s[j] \in S
  BY ElementOfSeq
<1>3. r = [j \in 1 .. n - 1 |-> IF j = i THEN s[n] ELSE s[j]]
  BY DEF SwapRemove
<1>0. Len(s) = n
  OBVIOUS
<1> HIDE DEF n
<1>4. \A j \in 1 .. n - 1 : r[j] = IF j = i THEN s[n] ELSE s[j]
  BY <1>3
<1>5. n \in 1 .. n /\ \A j \in 1 .. n - 1 : j \in 1 .. n /\ j # n
  BY <1>1
<1>6. r \in [1 .. n - 1 -> S]
  BY <1>2, <1>3, <1>5
<1>7. r \in Seq(S) /\ Len(r) = n - 1
  <2>1. r \in Seq(S)
    BY <1>1, <1>6, SeqDef
  <2>2. DOMAIN r = 1 .. n - 1
    BY <1>3
  <2>3. Len(r) \in Nat /\ DOMAIN r = 1 .. Len(r)
    BY <2>1, LenProperties
  <2>4. Len(r) = n - 1
    BY <1>1, <2>2, <2>3
  <2> QED BY <2>1, <2>4
<1>8. DOMAIN r = 1 .. n - 1
  BY <1>3
<1>9. Range(r) = Range(s) \ {s[i]}
  <2>1. ASSUME NEW j \in 1 .. n - 1
        PROVE  r[j] \in Range(s) \ {s[i]}
    BY <1>1, <1>4, <1>5, <2>1 DEF Range, IsInjective
  <2>2. ASSUME NEW k \in 1 .. n, k # i
        PROVE  s[k] \in Range(r)
    <3>1. CASE k = n
      <4>1. i \in 1 .. n - 1
        BY <1>1, <2>2, <3>1
      <4> QED BY <1>4, <1>8, <3>1, <4>1 DEF Range
    <3>2. CASE k # n
      <4>1. k \in 1 .. n - 1
        BY <1>1, <3>2
      <4> QED BY <1>4, <1>8, <2>2, <4>1 DEF Range
    <3> QED BY <3>1, <3>2
  <2>3. Range(r) \subseteq Range(s) \ {s[i]}
    BY <1>8, <2>1 DEF Range
  <2>4. Range(s) \ {s[i]} \subseteq Range(r)
    BY <1>1, <2>2 DEF Range
  <2> QED BY <2>3, <2>4
<1>10. IsInjective(r)
  <2> SUFFICES ASSUME NEW j \in 1 .. n - 1, NEW k \in 1 .. n - 1, r[j] = r[k]
               PROVE  j = k
    BY <1>8 DEF IsInjective
  <2> QED BY <1>1, <1>4, <1>5 DEF IsInjective
<1> QED BY <1>0, <1>7, <1>9, <1>10

-----------------------------------------------------------------------------
(***************************************************************************)
(* The inductive invariant.  CopiesAgree needs the types to know what a    *)
(* row of tabs is; the two invariants about the selection need CopiesAgree *)
(* because the row and not the mesh decides where the index may point; and *)
(* CurrentWithinTabs needs NeverLosesSelection's None-iff-empty.           *)
(***************************************************************************)
IInv == TypeOK /\ CopiesAgree /\ CurrentWithinTabs /\ NeverLosesSelection

(* The client starts without topics, tabs or messages. *)
THEOREM InitIInv == Init => IInv
<1> SUFFICES ASSUME Init PROVE IInv
  OBVIOUS
<1>1. TypeOK
  <2>1. subscriptions \in [DOMAIN subscriptions -> Seq(Message)]
        /\ DOMAIN subscriptions = {}
    BY DEF Init
  <2> QED BY <2>1, ProfileAssumption, EmptySeq DEF Init, TypeOK, NoTab, Panics
<1>2. CopiesAgree
  BY DEF Init, CopiesAgree, Range, IsInjective
<1>3. CurrentWithinTabs /\ NeverLosesSelection
  BY DEF Init, CurrentWithinTabs, NeverLosesSelection, Running
<1> QED BY <1>1, <1>2, <1>3 DEF IInv

(* The position unsubscribe finds is a tab of that topic. *)
LEMMA PositionFound ==
  ASSUME NEW t, \E i \in 1 .. Len(list) : list[i] = t
  PROVE  LET i == CHOOSE j \in 1 .. Len(list) : list[j] = t
         IN  i \in 1 .. Len(list) /\ list[i] = t
OBVIOUS

(* The selected topic, when there is one, is a topic with a tab. *)
LEMMA CurrentIsTab ==
  ASSUME TypeOK, CurrentIsSome
  PROVE  Current \in Topics /\ Current \in Range(list)
<1>1. currentIndex \in 0 .. Len(list) - 1 /\ list \in Seq(Topics)
  BY DEF TypeOK, CurrentIsSome
<1>2. Len(list) \in Nat /\ DOMAIN list = 1 .. Len(list)
  BY <1>1, LenProperties
<1>3. currentIndex + 1 \in 1 .. Len(list)
  BY <1>1, <1>2
<1> QED BY <1>1, <1>2, <1>3, ElementOfSeq DEF Current, Range

(* Showing a message keeps the histories and the journal well typed and
   adds and removes no history.                                            *)
LEMMA ShowType ==
  ASSUME TypeOK, NEW m \in Message, Show(m)
  PROVE  /\ DOMAIN subscriptions' = DOMAIN subscriptions
         /\ subscriptions' \in [DOMAIN subscriptions' -> Seq(Message)]
         /\ journal' \in Seq(Message)
<1>1. journal' \in Seq(Message)
  BY DEF TypeOK, Show
<1>2. CASE m.topic \in DOMAIN subscriptions
  <2>1. subscriptions[m.topic] \in Seq(Message)
    BY <1>2 DEF TypeOK
  <2>2. Push(subscriptions[m.topic], m) \in Seq(Message)
    BY <2>1, PushType
  <2>3. subscriptions' = [subscriptions EXCEPT ![m.topic] =
                            Push(subscriptions[m.topic], m)]
    BY <1>2 DEF Show
  <2> QED BY <1>1, <2>2, <2>3 DEF TypeOK
<1>3. CASE m.topic \notin DOMAIN subscriptions
  BY <1>1, <1>3 DEF TypeOK, Show
<1> QED BY <1>2, <1>3

(* The index after a removal is a usize or None, and the panics it can end
   in are known ones.                                                      *)
LEMMA RemovalType ==
  ASSUME currentIndex \in Nat \cup {NoTab}, NEW index \in Nat, NEW n \in Nat
  PROVE  /\ IndexAfterRemoval(index, n) \in Nat \cup {NoTab}
         /\ RemovalPanic(index, n) \in Panics
<1>1. IndexAfterRemoval(index, n) \in Nat \cup {NoTab}
  BY UsizeAssumption DEF IndexAfterRemoval, WrappingPred, NoTab
<1>2. RemovalPanic(index, n) \in {"index_none", "underflow", "none"}
  BY Zenon DEF RemovalPanic
<1> QED BY <1>1, <1>2 DEF Panics

(* Every step keeps every variable in its range (Chat!TypeOK). *)
LEMMA TypeStep == TypeOK /\ CopiesAgree /\ [Next]_vars => TypeOK'
<1> SUFFICES ASSUME TypeOK, CopiesAgree, [Next]_vars PROVE TypeOK'
  OBVIOUS
<1>1. ASSUME NEW t \in Topics, Subscribe(t) PROVE TypeOK'
  <2>1. subscriptions' \in [DOMAIN subscriptions' -> Seq(Message)]
        /\ DOMAIN subscriptions' \subseteq Topics
    BY <1>1, EmptySeq DEF TypeOK, Subscribe
  <2>2. list' \in Seq(Topics) /\ Len(list) \in Nat /\ Len(journal) \in Nat
    BY <1>1, LenProperties DEF TypeOK, Subscribe
  <2>3. mark' \in [Topics -> Nat]
    BY <1>1, <2>2 DEF TypeOK, Subscribe
  <2>4. mesh' \subseteq Topics /\ currentIndex' \in Nat \cup {NoTab}
    BY <1>1, <2>2 DEF TypeOK, Subscribe
  <2> QED BY <1>1, <2>1, <2>2, <2>3, <2>4 DEF TypeOK, Subscribe
<1>2. ASSUME NEW t \in Topics, Unsubscribe(t) PROVE TypeOK'
  <2> DEFINE i == CHOOSE j \in 1 .. Len(list) : list[j] = t
  <2>1. subscriptions' \in [DOMAIN subscriptions' -> Seq(Message)]
        /\ DOMAIN subscriptions' \subseteq Topics
    BY <1>2 DEF TypeOK, Unsubscribe, Restrict
  <2>2. list' \in Seq(Topics) /\ panic' \in Panics
        /\ currentIndex' \in Nat \cup {NoTab}
    <3>1. CASE t \in DOMAIN subscriptions /\ \E j \in 1 .. Len(list) : list[j] = t
      <4>1. i \in 1 .. Len(list) /\ Len(list) \in Nat
        BY <3>1, PositionFound, LenProperties DEF TypeOK
      <4>2. /\ list' = SwapRemove(list, i)
            /\ panic' = RemovalPanic(i - 1, Len(list))
            /\ \/ currentIndex' = IndexAfterRemoval(i - 1, Len(list))
               \/ currentIndex' = currentIndex
        BY <1>2, <3>1 DEF Unsubscribe
      <4>3. SwapRemove(list, i) \in Seq(Topics)
        BY <4>1, SwapRemoveTab DEF TypeOK, CopiesAgree
      <4>4. i - 1 \in Nat
        BY <4>1
      <4> QED BY <4>1, <4>2, <4>3, <4>4, RemovalType DEF TypeOK
    <3>2. CASE ~(t \in DOMAIN subscriptions /\ \E j \in 1 .. Len(list) : list[j] = t)
      BY <1>2, <3>2 DEF TypeOK, Unsubscribe
    <3> QED BY <3>1, <3>2
  <2>3. mark' \in [Topics -> Nat] /\ mesh' \subseteq Topics
    BY <1>2 DEF TypeOK, Unsubscribe
  <2> QED BY <1>2, <2>1, <2>2, <2>3 DEF TypeOK, Unsubscribe
<1>3. ASSUME NextTab \/ PrevTab PROVE TypeOK'
  <2>1. Len(list) \in Nat
    BY LenProperties DEF TypeOK
  <2>2. currentIndex' \in Nat \cup {NoTab}
    BY <1>3, <2>1 DEF TypeOK, NextTab, PrevTab, WrappingSucc, NoTab
  <2> QED BY <1>3, <2>2 DEF TypeOK, NextTab, PrevTab
<1>4. CASE SendMessage
  <2> DEFINE m == [topic |-> Current, own |-> TRUE, utf8 |-> TRUE, id |-> sent + 1]
  <2>1. m \in Message
    BY <1>4, CurrentIsTab DEF TypeOK, SendMessage, Message
  <2>2. Show(m) /\ outbox' \in {outbox, outbox \cup {m}} /\ sent' = sent + 1
    BY <1>4 DEF SendMessage
  <2> HIDE DEF m
  <2>3. outbox' \subseteq Message /\ sent' \in Nat
    BY <2>1, <2>2 DEF TypeOK
  <2> QED BY <1>4, <2>1, <2>2, <2>3, ShowType DEF TypeOK, SendMessage
<1>5. CASE SendPanics
  BY <1>5 DEF TypeOK, SendPanics, Panics
<1>6. CASE Draw
  BY <1>6 DEF TypeOK, Draw, Panics
<1>7. ASSUME NEW t \in Topics, PeerMessage(t) PROVE TypeOK'
  <2>1. PICK ok \in BOOLEAN :
          inbox' = Append(inbox, [topic |-> t, own |-> FALSE, utf8 |-> ok,
                                  id |-> sent + 1])
    BY <1>7 DEF PeerMessage
  <2>2. [topic |-> t, own |-> FALSE, utf8 |-> ok, id |-> sent + 1] \in Message
    BY DEF TypeOK, Message
  <2>3. inbox' \in Seq(Message) /\ sent' \in Nat
    BY <1>7, <2>1, <2>2 DEF TypeOK, PeerMessage
  <2> QED BY <1>7, <2>3 DEF TypeOK, PeerMessage
<1>8. CASE HandleMessage
  <2>1. Head(inbox) \in Message /\ inbox' \in Seq(Message)
    BY <1>8, HeadTailProperties DEF TypeOK, HandleMessage
  <2>2. CASE Converts(Head(inbox))
    BY <1>8, <2>1, <2>2, ShowType DEF TypeOK, HandleMessage
  <2>3. CASE ~Converts(Head(inbox))
    BY <1>8, <2>1, <2>3 DEF TypeOK, HandleMessage, Panics
  <2> QED BY <2>2, <2>3
<1>9. CASE UNCHANGED vars
  BY <1>9 DEF TypeOK, vars
<1> QED
  BY <1>1, <1>2, <1>3, <1>4, <1>5, <1>6, <1>7, <1>8, <1>9
  DEF Next, SubscribeRefused, UnsubscribeRefused, SendRefused

-----------------------------------------------------------------------------
(* Joining and leaving change the mesh, the histories and the tabs together;
   no other step touches any of them (Chat!CopiesAgree).                   *)
LEMMA CopiesStep == TypeOK /\ CopiesAgree /\ [Next]_vars => CopiesAgree'
<1> SUFFICES ASSUME TypeOK, CopiesAgree, [Next]_vars PROVE CopiesAgree'
  OBVIOUS
<1>1. ASSUME NEW t \in Topics, Subscribe(t) PROVE CopiesAgree'
  <2>1. t \notin Range(list) /\ list \in Seq(Topics) /\ IsInjective(list)
    BY <1>1 DEF Subscribe, CopiesAgree, TypeOK
  <2>2. Range(list') = Range(list) \cup {t} /\ IsInjective(list')
    BY <1>1, <2>1, AppendTab DEF Subscribe
  <2>3. DOMAIN subscriptions' = DOMAIN subscriptions \cup {t}
    BY <1>1 DEF Subscribe
  <2> QED BY <1>1, <2>2, <2>3 DEF Subscribe, CopiesAgree
<1>2. ASSUME NEW t \in Topics, Unsubscribe(t) PROVE CopiesAgree'
  <2> DEFINE i == CHOOSE j \in 1 .. Len(list) : list[j] = t
  <2>1. list \in Seq(Topics) /\ DOMAIN list = 1 .. Len(list) /\ IsInjective(list)
    BY LenProperties DEF TypeOK, CopiesAgree
  <2>2. t \in DOMAIN subscriptions /\ \E j \in 1 .. Len(list) : list[j] = t
    BY <1>2, <2>1 DEF Unsubscribe, CopiesAgree, Range
  <2>3. i \in 1 .. Len(list) /\ list[i] = t
    BY <2>2, PositionFound
  <2>4. list' = SwapRemove(list, i) /\ mesh' = mesh \ {t}
        /\ subscriptions' = Restrict(subscriptions, DOMAIN subscriptions \ {t})
    BY <1>2, <2>2 DEF Unsubscribe
  <2>5. Range(list') = Range(list) \ {t} /\ IsInjective(list')
    BY <2>1, <2>3, <2>4, SwapRemoveTab
  <2>6. DOMAIN subscriptions' = DOMAIN subscriptions \ {t}
    BY <2>4 DEF Restrict
  <2> QED BY <2>4, <2>5, <2>6 DEF CopiesAgree
<1>3. CASE NextTab \/ PrevTab
  BY <1>3 DEF CopiesAgree, NextTab, PrevTab
<1>4. CASE SendMessage
  BY <1>4, CurrentIsTab DEF CopiesAgree, SendMessage, Show
<1>5. CASE SendPanics \/ Draw
  BY <1>5 DEF CopiesAgree, SendPanics, Draw
<1>6. ASSUME NEW t \in Topics, PeerMessage(t) PROVE CopiesAgree'
  BY <1>6 DEF CopiesAgree, PeerMessage
<1>7. CASE HandleMessage
  BY <1>7 DEF CopiesAgree, HandleMessage, Show
<1>8. CASE UNCHANGED vars
  BY <1>8 DEF CopiesAgree, vars
<1> QED
  BY <1>1, <1>2, <1>3, <1>4, <1>5, <1>6, <1>7, <1>8
  DEF Next, SubscribeRefused, UnsubscribeRefused, SendRefused

(* The arithmetic of a removal, with n tabs of which the one at index goes:
   in both profiles None comes out exactly when no tab is left, and where
   overflow is checked the index stays within the shortened row.           *)
LEMMA RemovalSelection ==
  ASSUME NEW n \in Nat \ {0}, NEW index \in 0 .. n - 1, currentIndex \in Nat
  PROVE  /\ IndexAfterRemoval(index, n) = NoTab <=> n = 1
         /\ RemovalPanic(index, n) \notin {"index_none", "no_history"}
         /\ overflowChecks /\ RemovalPanic(index, n) = "none" /\ n # 1
              /\ currentIndex \in 0 .. n - 1
            => IndexAfterRemoval(index, n) \in 0 .. n - 2
<1>1. IndexAfterRemoval(index, n) = NoTab <=> n = 1
  BY UsizeAssumption DEF IndexAfterRemoval, WrappingPred, NoTab
<1>2. currentIndex # NoTab
  BY DEF NoTab
<1>3. RemovalPanic(index, n) \in {"underflow", "none"}
  BY <1>2, Zenon DEF RemovalPanic
<1>4. ASSUME overflowChecks, RemovalPanic(index, n) = "none", n # 1,
             currentIndex \in 0 .. n - 1
      PROVE  IndexAfterRemoval(index, n) \in 0 .. n - 2
  <2>1. ~(currentIndex = 0 /\ index = 0)
    <3>1. n > 1
      BY <1>4
    <3> QED BY <1>2, <1>4, <3>1 DEF RemovalPanic
  <2> QED BY <1>4, <2>1 DEF IndexAfterRemoval, WrappingPred
<1> QED BY <1>1, <1>3, <1>4

Selection == CurrentWithinTabs /\ NeverLosesSelection

(* Every step keeps the selected index valid where overflow is checked, and
   None exactly when there is no tab in every build.                       *)
LEMMA SelectionStep == IInv /\ [Next]_vars => Selection'
<1> SUFFICES ASSUME IInv, [Next]_vars PROVE Selection'
  OBVIOUS
<1> USE DEF Selection
<1>0. /\ TypeOK /\ CopiesAgree /\ CurrentWithinTabs /\ NeverLosesSelection
      /\ list \in Seq(Topics) /\ Len(list) \in Nat
      /\ DOMAIN list = 1 .. Len(list)
      /\ list # << >> => Len(list) \in Nat \ {0}
      /\ currentIndex \in Nat \cup {NoTab}
  BY LenProperties, EmptySeq DEF IInv, TypeOK
<1>1. ASSUME NEW t \in Topics, Subscribe(t) PROVE Selection'
  <2>1. t \notin Range(list) /\ IsInjective(list)
    BY <1>0, <1>1 DEF Subscribe, CopiesAgree
  <2>2. Len(list') = Len(list) + 1 /\ list' # << >>
    <3>1. Len(list') = Len(list) + 1
      BY <1>0, <1>1, <2>1, AppendTab DEF Subscribe
    <3> QED BY <1>0, <3>1, EmptySeq
  <2>3. currentIndex' = Len(list) /\ currentIndex' # NoTab
    BY <1>0, <1>1 DEF Subscribe, NoTab
  <2>4. currentIndex' \in 0 .. Len(list') - 1
    BY <1>0, <2>2, <2>3
  <2> QED BY <1>0, <1>1, <2>2, <2>3, <2>4
       DEF Subscribe, CurrentWithinTabs, NeverLosesSelection, CurrentIsSome
<1>2. ASSUME NEW t \in Topics, Unsubscribe(t) PROVE Selection'
  <2> DEFINE i == CHOOSE j \in 1 .. Len(list) : list[j] = t
             n == Len(list)
  <2>1. t \in DOMAIN subscriptions /\ \E j \in 1 .. n : list[j] = t
    BY <1>0, <1>2 DEF Unsubscribe, CopiesAgree, Range
  <2>2. i \in 1 .. n
    BY <2>1, PositionFound
  <2>3. /\ Running
        /\ overflowChecks' = overflowChecks
        /\ list' = SwapRemove(list, i)
        /\ panic' = RemovalPanic(i - 1, n)
        /\ panic' = "none" => currentIndex' = IndexAfterRemoval(i - 1, n)
    BY <1>2, <2>1, SMTT(30) DEF Unsubscribe
  <2> HIDE DEF i
  <2>4. Len(list') = n - 1 /\ list' \in Seq(Topics)
    BY <1>0, <2>2, <2>3, SwapRemoveTab DEF CopiesAgree
  <2>5. n = Len(list) /\ n \in Nat \ {0} /\ i - 1 \in 0 .. n - 1 /\ list # << >>
    BY <1>0, <2>2
  <2> HIDE DEF n
  <2>6. currentIndex \in Nat
    BY <1>0, <2>3, <2>5 DEF NeverLosesSelection
  <2>7. list' = << >> <=> n = 1
    <3>1. list' = << >> <=> Len(list') = 0
      BY <2>4, EmptySeq
    <3> QED BY <1>0, <2>4, <3>1
  <2>8. NeverLosesSelection'
    BY <2>3, <2>5, <2>6, <2>7, RemovalSelection
    DEF NeverLosesSelection, Running
  <2>9. CurrentWithinTabs'
    <3> SUFFICES ASSUME overflowChecks, panic' = "none", n # 1
                 PROVE  currentIndex' \in 0 .. Len(list') - 1
      BY <2>3, <2>7, <2>8
      DEF CurrentWithinTabs, NeverLosesSelection, Running, CurrentIsSome
    <3>1. currentIndex \in 0 .. n - 1
      BY <1>0, <2>3, <2>5, <2>6 DEF CurrentWithinTabs, CurrentIsSome, NoTab
    <3>2. IndexAfterRemoval(i - 1, n) \in 0 .. n - 2
      BY <2>3, <2>5, <2>6, <3>1, RemovalSelection
    <3>3. currentIndex' = IndexAfterRemoval(i - 1, n)
      BY <2>3
    <3>4. Len(list') - 1 = n - 2
      BY <2>4, <2>5
    <3> QED BY <3>2, <3>3, <3>4
  <2> QED BY <2>8, <2>9
<1>3. CASE NextTab \/ PrevTab
  <2>1. Running /\ Running' /\ overflowChecks' = overflowChecks
        /\ list' = list /\ panic' = panic /\ currentIndex # NoTab
    BY <1>3 DEF NextTab, PrevTab, Running
  <2>2. Len(list) \in Nat \ {0} /\ currentIndex \in Nat /\ list # << >>
    BY <1>0, <2>1 DEF NeverLosesSelection
  <2>3. currentIndex' \in Nat
    BY <1>3, <2>2 DEF NextTab, PrevTab, WrappingSucc
  <2>4. overflowChecks => currentIndex' \in 0 .. Len(list) - 1
    <3>1. overflowChecks => currentIndex \in 0 .. Len(list) - 1
      BY <1>0, <2>1 DEF CurrentWithinTabs, CurrentIsSome
    <3>2. currentIndex \in 0 .. Len(list) - 1
            => currentIndex' \in 0 .. Len(list) - 1
      BY <1>3, <2>2 DEF NextTab, PrevTab, WrappingSucc
    <3> QED BY <3>1, <3>2
  <2>5. currentIndex' # NoTab
    BY <2>3 DEF NoTab
  <2> QED BY <1>0, <2>1, <2>2, <2>4, <2>5
       DEF CurrentWithinTabs, NeverLosesSelection, CurrentIsSome
<1>4. CASE SendMessage
  BY <1>0, <1>4
  DEF SendMessage, CurrentWithinTabs, NeverLosesSelection, CurrentIsSome, Running
<1>5. CASE SendPanics
  BY <1>0, <1>5
  DEF SendPanics, CurrentWithinTabs, NeverLosesSelection, CurrentIsSome, Running
<1>6. CASE Draw
  <2>1. panic' = panic
    BY <1>0, <1>6, CurrentIsTab DEF Draw, CopiesAgree
  <2> QED BY <1>0, <1>6, <2>1
       DEF Draw, CurrentWithinTabs, NeverLosesSelection, CurrentIsSome, Running
<1>7. ASSUME NEW t \in Topics, PeerMessage(t) PROVE Selection'
  BY <1>0, <1>7
  DEF PeerMessage, CurrentWithinTabs, NeverLosesSelection, CurrentIsSome, Running
<1>8. CASE HandleMessage
  BY <1>0, <1>8
  DEF HandleMessage, CurrentWithinTabs, NeverLosesSelection, CurrentIsSome, Running
<1>9. CASE UNCHANGED vars
  BY <1>0, <1>9
  DEF vars, CurrentWithinTabs, NeverLosesSelection, CurrentIsSome, Running
<1> QED
  BY <1>1, <1>2, <1>3, <1>4, <1>5, <1>6, <1>7, <1>8, <1>9
  DEF Next, SubscribeRefused, UnsubscribeRefused, SendRefused

(* The inductive step: every action of the client keeps IInv. *)
THEOREM StepIInv == IInv /\ [Next]_vars => IInv'
BY TypeStep, CopiesStep, SelectionStep DEF IInv, Selection

(* The inductive invariant holds in every reachable state. *)
THEOREM Invariance == Spec => []IInv
<1>1. Init => IInv
  BY InitIInv
<1>2. IInv /\ [Next]_vars => IInv'
  BY StepIInv
<1> QED BY <1>1, <1>2, PTL DEF Spec

-----------------------------------------------------------------------------
(* Every variable stays in its range (Chat!TypeOK). *)
THEOREM TypeCorrect == Spec => []TypeOK
<1>1. IInv => TypeOK
  BY DEF IInv
<1> QED BY <1>1, Invariance, PTL

(* The mesh, the histories and the tabs always hold the same topics. *)
THEOREM CopiesAlwaysAgree == Spec => []CopiesAgree
<1>1. IInv => CopiesAgree
  BY DEF IInv
<1> QED BY <1>1, Invariance, PTL

(* With overflow checked, a client that has not panicked has a valid
   selection exactly when it has tabs.                                     *)
THEOREM SelectionIsValid == Spec => []CurrentWithinTabs
<1>1. IInv => CurrentWithinTabs
  BY DEF IInv
<1> QED BY <1>1, Invariance, PTL

(* In every build the selection is None exactly when there is no tab, and
   neither the "index is None" panic nor the chat panel's unwrap can happen. *)
THEOREM SelectionIsKept == Spec => []NeverLosesSelection
<1>1. IInv => NeverLosesSelection
  BY DEF IInv
<1> QED BY <1>1, Invariance, PTL

-----------------------------------------------------------------------------
(* The message just pushed is the newest of the queue. *)
LEMMA PushLast ==
  ASSUME NEW S, NEW queue \in Seq(S), NEW m \in S
  PROVE  /\ Push(queue, m) # << >>
         /\ Push(queue, m)[Len(Push(queue, m))] = m
<1>1. ASSUME NEW q \in Seq(S)
      PROVE  Append(q, m) # << >> /\ Append(q, m)[Len(Append(q, m))] = m
  <2>1. Len(q) \in Nat /\ Append(q, m) \in Seq(S)
        /\ Len(Append(q, m)) = Len(q) + 1 /\ Append(q, m)[Len(q) + 1] = m
    BY LenProperties
  <2> QED BY <2>1, EmptySeq
<1>2. CASE Len(queue) < HistoryCap
  BY <1>1, <1>2 DEF Push
<1>3. CASE ~(Len(queue) < HistoryCap)
  <2>1. Len(queue) \in Nat /\ HistoryCap \in Nat \ {0}
    BY CapAssumption, LenProperties
  <2>2. Tail(queue) \in Seq(S)
    BY <1>3, <2>1, EmptySeq, HeadTailProperties
  <2> QED BY <1>1, <1>3, <2>2 DEF Push
<1> QED BY <1>2, <1>3

(* Only the Enter handler adds to the outbox, after echoing the message. *)
LEMMA PublishStepHolds == IInv /\ [Next]_vars => PublishStep
<1> SUFFICES ASSUME IInv, [Next]_vars, NEW m \in outbox' \ outbox
             PROVE  /\ m.topic \in mesh /\ CurrentIsSome /\ m.topic = Current
                    /\ subscriptions'[m.topic] # << >>
                    /\ subscriptions'[m.topic][Len(subscriptions'[m.topic])] = m
  BY DEF PublishStep
<1>1. SendMessage
  BY DEF Next, vars, Subscribe, SubscribeRefused, Unsubscribe,
         UnsubscribeRefused, NextTab, PrevTab, SendRefused, SendPanics, Draw,
         PeerMessage, HandleMessage
<1>2. TypeOK /\ CopiesAgree /\ CurrentIsSome /\ Current \in DOMAIN subscriptions
  BY <1>1 DEF IInv, SendMessage
<1>3. m = [topic |-> Current, own |-> TRUE, utf8 |-> TRUE, id |-> sent + 1]
      /\ Show(m)
  BY <1>1 DEF SendMessage
<1>4. m \in Message /\ m.topic = Current
  BY <1>2, <1>3, CurrentIsTab DEF TypeOK, Message
<1>5. subscriptions[m.topic] \in Seq(Message)
  BY <1>2, <1>4 DEF TypeOK
<1>6. subscriptions'[m.topic] = Push(subscriptions[m.topic], m)
  BY <1>2, <1>3, <1>4 DEF Show
<1> QED BY <1>2, <1>4, <1>5, <1>6, PushLast DEF CopiesAgree

(* What is published is of the selected, joined topic and was echoed there. *)
THEOREM PublishIsEchoed == Spec => PublishesToSelected
<1>1. IInv /\ [Next]_vars => PublishStep
  BY PublishStepHolds
<1> QED BY <1>1, Invariance, PTL DEF Spec, PublishesToSelected

(* When unsubscribe removes a tab right of the selected one, swap_remove
   leaves the selected one in place and the index does not move.           *)
LEMMA LeaveStepHolds == IInv /\ [Next]_vars => LeaveStep
<1> SUFFICES ASSUME IInv, [Next]_vars, NEW i \in DOMAIN list,
                    CurrentIsSome, i > currentIndex + 1,
                    mesh' = mesh \ {list[i]}
             PROVE  CurrentIsSome' /\ Current' = Current
  BY DEF LeaveStep
<1> DEFINE n == Len(list)
<1>1. /\ TypeOK /\ CopiesAgree
      /\ list \in Seq(Topics) /\ n \in Nat /\ DOMAIN list = 1 .. n
  BY LenProperties DEF IInv, TypeOK
<1>2. currentIndex \in 0 .. n - 1
  BY DEF CurrentIsSome
<1>3. list[i] \in mesh
  BY <1>1 DEF CopiesAgree, Range
<1>4. PICK t \in Topics : Unsubscribe(t)
  BY <1>3
  DEF Next, vars, Subscribe, SubscribeRefused, Unsubscribe,
      UnsubscribeRefused, NextTab, PrevTab, SendMessage, SendRefused,
      SendPanics, Draw, PeerMessage, HandleMessage
<1>5. t = list[i]
  BY <1>3, <1>4 DEF Unsubscribe
<1>6. t \in DOMAIN subscriptions /\ \E j \in 1 .. n : list[j] = t
  BY <1>1, <1>3, <1>5 DEF CopiesAgree
<1> DEFINE k == CHOOSE j \in 1 .. n : list[j] = t
<1>7. k = i
  <2>1. k \in 1 .. n /\ list[k] = t
    BY <1>6, PositionFound
  <2> QED BY <1>1, <1>5, <2>1 DEF CopiesAgree, IsInjective
<1>8. /\ list' = SwapRemove(list, k)
      /\ panic' = RemovalPanic(k - 1, n)
      /\ panic' = "none" => currentIndex' = IndexAfterRemoval(k - 1, n)
  BY <1>4, <1>6 DEF Unsubscribe
<1> HIDE DEF k
<1>9. n > 1 /\ i - 1 > currentIndex /\ i - 1 # 0 /\ currentIndex # NoTab
  BY <1>1, <1>2 DEF NoTab
<1>10. currentIndex' = currentIndex
  <2>1. RemovalPanic(i - 1, n) = "none"
    BY <1>9 DEF RemovalPanic
  <2>2. IndexAfterRemoval(i - 1, n) = currentIndex
    BY <1>1, <1>2, <1>9 DEF IndexAfterRemoval
  <2> QED BY <1>7, <1>8, <2>1, <2>2
<1>11. Len(list') = n - 1 /\ list'[currentIndex + 1] = list[currentIndex + 1]
  <2>1. Len(list') = n - 1
    BY <1>1, <1>7, <1>8, SwapRemoveTab DEF CopiesAgree
  <2>2. currentIndex + 1 \in 1 .. n - 1 /\ currentIndex + 1 # i
    BY <1>1, <1>2, <1>9
  <2> QED BY <1>7, <1>8, <2>1, <2>2, SMTT(30) DEF SwapRemove
<1>12. currentIndex' \in 0 .. Len(list') - 1
  BY <1>1, <1>2, <1>9, <1>10, <1>11
<1> QED BY <1>10, <1>11, <1>12 DEF Current, CurrentIsSome

(* Leaving a topic to the right of the selected tab keeps the selection. *)
THEOREM LeavingRightIsSafe == Spec => LeavingRightKeepsSelection
<1>1. IInv /\ [Next]_vars => LeaveStep
  BY LeaveStepHolds
<1> QED BY <1>1, Invariance, PTL DEF Spec, LeavingRightKeepsSelection

-----------------------------------------------------------------------------
(* The two branches of CircularQueue::push keep the most recent messages: a
   queue that has room takes the new one in, a full one drops the oldest.  *)
LEMMA PushKeepsRecent ==
  ASSUME NEW S, NEW queue \in Seq(S), NEW s \in Seq(S), NEW m \in S,
         NEW places, places \subseteq 1 .. Len(s), IsRecent(queue, places, s)
  PROVE  IsRecent(Push(queue, m), places \cup {Len(s) + 1}, Append(s, m))
<1>1. PICK n, last \in Nat : n = Len(queue) /\ last = Len(s) + 1
  BY LenProperties
<1>2. n <= HistoryCap /\ HistoryCap \in Nat \ {0} /\ DOMAIN queue = 1 .. n
  BY <1>1, CapAssumption DEF IsRecent
<1>3. PICK f \in [1 .. n -> places] :
        /\ \A k \in 1 .. n : queue[k] = s[f[k]]
        /\ \A j, k \in 1 .. n : j < k => f[j] < f[k]
        /\ \A i \in places :
             \/ \E k \in 1 .. n : i = f[k]
             \/ n = HistoryCap /\ \A k \in 1 .. n : i < f[k]
  BY <1>1, <1>2 DEF IsRecent
<1>4. PICK new \in Seq(S) : new = Append(s, m)
  <2>1. Append(s, m) \in Seq(S)
    OBVIOUS
  <2> QED BY <2>1
<1>5. \A i \in places : i \in Nat /\ i < last /\ new[i] = s[i]
  BY <1>1, <1>4
<1>6. new[last] = m
  BY <1>1, <1>4
<1> DEFINE both == places \cup {last}
<1>7. CASE n < HistoryCap
  <2>1. PICK q \in Seq(S) : q = Append(queue, m)
    <3>1. Append(queue, m) \in Seq(S)
      OBVIOUS
    <3> QED BY <3>1
  <2>2. /\ Push(queue, m) = q /\ Len(q) = n + 1 /\ DOMAIN q = 1 .. n + 1
        /\ \A k \in 1 .. n : q[k] = queue[k]
        /\ q[n + 1] = m
    BY <1>1, <1>7, <2>1 DEF Push
  <2> DEFINE g == [k \in 1 .. n + 1 |-> IF k = n + 1 THEN last ELSE f[k]]
  <2>3. g[n + 1] = last /\ \A k \in 1 .. n : g[k] = f[k] /\ f[k] \in places
    BY <1>3
  <2>4. \A k \in 1 .. n + 1 : k = n + 1 \/ k \in 1 .. n
    OBVIOUS
  <2>5. g \in [DOMAIN q -> both]
    BY <2>2, <2>3, <2>4
  <2> HIDE DEF g
  <2>6. \A k \in 1 .. n + 1 : q[k] = new[g[k]]
    <3> SUFFICES ASSUME NEW k \in 1 .. n + 1 PROVE q[k] = new[g[k]]
      OBVIOUS
    <3>1. CASE k = n + 1
      BY <3>1, <1>6, <2>2, <2>3
    <3>2. CASE k \in 1 .. n
      <4>1. q[k] = queue[k] /\ queue[k] = s[f[k]]
        BY <3>2, <1>3, <2>2
      <4>2. new[f[k]] = s[f[k]]
        BY <3>2, <1>5, <2>3
      <4> QED BY <3>2, <4>1, <4>2, <2>3
    <3> QED BY <2>4, <3>1, <3>2
  <2>7. ASSUME NEW j \in 1 .. n + 1, NEW k \in 1 .. n + 1, j < k PROVE g[j] < g[k]
    <3>1. j \in 1 .. n
      BY <2>7
    <3>2. CASE k = n + 1
      BY <3>1, <3>2, <1>5, <2>3
    <3>3. CASE k \in 1 .. n
      BY <3>1, <3>3, <1>3, <2>3, <2>7
    <3> QED BY <2>4, <3>2, <3>3
  <2>8. \A i \in both : \E k \in 1 .. n + 1 : i = g[k]
    <3> SUFFICES ASSUME NEW i \in both PROVE \E k \in 1 .. n + 1 : i = g[k]
      OBVIOUS
    <3>1. CASE i = last
      <4>1. n + 1 \in 1 .. n + 1
        OBVIOUS
      <4> QED BY <3>1, <4>1, <2>3
    <3>2. CASE i \in places
      <4>1. PICK k \in 1 .. n : i = f[k]
        BY <3>2, <1>3, <1>7
      <4>2. k \in 1 .. n + 1
        OBVIOUS
      <4> QED BY <4>1, <4>2, <2>3
    <3> QED BY <3>1, <3>2
  <2>9. Len(q) <= HistoryCap
    BY <1>2, <1>7, <2>2
  <2>10. /\ g \in [DOMAIN q -> both]
         /\ \A k \in DOMAIN q : q[k] = new[g[k]]
         /\ \A j, k \in DOMAIN q : j < k => g[j] < g[k]
         /\ \A i \in both : \E k \in DOMAIN q : i = g[k]
    BY <2>2, <2>5, <2>6, <2>7, <2>8
  <2>11. IsRecent(q, both, new)
    BY <2>9, <2>10 DEF IsRecent
  <2> QED BY <1>1, <1>4, <2>2, <2>11
<1>8. CASE n = HistoryCap
  <2>1. queue # << >> /\ n \in Nat \ {0}
    BY <1>1, <1>2, <1>8
  <2>2. PICK rest \in Seq(S) : rest = Tail(queue)
    <3>1. Tail(queue) \in Seq(S)
      BY <2>1
    <3> QED BY <3>1
  <2>3. Len(rest) = n - 1 /\ \A k \in 1 .. n - 1 : rest[k] = queue[k + 1]
    BY <1>1, <2>1, <2>2
  <2>4. PICK q \in Seq(S) : q = Append(rest, m)
    <3>1. Append(rest, m) \in Seq(S)
      OBVIOUS
    <3> QED BY <3>1
  <2>5. /\ Push(queue, m) = q /\ Len(q) = n /\ DOMAIN q = 1 .. n
        /\ \A k \in 1 .. n - 1 : q[k] = rest[k]
        /\ q[n] = m
    <3>1. Push(queue, m) = q
      BY <1>1, <1>8, <2>2, <2>4 DEF Push
    <3>2. Len(q) = n - 1 + 1 /\ q[n - 1 + 1] = m /\ \A k \in 1 .. n - 1 : q[k] = rest[k]
      BY <2>3, <2>4
    <3>3. n - 1 + 1 = n
      BY <2>1
    <3>4. Len(q) = n /\ q[n] = m
      BY <3>2, <3>3
    <3> QED BY <3>1, <3>2, <3>4
  <2> DEFINE g == [k \in 1 .. n |-> IF k = n THEN last ELSE f[k + 1]]
  <2>6. \A k \in 1 .. n : k = n \/ (k \in 1 .. n - 1 /\ k + 1 \in 1 .. n)
    BY <2>1
  <2>7. n \in 1 .. n /\ g[n] = last
    BY <2>1
  <2>8. \A k \in 1 .. n - 1 : k \in 1 .. n /\ g[k] = f[k + 1] /\ f[k + 1] \in places
    BY <1>3, <2>1
  <2>9. g \in [DOMAIN q -> both]
    BY <2>5, <2>6, <2>7, <2>8
  <2> HIDE DEF g
  <2>10. \A k \in 1 .. n : q[k] = new[g[k]]
    <3> SUFFICES ASSUME NEW k \in 1 .. n PROVE q[k] = new[g[k]]
      OBVIOUS
    <3>1. CASE k = n
      BY <3>1, <1>6, <2>5, <2>7
    <3>2. CASE k \in 1 .. n - 1 /\ k + 1 \in 1 .. n
      <4>1. q[k] = queue[k + 1]
        BY <3>2, <2>3, <2>5
      <4>2. queue[k + 1] = s[f[k + 1]]
        BY <3>2, <1>3
      <4>3. new[f[k + 1]] = s[f[k + 1]]
        BY <3>2, <2>8, <1>5
      <4> QED BY <3>2, <4>1, <4>2, <4>3, <2>8
    <3> QED BY <2>6, <3>1, <3>2
  <2>11. ASSUME NEW j \in 1 .. n, NEW k \in 1 .. n, j < k PROVE g[j] < g[k]
    <3>1. j \in 1 .. n - 1 /\ j + 1 \in 1 .. n
      BY <2>6, <2>11
    <3>2. CASE k = n
      <4>1. g[j] = f[j + 1] /\ f[j + 1] \in places
        BY <3>1, <2>8
      <4> QED BY <3>2, <4>1, <1>5, <2>7
    <3>3. CASE k \in 1 .. n - 1 /\ k + 1 \in 1 .. n
      <4>1. g[j] = f[j + 1] /\ g[k] = f[k + 1]
        BY <3>1, <3>3, <2>8
      <4>2. j + 1 < k + 1
        BY <2>11
      <4>3. f[j + 1] < f[k + 1]
        BY <3>1, <3>3, <4>2, <1>3
      <4> QED BY <4>1, <4>3
    <3> QED BY <2>6, <3>2, <3>3
  <2>12. ASSUME NEW i \in both
         PROVE  (\E k \in 1 .. n : i = g[k]) \/ (\A k \in 1 .. n : i < g[k])
    <3>1. CASE i = last
      BY <3>1, <2>7
    <3>2. CASE \E k \in 1 .. n : i = f[k]
      <4>1. PICK k \in 1 .. n : i = f[k]
        BY <3>2
      <4>2. CASE k = 1
        <5>1. ASSUME NEW j \in 1 .. n PROVE i < g[j]
          <6>1. CASE j = n
            <7>1. i \in places
              BY <4>1, <1>3
            <7> QED BY <6>1, <7>1, <1>5, <2>7
          <6>2. CASE j \in 1 .. n - 1 /\ j + 1 \in 1 .. n
            <7>1. 1 \in 1 .. n /\ 1 < j + 1
              BY <6>2, <2>1
            <7>2. f[1] < f[j + 1]
              BY <7>1, <6>2, <1>3
            <7> QED BY <7>2, <4>1, <4>2, <6>2, <2>8
          <6> QED BY <2>6, <6>1, <6>2
        <5> QED BY <5>1
      <4>3. CASE k # 1
        <5>1. PICK j : j = k - 1
          OBVIOUS
        <5>2. j \in 1 .. n - 1 /\ j + 1 = k
          BY <4>3, <5>1
        <5>3. j \in 1 .. n /\ g[j] = i
          BY <4>1, <5>2, <2>8
        <5> QED BY <5>3
      <4> QED BY <4>2, <4>3
    <3>3. CASE i \in places /\ \A k \in 1 .. n : i < f[k]
      <4>1. ASSUME NEW j \in 1 .. n PROVE i < g[j]
        <5>1. CASE j = n
          BY <5>1, <3>3, <1>5, <2>7
        <5>2. CASE j \in 1 .. n - 1 /\ j + 1 \in 1 .. n
          BY <5>2, <3>3, <2>8
        <5> QED BY <2>6, <5>1, <5>2
      <4> QED BY <4>1
    <3> QED BY <3>1, <3>2, <3>3, <1>3
  <2>13. Len(q) = HistoryCap
    BY <1>8, <2>5
  <2> QED BY <1>1, <1>2, <1>4, <2>5, <2>9, <2>10, <2>11, <2>12, <2>13 DEF IsRecent
<1> QED BY <1>1, <1>2, <1>7, <1>8

(* A topic was joined at a place the journal has reached. *)
Marks == \A t \in Topics : mark[t] <= Len(journal)

(* Showing a message adds it to the history of its topic and to no other. *)
LEMMA ShowKeepsRecent ==
  ASSUME TypeOK, Marks, PanelIsRecentHistory, NEW m \in Message, Show(m), UNCHANGED mark
  PROVE  PanelIsRecentHistory' /\ Marks'
<1>1. PICK s \in Seq(Message) : s = journal
  BY DEF TypeOK
<1>2. /\ journal' = Append(s, m) /\ Len(journal') = Len(s) + 1 /\ Len(s) \in Nat
      /\ \A i \in 1 .. Len(s) : journal'[i] = s[i]
      /\ journal'[Len(s) + 1] = m
  BY <1>1 DEF Show
<1>3. DOMAIN subscriptions' = DOMAIN subscriptions /\ DOMAIN subscriptions \subseteq Topics
  BY ShowType DEF TypeOK
<1>4. \A t \in Topics : mark'[t] = mark[t] /\ mark[t] \in Nat /\ mark[t] <= Len(s)
  BY <1>1 DEF TypeOK, Marks
<1>5. Marks'
  BY <1>2, <1>4 DEF Marks
<1>6. ASSUME NEW t \in DOMAIN subscriptions
      PROVE  IsRecent(subscriptions'[t], Handled(t)', journal')
  <2>1. PICK n \in Nat : n = mark[t] /\ n <= Len(s) /\ mark'[t] = n
    BY <1>3, <1>4
  <2>2. PICK places : places = Handled(t)
    OBVIOUS
  <2>3. places = {i \in n + 1 .. Len(s) : s[i].topic = t} /\ places \subseteq 1 .. Len(s)
    BY <1>1, <2>1, <2>2 DEF Handled
  <2>4. PICK queue \in Seq(Message) : queue = subscriptions[t]
    BY DEF TypeOK
  <2>5. IsRecent(queue, places, s)
    BY <1>1, <2>2, <2>4 DEF PanelIsRecentHistory
  <2>6. Handled(t)' = {i \in n + 1 .. Len(s) + 1 : journal'[i].topic = t}
    BY <1>2, <2>1 DEF Handled
  <2>7. CASE m.topic = t
    <3>1. subscriptions'[t] = Push(queue, m)
      BY <2>4, <2>7 DEF Show, TypeOK
    <3>2. Handled(t)' = places \cup {Len(s) + 1}
      BY <1>2, <2>1, <2>3, <2>6, <2>7
    <3>3. IsRecent(Push(queue, m), places \cup {Len(s) + 1}, Append(s, m))
      BY <2>3, <2>5, PushKeepsRecent
    <3> QED BY <1>2, <3>1, <3>2, <3>3
  <2>8. CASE m.topic # t
    <3>1. subscriptions'[t] = queue
      BY <2>4, <2>8 DEF Show, TypeOK
    <3>2. Handled(t)' = places
      BY <1>2, <2>1, <2>3, <2>6, <2>8
    <3>3. PICK f \in [DOMAIN queue -> places] :
            /\ \A k \in DOMAIN queue : queue[k] = s[f[k]]
            /\ \A j, k \in DOMAIN queue : j < k => f[j] < f[k]
            /\ \A i \in places :
                 \/ \E k \in DOMAIN queue : i = f[k]
                 \/ Len(queue) = HistoryCap /\ \A k \in DOMAIN queue : i < f[k]
      BY <2>5 DEF IsRecent
    <3>4. \A k \in DOMAIN queue : queue[k] = journal'[f[k]]
      <4> SUFFICES ASSUME NEW k \in DOMAIN queue PROVE queue[k] = journal'[f[k]]
        OBVIOUS
      <4>1. f[k] \in 1 .. Len(s)
        BY <2>3, <3>3
      <4> QED BY <4>1, <1>2, <3>3
    <3>5. Len(queue) <= HistoryCap
      BY <2>5 DEF IsRecent
    <3>6. IsRecent(queue, places, journal')
      BY <3>3, <3>4, <3>5 DEF IsRecent
    <3> QED BY <3>1, <3>2, <3>6
  <2> QED BY <2>7, <2>8
<1> QED BY <1>3, <1>5, <1>6 DEF PanelIsRecentHistory

(* Histories of which neither the queue nor the topic's mark changes stay
   recent while the journal does.                                          *)
LEMMA HistoryStays ==
  ASSUME PanelIsRecentHistory, UNCHANGED journal, NEW t \in DOMAIN subscriptions,
         subscriptions'[t] = subscriptions[t], mark'[t] = mark[t]
  PROVE  IsRecent(subscriptions'[t], Handled(t)', journal')
<1>1. Handled(t)' = Handled(t)
  BY DEF Handled
<1>2. IsRecent(subscriptions[t], Handled(t), journal)
  BY DEF PanelIsRecentHistory
<1> QED BY <1>1, <1>2

(* Every step preserves what the panels show. *)
LEMMA PanelStep ==
  IInv /\ Marks /\ PanelIsRecentHistory /\ [Next]_vars => (PanelIsRecentHistory /\ Marks)'
<1> SUFFICES ASSUME IInv, Marks, PanelIsRecentHistory, [Next]_vars
             PROVE  PanelIsRecentHistory' /\ Marks'
  OBVIOUS
<1>1. TypeOK /\ CopiesAgree
  BY DEF IInv
<1>2. ASSUME UNCHANGED <<subscriptions, journal, mark>>
      PROVE  PanelIsRecentHistory' /\ Marks'
  BY <1>2 DEF PanelIsRecentHistory, Marks, Handled
<1>3. ASSUME NEW t \in Topics, Subscribe(t) PROVE PanelIsRecentHistory' /\ Marks'
  <2>1. /\ UNCHANGED journal /\ DOMAIN subscriptions' = DOMAIN subscriptions \cup {t}
        /\ subscriptions'[t] = << >>
        /\ mark'[t] = Len(journal) /\ Len(journal) \in Nat
        /\ t \notin DOMAIN subscriptions
    BY <1>1, <1>3 DEF Subscribe, TypeOK, CopiesAgree
  <2>2. \A u \in DOMAIN subscriptions :
          subscriptions'[u] = subscriptions[u] /\ mark'[u] = mark[u]
    BY <1>1, <1>3, <2>1 DEF Subscribe, TypeOK
  <2>3. \A u \in DOMAIN subscriptions :
          IsRecent(subscriptions'[u], Handled(u)', journal')
    BY <2>1, <2>2, HistoryStays
  <2>4. IsRecent(subscriptions'[t], Handled(t)', journal')
    <3>1. Handled(t)' = {}
      BY <2>1 DEF Handled
    <3>2. Len(<< >>) = 0 /\ DOMAIN << >> = {} /\ 0 <= HistoryCap
      BY CapAssumption
    <3>3. IsRecent(<< >>, {}, journal)
      <4>1. PICK queue : queue = << >> /\ Len(queue) = 0 /\ DOMAIN queue = {}
        BY <3>2
      <4>2. [k \in {} |-> k] \in [DOMAIN queue -> {}]
        BY <4>1
      <4>3. \E f \in [DOMAIN queue -> {}] : TRUE
        BY <4>2
      <4>4. IsRecent(queue, {}, journal)
        BY <3>2, <4>1, <4>3, Zenon DEF IsRecent
      <4> QED BY <4>1, <4>4
    <3> QED BY <2>1, <3>1, <3>3
  <2>5. Marks'
    BY <1>1, <1>3 DEF Subscribe, Marks, TypeOK
  <2> QED BY <2>1, <2>3, <2>4, <2>5 DEF PanelIsRecentHistory
<1>4. ASSUME NEW t \in Topics, Unsubscribe(t) PROVE PanelIsRecentHistory' /\ Marks'
  <2>1. /\ UNCHANGED journal /\ Len(journal) \in Nat
        /\ subscriptions' = Restrict(subscriptions, DOMAIN subscriptions \ {t})
        /\ mark' = [mark EXCEPT ![t] = 0]
    BY <1>1, <1>4 DEF Unsubscribe, TypeOK, CopiesAgree
  <2>2. /\ DOMAIN subscriptions' = DOMAIN subscriptions \ {t}
        /\ \A u \in DOMAIN subscriptions' :
             subscriptions'[u] = subscriptions[u] /\ mark'[u] = mark[u]
    BY <1>1, <2>1 DEF Restrict, TypeOK
  <2>3. \A u \in DOMAIN subscriptions' :
          IsRecent(subscriptions'[u], Handled(u)', journal')
    BY <2>1, <2>2, HistoryStays
  <2>4. Marks'
    BY <1>1, <2>1 DEF Marks, TypeOK
  <2> QED BY <2>3, <2>4 DEF PanelIsRecentHistory
<1>5. ASSUME SendMessage PROVE PanelIsRecentHistory' /\ Marks'
  <2>1. Current \in Topics
    BY <1>1, <1>5, CurrentIsTab DEF SendMessage
  <2>2. PICK m \in Message : Show(m)
    <3>1. [topic |-> Current, own |-> TRUE, utf8 |-> TRUE, id |-> sent + 1] \in Message
      BY <1>1, <2>1 DEF Message, TypeOK
    <3> QED BY <1>5, <3>1 DEF SendMessage
  <2>3. UNCHANGED mark
    BY <1>5 DEF SendMessage
  <2> QED BY <1>1, <2>2, <2>3, ShowKeepsRecent
<1>6. ASSUME HandleMessage PROVE PanelIsRecentHistory' /\ Marks'
  <2>1. UNCHANGED mark
    BY <1>6 DEF HandleMessage
  <2>2. CASE Converts(Head(inbox))
    <3>1. PICK m : m = Head(inbox)
      OBVIOUS
    <3>2. m \in Message
      BY <1>1, <1>6, <3>1, HeadTailProperties DEF HandleMessage, TypeOK
    <3>3. Show(m)
      BY <1>6, <2>2, <3>1 DEF HandleMessage
    <3> QED BY <1>1, <2>1, <3>2, <3>3, ShowKeepsRecent
  <2>3. CASE ~Converts(Head(inbox))
    BY <1>2, <1>6, <2>1, <2>3 DEF HandleMessage
  <2> QED BY <2>2, <2>3
<1> QED BY <1>2, <1>3, <1>4, <1>5, <1>6
    DEF Next, vars, SubscribeRefused, UnsubscribeRefused, NextTab, PrevTab,
        SendRefused, SendPanics, Draw, PeerMessage

(* For every capacity and any order of joining, leaving, receiving and
   sending, a tab shows the most recent messages handled since its topic was
   joined, in order, and leaves none out before it is full
   (Subscriptions::add_message, CircularQueue::push).                      *)
THEOREM PanelShowsRecent == Spec => []PanelIsRecentHistory
<1>1. Init => PanelIsRecentHistory /\ Marks
  <2> SUFFICES ASSUME Init PROVE PanelIsRecentHistory /\ Marks
    OBVIOUS
  <2>1. DOMAIN subscriptions = {} /\ Len(journal) = 0 /\ \A t \in Topics : mark[t] = 0
    BY DEF Init
  <2> QED BY <2>1 DEF PanelIsRecentHistory, Marks
<1>2. IInv /\ (PanelIsRecentHistory /\ Marks) /\ [Next]_vars => (PanelIsRecentHistory /\ Marks)'
  BY PanelStep
<1> QED BY <1>1, <1>2, Invariance, PTL DEF Spec

=============================================================================
