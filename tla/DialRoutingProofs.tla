-------------------------- MODULE DialRoutingProofs --------------------------
(***************************************************************************)
(* Proofs about DialRouting, for every set of components, addresses and    *)
(* proxies that satisfies its assumptions.                                 *)
(***************************************************************************)
EXTENDS DialRouting, NaturalsInduction, WellFoundedInduction, SequenceTheorems, TLAPS

(* A set of numbers that is not empty has a least one. *)
LEMMA Least ==
  ASSUME NEW T \in SUBSET Nat, T # {}
  PROVE  \E x \in T : \A y \in T : x <= y
<1> DEFINE R == OpToRel(<, Nat)
<1>1. IsWellFoundedOn(R, Nat)
  BY NatLessThanWellFounded
<1>2. PICK x \in T : \A y \in T : ~(<<y, x>> \in R)
  BY <1>1, WFMin
<1>3. ASSUME NEW y \in T PROVE x <= y
  <2>1. ~(<<y, x>> \in R)
    BY <1>2
  <2>2. ~(y < x)
    BY <2>1 DEF OpToRel
  <2> QED BY <2>2
<1> QED BY <1>3

(* Position gives the first component whose protocol is one of ps. *)
LEMMA First ==
  ASSUME NEW S, NEW a \in Seq(S), NEW ps, Has(a, ps)
  PROVE  /\ Position(a, ps) \in 1 .. Len(a)
         /\ Get(a, ps) = a[Position(a, ps)]
         /\ a[Position(a, ps)].p \in ps
         /\ \A j \in 1 .. Position(a, ps) - 1 : a[j].p \notin ps
<1>1. PICK i \in 1 .. Len(a) : a[i].p \in ps
  BY DEF Has
<1> DEFINE T == {j \in 1 .. Len(a) : a[j].p \in ps}
<1>2. PICK n \in T : \A m \in T : n <= m
  <2>1. T \in SUBSET Nat /\ T # {}
    BY <1>1
  <2> HIDE DEF T
  <2> QED BY <2>1, Least
<1>3. n \in DOMAIN a /\ a[n].p \in ps /\ \A j \in 1 .. n - 1 : a[j].p \notin ps
  BY <1>2
<1>4. /\ Position(a, ps) \in DOMAIN a
      /\ a[Position(a, ps)].p \in ps
      /\ \A j \in 1 .. Position(a, ps) - 1 : a[j].p \notin ps
  BY <1>3, Zenon DEF Position
<1> QED BY <1>4 DEF Get

(* A component of which none comes before is the one Get gives. *)
LEMMA FirstIs ==
  ASSUME NEW S, NEW a \in Seq(S), NEW ps, NEW i \in 1 .. Len(a),
         a[i].p \in ps, \A j \in 1 .. i - 1 : a[j].p \notin ps
  PROVE  Has(a, ps) /\ Position(a, ps) = i /\ Get(a, ps) = a[i]
<1>1. Has(a, ps)
  BY DEF Has
<1>2. PICK q : q = Position(a, ps)
  OBVIOUS
<1>3. /\ q \in 1 .. Len(a)
      /\ Get(a, ps) = a[q]
      /\ a[q].p \in ps
      /\ \A j \in 1 .. q - 1 : a[j].p \notin ps
  BY <1>1, <1>2, First
<1>4. q = i
  BY <1>3
<1> QED BY <1>1, <1>2, <1>3, <1>4

(* Where there is only one, it is the one Get gives. *)
LEMMA OnlyOne ==
  ASSUME NEW S, NEW a \in Seq(S), NEW ps, NEW i \in 1 .. Len(a), a[i].p \in ps,
         \A j \in 1 .. Len(a) : a[j].p \in ps => j = i
  PROVE  Has(a, ps) /\ Get(a, ps) = a[i]
BY FirstIs

(* A component added at the end is found if there was none before; what was
   found before is still found.                                            *)
LEMMA Appended ==
  ASSUME NEW S, NEW a \in Seq(S), NEW c \in S, NEW ps
  PROVE  /\ Append(a, c) \in Seq(S)
         /\ Has(Append(a, c), ps) <=> Has(a, ps) \/ c.p \in ps
         /\ Has(a, ps) => Get(Append(a, c), ps) = Get(a, ps)
         /\ ~Has(a, ps) /\ c.p \in ps =>
              /\ Position(Append(a, c), ps) = Len(a) + 1
              /\ Get(Append(a, c), ps) = c
<1> DEFINE b == Append(a, c)
<1>1. /\ b \in Seq(S)
      /\ Len(b) = Len(a) + 1
      /\ \A i \in 1 .. Len(a) : b[i] = a[i]
      /\ b[Len(a) + 1] = c
      /\ Len(a) \in Nat
  BY AppendProperties
<1> HIDE DEF b
<1>2. Has(b, ps) <=> Has(a, ps) \/ c.p \in ps
  <2>1. Has(b, ps) => Has(a, ps) \/ c.p \in ps
    BY <1>1 DEF Has
  <2>2. Has(a, ps) => Has(b, ps)
    BY <1>1 DEF Has
  <2>3. c.p \in ps => Has(b, ps)
    <3>1. Len(a) + 1 \in DOMAIN b
      BY <1>1
    <3> QED BY <3>1, <1>1 DEF Has
  <2> QED BY <2>1, <2>2, <2>3
<1>3. ASSUME Has(a, ps) PROVE Get(b, ps) = Get(a, ps)
  <2>1. PICK q \in 1 .. Len(a) : /\ Get(a, ps) = a[q]
                                /\ a[q].p \in ps
                                /\ \A j \in 1 .. q - 1 : a[j].p \notin ps
    BY <1>3, First
  <2>2. q \in 1 .. Len(b) /\ b[q].p \in ps /\ \A j \in 1 .. q - 1 : b[j].p \notin ps
    BY <2>1, <1>1
  <2>3. Get(b, ps) = b[q]
    BY <2>2, <1>1, FirstIs
  <2> QED BY <2>1, <2>3, <1>1
<1>4. ASSUME ~Has(a, ps), c.p \in ps
      PROVE  Position(b, ps) = Len(a) + 1 /\ Get(b, ps) = c
  <2>1. \A j \in 1 .. Len(a) : a[j].p \notin ps
    BY <1>4 DEF Has
  <2>2. PICK q : q = Len(a) + 1
    OBVIOUS
  <2>3. q \in 1 .. Len(b) /\ b[q].p \in ps /\ \A j \in 1 .. q - 1 : b[j].p \notin ps
    BY <1>1, <1>4, <2>1, <2>2
  <2>4. Position(b, ps) = q /\ Get(b, ps) = b[q]
    BY <2>3, <1>1, FirstIs
  <2> QED BY <2>2, <2>4, <1>1
<1> QED BY <1>1, <1>2, <1>3, <1>4 DEF b

(* r is a with new in the place of its q-th component. *)
Spliced(r, a, q, new) ==
  /\ Len(r) = Len(a) - 1 + Len(new)
  /\ \A k \in 1 .. q - 1 : r[k] = a[k]
  /\ \A k \in q .. q + Len(new) - 1 : r[k] = new[k - q + 1]
  /\ \A k \in q + Len(new) .. Len(r) : r[k] = a[k - Len(new) + 1]

(* Replace puts new where the first component of ps was. *)
LEMMA ReplaceShape ==
  ASSUME NEW S, NEW a \in Seq(S), NEW new \in Seq(S), NEW ps, Has(a, ps)
  PROVE  /\ Replace(a, ps, new) \in Seq(S)
         /\ Spliced(Replace(a, ps, new), a, Position(a, ps), new)
<1> DEFINE q == Position(a, ps)
           r == Replace(a, ps, new)
<1>1. q \in 1 .. Len(a) /\ Len(a) \in Nat /\ Len(new) \in Nat
  BY First
<1> DEFINE front == SubSeq(a, 1, q - 1)
           back  == SubSeq(a, q + 1, Len(a))
<1>2. /\ front \in Seq(S) /\ Len(front) = q - 1
      /\ \A k \in 1 .. q - 1 : front[k] = a[k]
  BY <1>1
<1>3. /\ back \in Seq(S) /\ Len(back) = Len(a) - q
      /\ \A k \in 1 .. Len(a) - q : back[k] = a[q + k]
  BY <1>1
<1>4. r = (front \o new) \o back
  BY DEF Replace
<1> HIDE DEF front, back, q, r
<1> DEFINE both == front \o new
<1>5. /\ both \in Seq(S) /\ Len(both) = q - 1 + Len(new)
      /\ \A k \in 1 .. Len(both) :
           both[k] = IF k <= Len(front) THEN front[k] ELSE new[k - Len(front)]
  <2>1. /\ front \o new \in Seq(S) /\ Len(front \o new) = Len(front) + Len(new)
        /\ \A k \in 1 .. Len(front) + Len(new) :
             (front \o new)[k] = IF k <= Len(front) THEN front[k] ELSE new[k - Len(front)]
    BY <1>2, ConcatProperties
  <2> QED BY <2>1, <1>1, <1>2
<1>6. r = both \o back
  BY <1>4
<1> HIDE DEF both
<1>7. /\ r \in Seq(S) /\ Len(r) = Len(both) + Len(back)
      /\ \A k \in 1 .. Len(r) :
           r[k] = IF k <= Len(both) THEN both[k] ELSE back[k - Len(both)]
  <2>1. both \in Seq(S) /\ back \in Seq(S)
    BY <1>3, <1>5
  <2>2. /\ both \o back \in Seq(S) /\ Len(both \o back) = Len(both) + Len(back)
        /\ \A k \in 1 .. Len(both) + Len(back) :
             (both \o back)[k] = IF k <= Len(both) THEN both[k] ELSE back[k - Len(both)]
    BY <2>1, ConcatProperties
  <2> QED BY <2>2, <1>6
<1>8. Len(r) = Len(a) - 1 + Len(new)
  BY <1>7, <1>5, <1>3, <1>1
<1>9. \A k \in 1 .. q - 1 : r[k] = a[k]
  <2> TAKE k \in 1 .. q - 1
  <2>1. k \in 1 .. Len(r) /\ k <= Len(both) /\ k \in 1 .. Len(both) /\ k <= Len(front)
    BY <1>8, <1>5, <1>2, <1>1
  <2>2. r[k] = front[k]
    BY <2>1, <1>7, <1>5
  <2> QED BY <2>2, <1>2
<1>10. \A k \in q .. q + Len(new) - 1 : r[k] = new[k - q + 1]
  <2> TAKE k \in q .. q + Len(new) - 1
  <2>1. k \in 1 .. Len(r) /\ k <= Len(both) /\ k \in 1 .. Len(both) /\ ~(k <= Len(front))
    BY <1>8, <1>5, <1>2, <1>1
  <2>2. r[k] = new[k - Len(front)]
    BY <2>1, <1>7, <1>5
  <2>3. k - Len(front) = k - q + 1
    BY <1>2, <1>1
  <2> QED BY <2>2, <2>3
<1>11. \A k \in q + Len(new) .. Len(r) : r[k] = a[k - Len(new) + 1]
  <2> TAKE k \in q + Len(new) .. Len(r)
  <2>1. k \in 1 .. Len(r) /\ ~(k <= Len(both))
    BY <1>8, <1>5, <1>1
  <2>2. r[k] = back[k - Len(both)]
    BY <2>1, <1>7
  <2>3. PICK m : m = k - Len(both)
    OBVIOUS
  <2>4. m \in 1 .. Len(a) - q /\ q + m = k - Len(new) + 1
    <3>1. PICK la, ln, lb : la = Len(a) /\ ln = Len(new) /\ lb = Len(both)
      OBVIOUS
    <3>2. la \in Nat /\ ln \in Nat /\ q \in 1 .. la /\ lb = q - 1 + ln
      BY <3>1, <1>1, <1>5
    <3>3. k \in q + ln .. la - 1 + ln /\ m = k - lb
      BY <3>1, <2>3, <1>8
    <3>4. m = k - q + 1 - ln
      BY <3>2, <3>3
    <3>5. k \in Int /\ q \in Int /\ ln \in Int /\ la \in Int /\ m \in Int
      BY <3>2, <3>3, <3>4
    <3>6. q + ln <= k /\ k <= la - 1 + ln
      BY <3>2, <3>3
    <3>7. 1 <= m /\ m <= la - q
      BY <3>4, <3>5, <3>6
    <3>8. q + m = k - ln + 1
      BY <3>4, <3>5
    <3> QED BY <3>1, <3>5, <3>7, <3>8
  <2>5. back[m] = a[q + m]
    BY <2>4, <1>3
  <2> QED BY <2>2, <2>3, <2>4, <2>5
<1> QED BY <1>7, <1>8, <1>9, <1>10, <1>11 DEF Spliced, q, r

(* Replacing one component by others leaves the rest to be found as before. *)
LEMMA ReplaceKeeps ==
  ASSUME NEW S, NEW a \in Seq(S), NEW new \in Seq(S), NEW ps, Has(a, ps),
         NEW r, r = Replace(a, ps, new),
         NEW qs, ps \cap qs = {}, \A k \in 1 .. Len(new) : new[k].p \notin qs
  PROVE  /\ Has(r, qs) <=> Has(a, qs)
         /\ Has(a, qs) => Get(r, qs) = Get(a, qs)
<1>1. PICK q : q = Position(a, ps)
  OBVIOUS
<1>2. PICK la, ln, lr : la = Len(a) /\ ln = Len(new) /\ lr = Len(r)
  OBVIOUS
<1>3. q \in 1 .. la /\ la \in Nat /\ ln \in Nat /\ a[q].p \in ps
  BY <1>1, <1>2, First
<1>4. /\ r \in Seq(S) /\ lr = la - 1 + ln
      /\ \A k \in 1 .. q - 1 : r[k] = a[k]
      /\ \A k \in q .. q + ln - 1 : r[k] = new[k - q + 1]
      /\ \A k \in q + ln .. lr : r[k] = a[k - ln + 1]
  <2>1. /\ r \in Seq(S) /\ Len(r) = Len(a) - 1 + Len(new)
        /\ \A k \in 1 .. q - 1 : r[k] = a[k]
        /\ \A k \in q .. q + Len(new) - 1 : r[k] = new[k - q + 1]
        /\ \A k \in q + Len(new) .. Len(r) : r[k] = a[k - Len(new) + 1]
    <3>1. r \in Seq(S) /\ Spliced(r, a, q, new)
      BY <1>1, ReplaceShape
    <3> QED BY <3>1 DEF Spliced
  <2> QED BY <2>1, <1>2
<1>5. \A k \in q .. q + ln - 1 : r[k].p \notin qs
  <2> TAKE k \in q .. q + ln - 1
  <2>1. k - q + 1 \in 1 .. ln
    BY <1>3
  <2> QED BY <2>1, <1>2, <1>4
<1>6. ASSUME NEW k \in 1 .. lr, r[k].p \in qs PROVE Has(a, qs)
  <2>1. k \in 1 .. q - 1 \/ k \in q .. q + ln - 1 \/ k \in q + ln .. lr
    BY <1>3, <1>4
  <2>2. CASE k \in 1 .. q - 1
    <3>1. k \in 1 .. la /\ a[k].p \in qs
      BY <2>2, <1>3, <1>4, <1>6
    <3> QED BY <3>1, <1>2 DEF Has
  <2>3. CASE k \in q + ln .. lr
    <3>1. PICK m : m = k - ln + 1
      OBVIOUS
    <3>2. m \in 1 .. la
      BY <3>1, <2>3, <1>3, <1>4
    <3>3. a[m].p \in qs
      BY <3>1, <2>3, <1>4, <1>6
    <3> QED BY <3>2, <3>3, <1>2 DEF Has
  <2> QED BY <2>1, <2>2, <2>3, <1>5, <1>6
<1>7. ASSUME Has(a, qs) PROVE Has(r, qs) /\ Get(r, qs) = Get(a, qs)
  <2>1. PICK i : i = Position(a, qs)
    OBVIOUS
  <2>2. /\ i \in 1 .. la /\ Get(a, qs) = a[i] /\ a[i].p \in qs
        /\ \A j \in 1 .. i - 1 : a[j].p \notin qs
    BY <2>1, <1>2, <1>7, First
  <2>3. i # q
    BY <2>2, <1>3
  <2>4. CASE i < q
    <3>1. /\ i \in 1 .. lr /\ r[i] = a[i]
          /\ \A j \in 1 .. i - 1 : r[j].p \notin qs
      BY <2>2, <2>4, <1>3, <1>4, SMTT(30)
    <3>2. r \in Seq(S) /\ i \in 1 .. Len(r) /\ r[i].p \in qs
      BY <3>1, <2>2, <1>2, <1>4
    <3>3. Has(r, qs) /\ Get(r, qs) = r[i]
      BY <3>1, <3>2, FirstIs
    <3> QED BY <3>1, <3>3, <2>2
  <2>5. CASE i > q
    <3>1. PICK k : k = i - 1 + ln
      OBVIOUS
    <3>2. k \in q + ln .. lr /\ k \in 1 .. lr /\ k - ln + 1 = i
      BY <3>1, <2>2, <2>5, <1>3, <1>4
    <3>3. r[k] = a[i]
      BY <3>2, <1>4
    <3>4. ASSUME NEW j \in 1 .. k - 1 PROVE r[j].p \notin qs
      <4>1. j \in 1 .. q - 1 \/ j \in q .. q + ln - 1 \/ j \in q + ln .. lr
        BY <3>2, <1>3, <1>4
      <4>2. CASE j \in 1 .. q - 1
        <5>1. j \in 1 .. i - 1
          BY <4>2, <2>2, <2>5, <1>3
        <5> QED BY <4>2, <5>1, <2>2, <1>4
      <4>3. CASE j \in q + ln .. lr
        <5>1. PICK m : m = j - ln + 1
          OBVIOUS
        <5>2. m \in 1 .. i - 1
          BY <5>1, <4>3, <3>1, <3>2, <2>2, <1>3, <1>4
        <5> QED BY <5>1, <5>2, <4>3, <2>2, <1>4
      <4> QED BY <4>1, <4>2, <4>3, <1>5
    <3>5. r \in Seq(S) /\ k \in 1 .. Len(r) /\ r[k].p \in qs
      BY <3>2, <3>3, <2>2, <1>2, <1>4
    <3>6. Has(r, qs) /\ Get(r, qs) = r[k]
      BY <3>4, <3>5, FirstIs
    <3> QED BY <3>3, <3>6, <2>2
  <2> QED BY <2>2, <2>3, <2>4, <2>5, <1>3
<1>8. Has(r, qs) => Has(a, qs)
  <2>1. SUFFICES ASSUME NEW k \in DOMAIN r, r[k].p \in qs PROVE Has(a, qs)
    BY DEF Has
  <2>2. k \in 1 .. lr
    <3>1. r \in Seq(S)
      BY <1>4
    <3> QED BY <3>1, <1>2
  <2> QED BY <2>1, <2>2, <1>6
<1> QED BY <1>7, <1>8

(* What a component is replaced by is found first if nothing before was. *)
LEMMA ReplaceFinds ==
  ASSUME NEW S, NEW a \in Seq(S), NEW new \in Seq(S), NEW ps, Has(a, ps),
         NEW r, r = Replace(a, ps, new), NEW qs,
         \A k \in 1 .. Position(a, ps) - 1 : a[k].p \notin qs,
         NEW i \in 1 .. Len(new), new[i].p \in qs,
         \A k \in 1 .. i - 1 : new[k].p \notin qs
  PROVE  Has(r, qs) /\ Get(r, qs) = new[i]
<1>1. PICK q : q = Position(a, ps)
  OBVIOUS
<1>2. PICK la, ln, lr : la = Len(a) /\ ln = Len(new) /\ lr = Len(r)
  OBVIOUS
<1>3. q \in 1 .. la /\ la \in Nat /\ ln \in Nat /\ i \in 1 .. ln
  BY <1>1, <1>2, First
<1>4. /\ r \in Seq(S) /\ lr = la - 1 + ln
      /\ \A k \in 1 .. q - 1 : r[k] = a[k]
      /\ \A k \in q .. q + ln - 1 : r[k] = new[k - q + 1]
  <2>1. /\ r \in Seq(S) /\ Len(r) = Len(a) - 1 + Len(new)
        /\ \A k \in 1 .. q - 1 : r[k] = a[k]
        /\ \A k \in q .. q + Len(new) - 1 : r[k] = new[k - q + 1]
    <3>1. r \in Seq(S) /\ Spliced(r, a, q, new)
      BY <1>1, ReplaceShape
    <3> QED BY <3>1 DEF Spliced
  <2> QED BY <2>1, <1>2
<1>5. PICK m : m = q + i - 1
  OBVIOUS
<1>6. m \in 1 .. lr /\ m \in q .. q + ln - 1 /\ m - q + 1 = i
  BY <1>3, <1>4, <1>5
<1>7. r[m] = new[i]
  BY <1>4, <1>6
<1>8. ASSUME NEW j \in 1 .. m - 1 PROVE r[j].p \notin qs
  <2>1. CASE j \in 1 .. q - 1
    BY <2>1, <1>1, <1>4
  <2>2. CASE j \in q .. q + ln - 1
    <3>1. PICK k : k = j - q + 1
      OBVIOUS
    <3>2. k \in 1 .. i - 1
      BY <3>1, <2>2, <1>3, <1>5, <1>6
    <3> QED BY <3>1, <3>2, <2>2, <1>4
  <2> QED BY <2>1, <2>2, <1>3, <1>6
<1>9. r \in Seq(S) /\ m \in 1 .. Len(r) /\ r[m].p \in qs
  BY <1>2, <1>4, <1>6, <1>7
<1>10. Has(r, qs) /\ Get(r, qs) = r[m]
  BY <1>8, <1>9, FirstIs
<1> QED BY <1>7, <1>10

-----------------------------------------------------------------------------
(* What the addresses that are made on the way consist of. *)
Universe ==
  Components \cup {Tor} \cup {Socks5(proxy) : proxy \in Seq(Components)}
    \cup {Component("dns", c.v) : c \in Components} \cup {Component("tcp", "onion-port")}

(* A component that is made on the way is one like those of the addresses. *)
LEMMA Universal ==
  ASSUME NEW c \in Universe
  PROVE  /\ DOMAIN c = {"p", "v", "via"} /\ c.via \in Seq(Components)
         /\ c.p # "socks5" => c.via = None
<1>1. None \in Seq(Components)
  BY DEF None
<1>2. CASE c \in Components
  BY <1>2, ComponentAssumption
<1>3. CASE \E proxy \in Seq(Components) : c = Socks5(proxy)
  <2>1. PICK proxy \in Seq(Components) : c = Socks5(proxy)
    BY <1>3
  <2> QED BY <2>1 DEF Socks5
<1>4. CASE \E p, v \in {c.p} \cup {c.v} : p # "socks5" /\ c = Component(p, v)
  BY <1>1, <1>4 DEF Component
<1>5. c \in Components \/ (\E proxy \in Seq(Components) : c = Socks5(proxy))
        \/ (\E p, v \in {c.p} \cup {c.v} : p # "socks5" /\ c = Component(p, v))
  <2>1. CASE c = Tor
    <3>1. c = Component("tor", "") /\ c.p = "tor" /\ c.v = ""
      BY <2>1 DEF Tor, Component
    <3> QED BY <3>1
  <2>2. CASE c = Component("tcp", "onion-port")
    <3>1. c.p = "tcp" /\ c.v = "onion-port"
      BY <2>2 DEF Component
    <3> QED BY <2>2, <3>1
  <2>3. ASSUME NEW d \in Components, c = Component("dns", d.v)
        PROVE  \E p, v \in {c.p} \cup {c.v} : p # "socks5" /\ c = Component(p, v)
    <3>1. c.p = "dns" /\ c.v = d.v
      BY <2>3 DEF Component
    <3> QED BY <2>3, <3>1
  <2> QED BY <2>1, <2>2, <2>3 DEF Universe
<1> QED BY <1>2, <1>3, <1>4, <1>5

(* What the configured addresses consist of is part of it. *)
LEMMA Inside ==
  /\ Seq(Components) \subseteq Seq(Universe)
  /\ Addresses \subseteq Seq(Universe)
  /\ \A proxy \in Seq(Components) : Socks5(proxy) \in Universe
  /\ Tor \in Universe
  /\ None \in Seq(Components)
<1>1. Components \subseteq Universe
  BY DEF Universe
<1>2. Seq(Components) \subseteq Seq(Universe)
  BY <1>1
<1>3. Addresses \subseteq Seq(Components)
  BY AddressAssumption
<1>4. None \in Seq(Components)
  BY DEF None
<1>5. Tor \in Universe /\ \A proxy \in Seq(Components) : Socks5(proxy) \in Universe
  BY DEF Universe
<1> QED BY <1>2, <1>3, <1>4, <1>5

(* b has the hosts and ports of a. *)
Keeps(a, b) ==
  \A qs \in {{"tcp"}, {"ip"}, {"dns"}} :
    (Has(b, qs) <=> Has(a, qs)) /\ (Has(a, qs) => Get(b, qs) = Get(a, qs))

(* Then it leads to the same target. *)
LEMMA PairKept ==
  ASSUME NEW a, NEW b, Keeps(a, b)
  PROVE  (IsPair(b) <=> IsPair(a)) /\ (IsPair(a) => ToPair(b) = ToPair(a))
<1>1. \A d : Has(d, {"ip", "dns"}) <=> Has(d, {"ip"}) \/ Has(d, {"dns"})
  BY DEF Has
<1>2. /\ Has(b, {"tcp"}) <=> Has(a, {"tcp"})
      /\ Has(b, {"ip"}) <=> Has(a, {"ip"})
      /\ Has(b, {"dns"}) <=> Has(a, {"dns"})
      /\ Has(a, {"tcp"}) => Get(b, {"tcp"}) = Get(a, {"tcp"})
      /\ Has(a, {"ip"}) => Get(b, {"ip"}) = Get(a, {"ip"})
      /\ Has(a, {"dns"}) => Get(b, {"dns"}) = Get(a, {"dns"})
  BY DEF Keeps
<1> QED BY <1>1, <1>2 DEF IsPair, ToPair

(* Components that are neither host nor port do not change that. *)
LEMMA KeptByAppend ==
  ASSUME NEW a \in Seq(Universe), NEW c \in Universe, c.p \notin {"tcp", "ip", "dns"}
  PROVE  Keeps(a, Append(a, c))
<1> SUFFICES ASSUME NEW qs \in {{"tcp"}, {"ip"}, {"dns"}}
             PROVE  /\ Has(Append(a, c), qs) <=> Has(a, qs)
                    /\ Has(a, qs) => Get(Append(a, c), qs) = Get(a, qs)
  BY DEF Keeps
<1>1. c.p \notin qs
  OBVIOUS
<1> QED BY <1>1, Appended

(* Nor does putting one such component in the place of another. *)
LEMMA KeptByReplace ==
  ASSUME NEW a \in Seq(Universe), NEW c \in Universe, c.p \notin {"tcp", "ip", "dns"},
         Has(a, {"tor"})
  PROVE  Keeps(a, Replace(a, {"tor"}, <<c>>))
<1> SUFFICES ASSUME NEW qs \in {{"tcp"}, {"ip"}, {"dns"}}
             PROVE  /\ Has(Replace(a, {"tor"}, <<c>>), qs) <=> Has(a, qs)
                    /\ Has(a, qs) => Get(Replace(a, {"tor"}, <<c>>), qs) = Get(a, qs)
  BY DEF Keeps
<1>1. PICK r : r = Replace(a, {"tor"}, <<c>>)
  OBVIOUS
<1>2. PICK new \in Seq(Universe) : new = <<c>>
  <2>1. <<c>> \in Seq(Universe)
    OBVIOUS
  <2> QED BY <2>1
<1>3. {"tor"} \cap qs = {} /\ \A k \in 1 .. Len(new) : new[k].p \notin qs
  BY <1>2
<1>4. r = Replace(a, {"tor"}, new)
  BY <1>1, <1>2
<1>5. /\ Has(r, qs) <=> Has(a, qs)
      /\ Has(a, qs) => Get(r, qs) = Get(a, qs)
  BY <1>3, <1>4, ReplaceKeeps
<1> QED BY <1>1, <1>5

(* The usual address of anything but an onion service, and any usual address
   with a /tor in it, has a host and a port.                               *)
LEMMA UsualIsPair ==
  ASSUME NEW a, Usual(a), Has(a, {"tor"}) \/ ~Has(a, {"onion3"})
  PROVE  IsPair(a)
<1>1. PICK host, port \in DOMAIN a :
        /\ \/ host < port /\ a[host].p \in {"ip", "dns"} /\ a[port].p = "tcp"
           \/ host = port /\ a[host].p = "onion3"
        /\ \A i \in DOMAIN a \ {host, port} :
             \/ a[i].p = "p2p"
             \/ /\ i > port /\ (a[i].p = "socks5" \/ (a[i].p = "tor" /\ host # port))
                /\ \A j \in DOMAIN a : j > port /\ j # i => a[j].p = "p2p"
  BY DEF Usual
<1>2. CASE a[host].p \in {"ip", "dns"} /\ a[port].p = "tcp"
  BY <1>2 DEF IsPair, Has
<1>3. CASE host = port /\ a[host].p = "onion3"
  <2>1. Has(a, {"onion3"})
    BY <1>3 DEF Has
  <2>2. PICK t \in DOMAIN a : a[t].p = "tor"
    BY <2>1 DEF Has
  <2>3. t \in DOMAIN a \ {host, port}
    BY <2>2, <1>3
  <2> QED BY <1>1, <1>3, <2>2, <2>3
<1> QED BY <1>1, <1>2, <1>3

(* The proxy the address names is that of its /socks5, if no /tor is before. *)
LEMMA ExplicitIs ==
  ASSUME asked \in Addresses
  PROVE  /\ Has(asked, {"tor"}) => Explicit = None
         /\ ~Has(asked, {"tor"}) /\ Has(asked, {"socks5"}) =>
              Explicit = Get(asked, {"socks5"}).via
         /\ ~Has(asked, {"tor"}) /\ ~Has(asked, {"socks5"}) => Explicit = None
         /\ Explicit \in Seq(Components)
<1>1. /\ asked \in Seq(Components) /\ Len(asked) \in Nat
      /\ \A i \in 1 .. Len(asked) - 1 : asked[i].p # "socks5"
  BY AddressAssumption
<1>2. Has(asked, Ways) <=> Has(asked, {"tor"}) \/ Has(asked, {"socks5"})
  BY DEF Has, Ways
<1>3. CASE ~Has(asked, Ways)
  BY <1>2, <1>3, Inside DEF Explicit
<1>4. CASE Has(asked, Ways)
  <2>1. PICK q : q = Position(asked, Ways)
    OBVIOUS
  <2>2. /\ q \in 1 .. Len(asked) /\ Get(asked, Ways) = asked[q] /\ asked[q].p \in Ways
        /\ \A j \in 1 .. q - 1 : asked[j].p \notin Ways
    BY <2>1, <1>1, <1>4, First
  <2>3. Explicit = asked[q].via
    BY <2>2, <1>4 DEF Explicit
  <2>4. asked[q] \in Components
    BY <2>2, <1>1
  <2>5. asked[q].via \in Seq(Components) /\ (asked[q].p # "socks5" => asked[q].via = None)
    BY <2>4, ComponentAssumption
  <2>6. ASSUME Has(asked, {"tor"}) PROVE Explicit = None
    <3>1. PICK t \in 1 .. Len(asked) : asked[t].p = "tor"
      BY <2>6, <1>1 DEF Has
    <3>2. asked[q].p # "socks5"
      <4>1. SUFFICES ASSUME asked[q].p = "socks5" PROVE FALSE
        OBVIOUS
      <4>2. q = Len(asked)
        BY <4>1, <2>2, <1>1
      <4>3. t \in 1 .. q - 1
        BY <4>1, <4>2, <3>1, <1>1
      <4> QED BY <4>3, <3>1, <2>2 DEF Ways
    <3> QED BY <3>2, <2>3, <2>5
  <2>7. ASSUME ~Has(asked, {"tor"}) PROVE Explicit = Get(asked, {"socks5"}).via
    <3>1. asked[q].p \in {"socks5"}
      BY <2>7, <2>2, <1>1 DEF Has, Ways
    <3>2. \A j \in 1 .. q - 1 : asked[j].p \notin {"socks5"}
      BY <2>2 DEF Ways
    <3>3. Get(asked, {"socks5"}) = asked[q]
      BY <3>1, <3>2, <2>2, <1>1, FirstIs, ZenonT(60)
    <3> QED BY <3>3, <2>3
  <2> QED BY <2>3, <2>5, <2>6, <2>7, <1>2, <1>4
<1> QED BY <1>3, <1>4

-----------------------------------------------------------------------------
(* What the address asks for, or --use-tor for it. *)
Torish == useTor \/ Has(asked, {"tor", "onion3"})

(* The proxy of the Tor transport for it. *)
ProxyToUse == IF Explicit # None THEN Explicit ELSE torProxy

(* What the Tor transport makes of such an address. *)
Rewritten(a) ==
  /\ a \in Seq(Universe)
  /\ Has(a, {"socks5"})
  /\ Get(a, {"socks5"}).via \in {None, ProxyToUse}
  /\ Get(a, {"socks5"}).via = None => ProxyToUse = torProxy
  /\ IsPair(a) /\ OneTarget(asked) => ToPair(a) = Target(asked)
  /\ Usual(asked) => IsPair(a)

(* An address with the hosts and ports of the one asked for, if that is not
   an onion service's, leads where it was asked to.                        *)
LEMMA KeepsTarget ==
  ASSUME NEW a, Keeps(asked, a), Has(asked, {"tor"}) \/ ~Has(asked, {"onion3"})
  PROVE  /\ IsPair(a) /\ OneTarget(asked) => ToPair(a) = Target(asked)
         /\ Usual(asked) => IsPair(a)
<1>1. (IsPair(a) <=> IsPair(asked)) /\ (IsPair(asked) => ToPair(a) = ToPair(asked))
  BY PairKept
<1>2. ASSUME IsPair(asked), OneTarget(asked) PROVE ~Has(asked, {"onion3"})
  <2> SUFFICES ASSUME NEW i \in DOMAIN asked, asked[i].p = "onion3" PROVE FALSE
    BY DEF Has
  <2>1. PICK j \in DOMAIN asked : asked[j].p = "tcp"
    BY <1>2 DEF IsPair, Has
  <2>2. i = j
    BY <2>1, <1>2 DEF OneTarget, AtMostOne
  <2> QED BY <2>1, <2>2
<1> QED BY <1>1, <1>2, UsualIsPair DEF Target

(* An address with a /tor in it. *)
LEMMA ByTor ==
  ASSUME asked \in Addresses, Has(asked, {"tor"})
  PROVE  Rewritten(Replace(asked, {"tor"}, <<Socks5(None)>>))
<1>1. PICK a \in Seq(Universe) : a = asked
  BY Inside
<1>2. PICK r : r = Replace(a, {"tor"}, <<Socks5(None)>>)
  OBVIOUS
<1>3. PICK c \in Universe : c = Socks5(None) /\ c.p = "socks5" /\ c.via = None
  BY Inside DEF Socks5
<1>4. PICK new \in Seq(Universe) : new = <<c>> /\ Len(new) = 1 /\ new[1] = c
  <2>1. <<c>> \in Seq(Universe)
    OBVIOUS
  <2> QED BY <2>1
<1>5. Has(a, {"tor"}) /\ r = Replace(a, {"tor"}, new)
  BY <1>1, <1>2, <1>3, <1>4
<1>6. r \in Seq(Universe)
  BY <1>5, ReplaceShape
<1>7. Keeps(asked, r)
  <2>1. Keeps(a, Replace(a, {"tor"}, <<c>>))
    BY <1>3, <1>5, KeptByReplace
  <2> QED BY <2>1, <1>1, <1>2, <1>3
<1>8. Has(r, {"socks5"}) /\ Get(r, {"socks5"}) = c
  <2>1. PICK q : q = Position(a, {"tor"})
    OBVIOUS
  <2>2. q \in 1 .. Len(a) /\ Len(a) \in Nat
    BY <2>1, <1>5, First
  <2>3. \A k \in 1 .. q - 1 : a[k].p # "socks5"
    BY <2>2, <1>1, AddressAssumption
  <2>4. \A k \in 1 .. Position(a, {"tor"}) - 1 : a[k].p \notin {"socks5"}
    BY <2>1, <2>3
  <2>5. 1 \in 1 .. Len(new) /\ new[1].p \in {"socks5"}
          /\ \A k \in 1 .. 1 - 1 : new[k].p \notin {"socks5"}
    BY <1>3, <1>4
  <2>6. Has(r, {"socks5"}) /\ Get(r, {"socks5"}) = new[1]
    BY <2>4, <2>5, <1>5, ReplaceFinds
  <2> QED BY <2>6, <1>4
<1>9. ProxyToUse = torProxy
  BY ExplicitIs DEF ProxyToUse
<1>10. Rewritten(r)
  BY <1>3, <1>6, <1>7, <1>8, <1>9, KeepsTarget DEF Rewritten
<1> QED BY <1>1, <1>2, <1>10

(* An address that becomes one of Tor's with --use-tor. *)
LEMMA ByOption ==
  ASSUME asked \in Addresses, ~Has(asked, {"tor", "onion3"})
  PROVE  /\ Has(Append(asked, Tor), {"tor"})
         /\ Rewritten(Replace(Append(asked, Tor), {"tor"}, <<Socks5(None)>>))
<1>1. PICK a \in Seq(Universe) : a = asked
  BY Inside
<1>2. PICK b \in Seq(Universe) : b = Append(a, Tor)
  BY Inside, Appended
<1>3. Tor.p = "tor" /\ Tor \in Universe
  BY Inside DEF Tor, Component
<1>4. ~Has(a, {"tor"}) /\ ~Has(a, {"onion3"})
  BY <1>1 DEF Has
<1>5. Has(b, {"tor"}) /\ Position(b, {"tor"}) = Len(a) + 1
  BY <1>2, <1>3, <1>4, Appended
<1>6. PICK r : r = Replace(b, {"tor"}, <<Socks5(None)>>)
  OBVIOUS
<1>7. PICK c \in Universe : c = Socks5(None) /\ c.p = "socks5" /\ c.via = None
  BY Inside DEF Socks5
<1>8. PICK new \in Seq(Universe) : new = <<c>> /\ Len(new) = 1 /\ new[1] = c
  <2>1. <<c>> \in Seq(Universe)
    OBVIOUS
  <2> QED BY <2>1
<1>9. r = Replace(b, {"tor"}, new)
  BY <1>6, <1>7, <1>8
<1>10. r \in Seq(Universe) /\ Spliced(r, b, Len(a) + 1, new)
  BY <1>5, <1>9, ReplaceShape
<1>11. r = Append(a, c)
  <2>1. /\ Len(b) = Len(a) + 1 /\ Len(a) \in Nat
        /\ \A k \in 1 .. Len(a) : b[k] = a[k]
    BY <1>2
  <2>2. /\ Len(r) = Len(b) - 1 + Len(new)
        /\ \A k \in 1 .. Len(a) + 1 - 1 : r[k] = b[k]
        /\ \A k \in Len(a) + 1 .. Len(a) + 1 + Len(new) - 1 : r[k] = new[k - (Len(a) + 1) + 1]
    BY <1>10 DEF Spliced
  <2>3. Len(r) = Len(a) + 1
    BY <2>1, <2>2, <1>8
  <2>4. \A k \in 1 .. Len(a) : r[k] = a[k]
    BY <2>1, <2>2
  <2>5. r[Len(a) + 1] = c
    <3>1. PICK k : k = Len(a) + 1
      OBVIOUS
    <3>2. k \in Len(a) + 1 .. Len(a) + 1 + Len(new) - 1 /\ k - (Len(a) + 1) + 1 = 1
      BY <3>1, <2>1, <1>8
    <3>3. r[k] = new[1]
      BY <3>2, <2>2
    <3> QED BY <3>1, <3>3, <1>8
  <2> QED BY <2>1, <2>3, <2>4, <2>5, <1>10
<1>12. Keeps(asked, r)
  <2>1. Keeps(a, Append(a, c))
    BY <1>7, KeptByAppend
  <2> QED BY <2>1, <1>1, <1>11
<1>13. /\ Has(r, {"socks5"})
       /\ Has(a, {"socks5"}) => Get(r, {"socks5"}) = Get(a, {"socks5"})
       /\ ~Has(a, {"socks5"}) => Get(r, {"socks5"}) = c
  <2>1. c.p \in {"socks5"}
    BY <1>7
  <2> QED BY <2>1, <1>11, Appended
<1>14. /\ Has(a, {"socks5"}) => Explicit = Get(a, {"socks5"}).via
       /\ ~Has(a, {"socks5"}) => Explicit = None
  BY <1>1, <1>4, ExplicitIs
<1>15. /\ Get(r, {"socks5"}).via \in {None, ProxyToUse}
       /\ Get(r, {"socks5"}).via = None => ProxyToUse = torProxy
  <2>1. CASE Has(a, {"socks5"})
    BY <2>1, <1>13, <1>14 DEF ProxyToUse
  <2>2. CASE ~Has(a, {"socks5"})
    BY <2>2, <1>7, <1>13, <1>14 DEF ProxyToUse
  <2> QED BY <2>1, <2>2
<1>16. Rewritten(r)
  BY <1>1, <1>4, <1>10, <1>12, <1>13, <1>15, KeepsTarget DEF Rewritten
<1> QED BY <1>1, <1>2, <1>5, <1>6, <1>16

(* The address of an onion service. *)
LEMMA ByOnion ==
  ASSUME asked \in Addresses, Has(asked, {"onion3"}), ~Has(asked, {"tor"}),
         torProxy \in TorProxies,
         NEW r, r = Replace(asked, {"onion3"}, OnionName(Get(asked, {"onion3"})))
  PROVE  /\ Has(r, {"socks5"}) => Rewritten(r)
         /\ ~Has(r, {"socks5"}) => Rewritten(Append(r, Socks5(torProxy)))
<1>1. PICK a \in Seq(Universe) : a = asked
  BY Inside
<1>2. PICK o : o = Get(a, {"onion3"})
  OBVIOUS
<1>3. o \in Components
  <2>1. Get(a, {"onion3"}) = a[Position(a, {"onion3"})]
          /\ Position(a, {"onion3"}) \in 1 .. Len(a)
    BY <1>1, First
  <2>2. asked \in Seq(Components)
    BY AddressAssumption
  <2> QED BY <1>1, <1>2, <2>1, <2>2
<1>4. PICK d \in Universe : d = Component("dns", o.v) /\ d.p = "dns" /\ d.v = o.v
  <2>1. Component("dns", o.v) \in Universe
    BY <1>3 DEF Universe
  <2> QED BY <2>1 DEF Component
<1>5. PICK t \in Universe :
        t = Component("tcp", "onion-port") /\ t.p = "tcp" /\ t.v = "onion-port"
  <2>1. Component("tcp", "onion-port") \in Universe
    BY DEF Universe
  <2> QED BY <2>1 DEF Component
<1>6. PICK new \in Seq(Universe) :
        new = <<d, t>> /\ Len(new) = 2 /\ new[1] = d /\ new[2] = t
  <2>1. <<d, t>> \in Seq(Universe)
    OBVIOUS
  <2> QED BY <2>1
<1>7. Has(a, {"onion3"}) /\ r = Replace(a, {"onion3"}, new)
  BY <1>1, <1>2, <1>4, <1>5, <1>6 DEF OnionName
<1>8. r \in Seq(Universe)
  BY <1>7, ReplaceShape
<1>9. /\ Has(r, {"socks5"}) <=> Has(a, {"socks5"})
      /\ Has(a, {"socks5"}) => Get(r, {"socks5"}) = Get(a, {"socks5"})
      /\ Has(r, {"ip"}) <=> Has(a, {"ip"})
  <2>1. \A qs \in {{"socks5"}, {"ip"}} :
          {"onion3"} \cap qs = {} /\ \A k \in 1 .. Len(new) : new[k].p \notin qs
    BY <1>4, <1>5, <1>6
  <2>2. /\ {"onion3"} \cap {"socks5"} = {} /\ {"onion3"} \cap {"ip"} = {}
        /\ \A k \in 1 .. Len(new) : new[k].p \notin {"socks5"}
        /\ \A k \in 1 .. Len(new) : new[k].p \notin {"ip"}
    BY <2>1
  <2>3. /\ Has(r, {"socks5"}) <=> Has(a, {"socks5"})
        /\ Has(a, {"socks5"}) => Get(r, {"socks5"}) = Get(a, {"socks5"})
    BY <2>2, <1>7, ReplaceKeeps
  <2>4. Has(r, {"ip"}) <=> Has(a, {"ip"})
    BY <2>2, <1>7, ReplaceKeeps
  <2> QED BY <2>3, <2>4
<1>10. ASSUME OneTarget(asked)
       PROVE  /\ ~Has(r, {"ip"})
              /\ Has(r, {"dns"}) /\ Get(r, {"dns"}) = d
              /\ Has(r, {"tcp"}) /\ Get(r, {"tcp"}) = t
  <2>1. PICK i \in DOMAIN a : a[i].p = "onion3"
    BY <1>7 DEF Has
  <2>2. \A j \in DOMAIN a : a[j].p \notin {"ip", "dns", "tcp"}
    <3> SUFFICES ASSUME NEW j \in DOMAIN a, a[j].p \in {"ip", "dns", "tcp"} PROVE FALSE
      OBVIOUS
    <3>1. i = j
      BY <1>1, <1>10, <2>1 DEF OneTarget, AtMostOne
    <3> QED BY <3>1, <2>1
  <2>3. ~Has(r, {"ip"})
    BY <2>2, <1>9 DEF Has
  <2>4. Position(a, {"onion3"}) \in 1 .. Len(a)
    BY <1>7, First
  <2>5. /\ \A k \in 1 .. Position(a, {"onion3"}) - 1 : a[k].p \notin {"dns"}
        /\ \A k \in 1 .. Position(a, {"onion3"}) - 1 : a[k].p \notin {"tcp"}
    BY <2>2, <2>4
  <2>6. Has(r, {"dns"}) /\ Get(r, {"dns"}) = new[1]
    <3>1. 1 \in 1 .. Len(new) /\ new[1].p \in {"dns"}
            /\ \A k \in 1 .. 1 - 1 : new[k].p \notin {"dns"}
      BY <1>4, <1>6
    <3> QED BY <3>1, <2>5, <1>7, ReplaceFinds
  <2>7. Has(r, {"tcp"}) /\ Get(r, {"tcp"}) = new[2]
    <3>1. 2 \in 1 .. Len(new) /\ new[2].p \in {"tcp"}
            /\ \A k \in 1 .. 2 - 1 : new[k].p \notin {"tcp"}
      BY <1>4, <1>5, <1>6
    <3> QED BY <3>1, <2>5, <1>7, ReplaceFinds
  <2> QED BY <2>3, <2>6, <2>7, <1>6
<1>11. IsPair(r)
  <2>1. PICK q \in 1 .. Len(a) : q = Position(a, {"onion3"})
    BY <1>7, First
  <2>2. /\ Len(r) = Len(a) - 1 + Len(new) /\ Len(a) \in Nat
        /\ \A k \in q .. q + Len(new) - 1 : r[k] = new[k - q + 1]
    <3>1. Spliced(r, a, q, new)
      BY <2>1, <1>7, ReplaceShape
    <3>2. Len(a) \in Nat
      OBVIOUS
    <3> QED BY <3>1, <3>2 DEF Spliced
  <2>3. q \in 1 .. Len(r) /\ q + 1 \in 1 .. Len(r)
          /\ q \in q .. q + Len(new) - 1 /\ q + 1 \in q .. q + Len(new) - 1
    BY <2>1, <2>2, <1>6
  <2>4. q - q + 1 = 1 /\ (q + 1) - q + 1 = 2
    BY <2>1
  <2>5. r[q] = d /\ r[q + 1] = t
    BY <2>2, <2>3, <2>4, <1>6
  <2>6. q \in DOMAIN r /\ q + 1 \in DOMAIN r
    BY <2>3, <1>8
  <2> QED BY <2>5, <2>6, <1>4, <1>5 DEF IsPair, Has
<1>12. OneTarget(asked) => ToPair(r) = Target(asked)
  BY <1>1, <1>2, <1>4, <1>5, <1>7, <1>10 DEF ToPair, Target
<1>13. ASSUME Has(r, {"socks5"}) PROVE Rewritten(r)
  <2>1. Get(r, {"socks5"}).via = Explicit
    BY <1>1, <1>9, <1>13, ExplicitIs
  <2> QED BY <2>1, <1>8, <1>11, <1>12, <1>13 DEF Rewritten, ProxyToUse
<1>14. ASSUME ~Has(r, {"socks5"}) PROVE Rewritten(Append(r, Socks5(torProxy)))
  <2>1. PICK c \in Universe : c = Socks5(torProxy) /\ c.p = "socks5" /\ c.via = torProxy
    <3>1. torProxy \in Seq(Components)
      BY AddressAssumption
    <3> QED BY <3>1, Inside DEF Socks5
  <2>2. PICK b : b = Append(r, c)
    OBVIOUS
  <2>3. b \in Seq(Universe) /\ Has(b, {"socks5"}) /\ Get(b, {"socks5"}) = c
    <3>1. c.p \in {"socks5"}
      BY <2>1
    <3> QED BY <3>1, <2>2, <1>8, <1>14, Appended
  <2>4. Keeps(r, b)
    BY <2>1, <2>2, <1>8, KeptByAppend
  <2>5. (IsPair(b) <=> IsPair(r)) /\ (IsPair(r) => ToPair(b) = ToPair(r))
    BY <2>4, PairKept
  <2>6. Explicit = None
    BY <1>1, <1>9, <1>14, ExplicitIs
  <2>7. torProxy # None
    BY AddressAssumption
  <2>8. Rewritten(b)
    BY <2>1, <2>3, <2>5, <2>6, <2>7, <1>11, <1>12 DEF Rewritten, ProxyToUse
  <2> QED BY <2>1, <2>2, <2>8
<1> QED BY <1>13, <1>14

-----------------------------------------------------------------------------
(* The proxy of the plain SOCKS transport for an address that names one. *)
PlainProxy == IF Explicit # None THEN Explicit ELSE socksProxy

(* A rewritten address that the SOCKS transports can do nothing with: it has
   no host and port, and names no proxy but one that was fit to be used.   *)
Useless ==
  /\ Torish
  /\ ~IsPair(addr) /\ ~Usual(asked)
  /\ IsSocket(ProxyToUse)
  /\ Has(addr, {"socks5"}) => Get(addr, {"socks5"}).via \in {None, ProxyToUse}

(* What each transport can be given. *)
Made == addr \in Seq(Universe)
AtTor == stage = "tor" => addr = asked
AtSocks ==
  stage = "socks5" =>
    \/ ~Torish /\ addr = asked
    \/ Useless
    \/ addr = ProxyToUse /\ ~IsSocket(ProxyToUse)
AtTcp ==
  stage = "tcp" =>
    \/ /\ ~Torish /\ addr = asked
       /\ Has(asked, {"socks5"}) => ~IsPair(asked) \/ PlainProxy = None
    \/ Useless
    \/ ~ProxiesAreSockets

(* The properties that a dial that is over must have. *)
Properties == TargetIsDialled /\ NoDirectDial /\ ProxyAsAsked /\ UsualIsDialled

(* The inductive invariant. *)
IInv == TypeOK /\ Made /\ AtTor /\ AtSocks /\ AtTcp /\ Properties

Settings == <<useTor, torProxy, socksProxy, asked>>

(* What was asked for and what is configured stays, and all that depends on
   nothing else.                                                           *)
LEMMA Frame ==
  ASSUME UNCHANGED Settings
  PROVE  /\ Explicit' = Explicit
         /\ ProxyToUse' = ProxyToUse
         /\ PlainProxy' = PlainProxy
         /\ Torish' <=> Torish
         /\ ProxiesAreSockets' <=> ProxiesAreSockets
         /\ NoProxyBehindProxy' <=> NoProxyBehindProxy
<1> USE DEF Settings
<1>1. Explicit' = Explicit
  BY DEF Explicit
<1>2. ProxyToUse' = ProxyToUse /\ PlainProxy' = PlainProxy
  BY <1>1 DEF ProxyToUse, PlainProxy
<1>3. Torish' <=> Torish
  BY DEF Torish
<1>4. Proxies' = Proxies
  BY <1>1 DEF Proxies
<1>5. /\ ProxiesAreSockets' <=> ProxiesAreSockets
      /\ NoProxyBehindProxy' <=> NoProxyBehindProxy
  BY <1>4 DEF ProxiesAreSockets, NoProxyBehindProxy
<1> QED BY <1>1, <1>2, <1>3, <1>5

(* Addresses made on the way consist of components. *)
LEMMA MadeIsTyped ==
  ASSUME NEW a \in Seq(Universe), NEW i \in DOMAIN a
  PROVE  DOMAIN a[i] = {"p", "v", "via"}
<1>1. a[i] \in Universe
  OBVIOUS
<1> QED BY <1>1, Universal

(* Handing an address on to the next transport. *)
LEMMA HandOn ==
  ASSUME TypeOK, UNCHANGED Settings, stage # "done",
         NEW a \in Seq(Universe), NEW next \in {"socks5", "tcp"}, NotSupported(a, next)
  PROVE  /\ TypeOK' /\ Made' /\ AtTor' /\ Properties'
         /\ addr' = a /\ stage' = next
<1>1. addr' = a /\ stage' = next /\ outcome' = outcome
  BY DEF NotSupported
<1>2. outcome.kind = "pending"
  BY DEF TypeOK
<1>3. Made'
  BY <1>1 DEF Made
<1>4. TypeOK'
  <2>1. \A i \in DOMAIN addr' : DOMAIN addr'[i] = {"p", "v", "via"}
    BY <1>3, MadeIsTyped DEF Made
  <2> QED BY <1>1, <1>2, <2>1 DEF TypeOK, Settings, Outcomes
<1>5. Properties'
  <2>1. ~Reached' /\ outcome'.kind = "pending" /\ stage' # "done"
    BY <1>1, <1>2 DEF Reached
  <2> QED BY <2>1 DEF Properties, TargetIsDialled, NoDirectDial, ProxyAsAsked, UsualIsDialled
<1> QED BY <1>1, <1>3, <1>4, <1>5 DEF AtTor

(* A connection through a proxy. *)
LEMMA ByProxy ==
  ASSUME TypeOK, Made, UNCHANGED Settings, NEW proxy, NEW target,
         Dialled("proxied", proxy, target),
         ProxiesAreSockets /\ OneTarget(asked) => target = Target(asked),
         NoProxyBehindProxy => proxy = ToPair(IF Torish THEN ProxyToUse ELSE PlainProxy)
  PROVE  IInv'
<1>1. /\ addr' = addr /\ stage' = "done"
      /\ outcome' = [kind |-> "proxied", proxy |-> proxy, target |-> target]
  BY DEF Dialled
<1>2. outcome'.kind = "proxied" /\ outcome'.proxy = proxy /\ outcome'.target = target
  BY <1>1
<1>3. Made'
  BY <1>1 DEF Made
<1>4. TypeOK'
  <2>1. \A i \in DOMAIN addr' : DOMAIN addr'[i] = {"p", "v", "via"}
    BY <1>3, MadeIsTyped DEF Made
  <2> QED BY <1>1, <1>2, <2>1 DEF TypeOK, Settings, Outcomes
<1>5. TargetIsDialled'
  BY <1>2, Frame DEF TargetIsDialled, Settings
<1>6. NoDirectDial' /\ UsualIsDialled'
  BY <1>2 DEF NoDirectDial, UsualIsDialled, Reached
<1>7. ProxyAsAsked'
  <2>1. SUFFICES ASSUME NoProxyBehindProxy
                 PROVE  proxy = ToPair(IF Explicit' # None THEN Explicit'
                                       ELSE IF useTor' \/ Has(asked', {"tor", "onion3"})
                                       THEN torProxy' ELSE socksProxy')
    BY <1>2, Frame DEF ProxyAsAsked
  <2>2. proxy = ToPair(IF Torish THEN ProxyToUse ELSE PlainProxy)
    BY <2>1
  <2> QED BY <2>2, Frame DEF Torish, ProxyToUse, PlainProxy, Settings
<1> QED BY <1>1, <1>3, <1>4, <1>5, <1>6, <1>7 DEF IInv, Properties, AtTor, AtSocks, AtTcp

(* A connection without one. *)
LEMMA Directly ==
  ASSUME TypeOK, Made, UNCHANGED Settings, NEW target,
         Dialled("direct", None, target),
         ProxiesAreSockets /\ OneTarget(asked) => target = Target(asked),
         ProxiesAreSockets => ~Torish /\ ~Has(asked, {"socks5"})
  PROVE  IInv'
<1>1. /\ addr' = addr /\ stage' = "done"
      /\ outcome' = [kind |-> "direct", proxy |-> None, target |-> target]
  BY DEF Dialled
<1>2. outcome'.kind = "direct" /\ outcome'.target = target
  BY <1>1
<1>3. Made'
  BY <1>1 DEF Made
<1>4. TypeOK'
  <2>1. \A i \in DOMAIN addr' : DOMAIN addr'[i] = {"p", "v", "via"}
    BY <1>3, MadeIsTyped DEF Made
  <2> QED BY <1>1, <1>2, <2>1 DEF TypeOK, Settings, Outcomes
<1>5. TargetIsDialled'
  BY <1>2, Frame DEF TargetIsDialled, Settings
<1>6. ProxyAsAsked' /\ UsualIsDialled'
  BY <1>2 DEF ProxyAsAsked, UsualIsDialled, Reached
<1>7. NoDirectDial'
  <2>1. Has(asked, {"tor", "onion3", "socks5"}) <=>
          Has(asked, {"tor", "onion3"}) \/ Has(asked, {"socks5"})
    BY DEF Has
  <2> QED BY <2>1, Frame DEF NoDirectDial, Torish, Settings
<1> QED BY <1>1, <1>3, <1>4, <1>5, <1>6, <1>7 DEF IInv, Properties, AtTor, AtSocks, AtTcp

(* None at all. *)
LEMMA NotAtAll ==
  ASSUME TypeOK, Made, UNCHANGED Settings, NotSupported(addr, "done"),
         ProxiesAreSockets /\ Usual(asked) =>
           ~Torish /\ Has(asked, {"socks5"}) /\ PlainProxy = None
  PROVE  IInv'
<1>1. addr' = addr /\ stage' = "done" /\ outcome' = Failed
  BY DEF NotSupported
<1>2. outcome'.kind = "failed"
  BY <1>1 DEF Failed
<1>3. Made'
  BY <1>1 DEF Made
<1>4. TypeOK'
  <2>1. \A i \in DOMAIN addr' : DOMAIN addr'[i] = {"p", "v", "via"}
    BY <1>3, MadeIsTyped DEF Made
  <2> QED BY <1>1, <1>2, <2>1 DEF TypeOK, Settings, Outcomes
<1>5. TargetIsDialled' /\ NoDirectDial' /\ ProxyAsAsked'
  BY <1>2 DEF TargetIsDialled, NoDirectDial, ProxyAsAsked, Reached
<1>6. UsualIsDialled'
  <2>1. SUFFICES ASSUME ProxiesAreSockets, Usual(asked),
                        \/ Explicit # None \/ ~Has(asked, {"socks5"})
                        \/ socksProxy # None \/ useTor \/ Has(asked, {"onion3"})
                 PROVE  FALSE
    BY Frame DEF UsualIsDialled, Settings
  <2>2. ~Torish /\ Has(asked, {"socks5"}) /\ PlainProxy = None
    BY <2>1
  <2>3. ~useTor /\ ~Has(asked, {"onion3"})
    BY <2>2 DEF Torish, Has
  <2> QED BY <2>1, <2>2, <2>3 DEF PlainProxy
<1> QED BY <1>1, <1>3, <1>4, <1>5, <1>6 DEF IInv, Properties, AtTor, AtSocks, AtTcp

-----------------------------------------------------------------------------
(* The Tor transport, given an address that is one of its. *)
LEMMA TorDialSteps ==
  ASSUME IInv, TorDial, Torish
  PROVE  \E a \in Seq(Universe) :
           /\ Rewritten(a)
           /\ \/ ~IsSocket(ProxyToUse) /\ NotSupported(ProxyToUse, "socks5")
              \/ /\ IsSocket(ProxyToUse) /\ ~IsPair(a)
                 /\ NotSupported(a, "socks5")
              \/ /\ IsSocket(ProxyToUse) /\ IsPair(a)
                 /\ Dialled("proxied", ToPair(ProxyToUse), ToPair(a))
<1>1. /\ asked \in Addresses /\ torProxy \in TorProxies /\ useTor \in BOOLEAN
      /\ addr = asked
  BY DEF IInv, TypeOK, AtTor, TorDial
<1>2. torProxy # None
  BY <1>1, AddressAssumption
<1> DEFINE Complete(r) == IF ~Has(r, {"socks5"}) THEN Append(r, Socks5(torProxy)) ELSE r
<1>3. \E r : Rewritten(Complete(r)) /\ SocksDoDial(r, TRUE, torProxy, "socks5")
  <2>1. Has(asked, {"tor", "onion3"}) <=> Has(asked, {"tor"}) \/ Has(asked, {"onion3"})
    BY DEF Has
  <2>2. CASE Has(asked, {"tor"})
    <3>1. WithTor(addr) = asked
      BY <1>1, <2>1, <2>2 DEF WithTor
    <3>2. SocksDoDial(Replace(asked, {"tor"}, <<Socks5(None)>>), TRUE, torProxy, "socks5")
      BY <3>1, <2>2 DEF TorDial
    <3>3. Rewritten(Replace(asked, {"tor"}, <<Socks5(None)>>))
      BY <1>1, <2>2, ByTor
    <3>4. Has(Replace(asked, {"tor"}, <<Socks5(None)>>), {"socks5"})
      BY <3>3 DEF Rewritten
    <3> QED BY <3>2, <3>3, <3>4
  <2>3. CASE ~Has(asked, {"tor"}) /\ Has(asked, {"onion3"})
    <3>1. WithTor(addr) = asked
      BY <1>1, <2>1, <2>3 DEF WithTor
    <3>2. PICK r : r = Replace(asked, {"onion3"}, OnionName(Get(asked, {"onion3"})))
      OBVIOUS
    <3>3. SocksDoDial(r, TRUE, torProxy, "socks5")
      BY <3>1, <3>2, <2>3 DEF TorDial
    <3>4. /\ Has(r, {"socks5"}) => Rewritten(r)
          /\ ~Has(r, {"socks5"}) => Rewritten(Append(r, Socks5(torProxy)))
      BY <1>1, <2>3, <3>2, ByOnion
    <3>5. Rewritten(Complete(r))
      BY <3>4
    <3> QED BY <3>3, <3>5
  <2>4. CASE ~Has(asked, {"tor", "onion3"})
    <3>1. WithTor(addr) = Append(asked, Tor)
      BY <1>1, <2>4 DEF WithTor, Torish
    <3>2. /\ Has(Append(asked, Tor), {"tor"})
          /\ Rewritten(Replace(Append(asked, Tor), {"tor"}, <<Socks5(None)>>))
      BY <1>1, <2>4, ByOption
    <3>3. SocksDoDial(Replace(Append(asked, Tor), {"tor"}, <<Socks5(None)>>),
                      TRUE, torProxy, "socks5")
      BY <3>1, <3>2 DEF TorDial
    <3>4. Has(Replace(Append(asked, Tor), {"tor"}, <<Socks5(None)>>), {"socks5"})
      BY <3>2 DEF Rewritten
    <3> QED BY <3>2, <3>3, <3>4
  <2> QED BY <2>1, <2>2, <2>3, <2>4
<1>4. PICK r : Rewritten(Complete(r)) /\ SocksDoDial(r, TRUE, torProxy, "socks5")
  BY <1>3
<1>5. PICK a : a = Complete(r)
  OBVIOUS
<1>6. Rewritten(a)
  BY <1>4, <1>5
<1>7. (IF Get(a, {"socks5"}).via = None THEN torProxy ELSE Get(a, {"socks5"}).via)
        = ProxyToUse
  BY <1>6 DEF Rewritten
<1>8. ProxyToUse # None
  BY <1>2 DEF ProxyToUse
<1>9. IF ~IsSocket(ProxyToUse) THEN NotSupported(ProxyToUse, "socks5")
      ELSE IF ~IsPair(a) THEN NotSupported(a, "socks5")
      ELSE Dialled("proxied", ToPair(ProxyToUse), ToPair(a))
  <2>1. a = IF TRUE /\ ~Has(r, {"socks5"}) /\ torProxy # None
            THEN Append(r, Socks5(torProxy)) ELSE r
    BY <1>2, <1>5
  <2>2. Has(a, {"socks5"})
    BY <1>6 DEF Rewritten
  <2> HIDE DEF Complete
  <2> QED BY <1>4, <1>7, <1>8, <2>1, <2>2 DEF SocksDoDial
<1>10. a \in Seq(Universe)
  BY <1>6 DEF Rewritten
<1> QED BY <1>6, <1>9, <1>10

(* The Tor transport preserves the invariant. *)
LEMMA TorDialKeeps ==
  ASSUME IInv, TorDial
  PROVE  IInv'
<1>1. TypeOK /\ Made /\ addr = asked /\ stage = "tor" /\ UNCHANGED Settings
  BY DEF IInv, TorDial, AtTor, Settings
<1>2. asked \in Addresses /\ torProxy \in TorProxies /\ asked \in Seq(Universe)
  BY <1>1, Inside DEF TypeOK
<1>3. ProxyToUse \in Seq(Components) /\ ProxyToUse \in Seq(Universe)
  BY <1>2, ExplicitIs, AddressAssumption, Inside DEF ProxyToUse
<1>4. CASE ~Torish
  <2>1. ~useTor /\ ~Has(asked, {"tor"}) /\ ~Has(asked, {"onion3"})
    BY <1>4 DEF Torish, Has
  <2>2. NotSupported(asked, "socks5")
    BY <1>1, <2>1 DEF TorDial, WithTor
  <2>3. TypeOK' /\ Made' /\ AtTor' /\ Properties' /\ addr' = asked /\ stage' = "socks5"
    BY <1>1, <1>2, <2>2, HandOn
  <2>4. AtSocks' /\ AtTcp'
    BY <1>1, <1>4, <2>3, Frame DEF AtSocks, AtTcp, Settings
  <2> QED BY <2>3, <2>4 DEF IInv
<1>5. CASE Torish
  <2>1. PICK a \in Seq(Universe) :
           /\ Rewritten(a)
           /\ \/ ~IsSocket(ProxyToUse) /\ NotSupported(ProxyToUse, "socks5")
              \/ /\ IsSocket(ProxyToUse) /\ ~IsPair(a)
                 /\ NotSupported(a, "socks5")
              \/ /\ IsSocket(ProxyToUse) /\ IsPair(a)
                 /\ Dialled("proxied", ToPair(ProxyToUse), ToPair(a))
    BY <1>5, TorDialSteps
  <2>2. CASE ~IsSocket(ProxyToUse) /\ NotSupported(ProxyToUse, "socks5")
    <3>1. PICK proxy \in Seq(Universe) : proxy = ProxyToUse
      BY <1>3
    <3>2. TypeOK' /\ Made' /\ AtTor' /\ Properties' /\ addr' = proxy /\ stage' = "socks5"
      BY <1>1, <2>2, <3>1, HandOn
    <3>3. AtSocks' /\ AtTcp'
      BY <1>1, <2>2, <3>1, <3>2, Frame DEF AtSocks, AtTcp
    <3> QED BY <3>2, <3>3 DEF IInv
  <2>3. CASE IsSocket(ProxyToUse) /\ ~IsPair(a) /\ NotSupported(a, "socks5")
    <3>1. TypeOK' /\ Made' /\ AtTor' /\ Properties' /\ addr' = a /\ stage' = "socks5"
      BY <1>1, <2>3, HandOn
    <3>2. ~Usual(asked) /\ Get(a, {"socks5"}).via \in {None, ProxyToUse}
      BY <2>1, <2>3 DEF Rewritten
    <3>3. Useless'
      BY <1>1, <1>5, <2>3, <3>1, <3>2, Frame DEF Useless, Settings
    <3>4. AtSocks' /\ AtTcp'
      BY <3>1, <3>3 DEF AtSocks, AtTcp
    <3> QED BY <3>1, <3>4 DEF IInv
  <2>4. CASE /\ IsSocket(ProxyToUse) /\ IsPair(a)
             /\ Dialled("proxied", ToPair(ProxyToUse), ToPair(a))
    <3>1. PICK proxy, target : proxy = ToPair(ProxyToUse) /\ target = ToPair(a)
      OBVIOUS
    <3>2. Dialled("proxied", proxy, target)
      BY <2>4, <3>1
    <3>3. OneTarget(asked) => target = Target(asked)
      BY <2>1, <2>4, <3>1 DEF Rewritten
    <3>4. proxy = ToPair(IF Torish THEN ProxyToUse ELSE PlainProxy)
      BY <1>5, <3>1
    <3> QED BY <1>1, <3>2, <3>3, <3>4, ByProxy
  <2> QED BY <2>1, <2>2, <2>3, <2>4
<1> QED BY <1>4, <1>5

(* Which proxies can come into play. *)
LEMMA InPlay ==
  ASSUME TypeOK
  PROVE  /\ Explicit # None => Explicit \in Proxies
         /\ ProxyToUse # None /\ ProxyToUse \in Proxies
         /\ socksProxy # None => socksProxy \in Proxies
         /\ \A proxy \in Proxies : proxy \in Seq(Universe)
<1>1. torProxy \in TorProxies /\ socksProxy \in SocksProxies /\ asked \in Addresses
  BY DEF TypeOK
<1>2. torProxy # None /\ torProxy \in Seq(Components) /\ socksProxy \in Seq(Components)
  BY <1>1, AddressAssumption
<1>3. Explicit \in Seq(Components)
  BY <1>1, ExplicitIs
<1>4. \A proxy \in Proxies : proxy \in Seq(Universe)
  BY <1>2, <1>3, Inside DEF Proxies
<1> QED BY <1>2, <1>4 DEF Proxies, ProxyToUse

(* The plain SOCKS transport preserves the invariant. *)
LEMMA SocksDialKeeps ==
  ASSUME IInv, SocksDial
  PROVE  IInv'
<1>1. /\ TypeOK /\ Made /\ addr \in Seq(Universe)
      /\ stage = "socks5" /\ UNCHANGED Settings
  BY DEF IInv, Made, SocksDial, Settings
<1> DEFINE via == Get(addr, {"socks5"}).via
<1>2. PICK proxy : proxy = IF via = None THEN socksProxy ELSE via
  OBVIOUS
<1> HIDE DEF via
<1>3. \/ /\ ~Has(addr, {"socks5"}) \/ proxy = None
         /\ NotSupported(addr, "tcp")
      \/ /\ Has(addr, {"socks5"}) /\ proxy # None /\ ~IsSocket(proxy)
         /\ NotSupported(proxy, "tcp")
      \/ /\ Has(addr, {"socks5"}) /\ proxy # None /\ ~IsPair(addr)
         /\ NotSupported(addr, "tcp")
      \/ /\ Has(addr, {"socks5"}) /\ proxy # None /\ IsSocket(proxy) /\ IsPair(addr)
         /\ Dialled("proxied", ToPair(proxy), ToPair(addr))
  BY <1>2 DEF SocksDial, SocksDoDial, via
<1>4. Has(addr, {"socks5"}) => proxy \in Seq(Universe)
  <2> SUFFICES ASSUME Has(addr, {"socks5"}) PROVE proxy \in Seq(Universe)
    OBVIOUS
  <2>1. Get(addr, {"socks5"}) \in Universe
    BY <1>1, First
  <2>2. via \in Seq(Components)
    BY <2>1, Universal DEF via
  <2>3. socksProxy \in Seq(Components)
    BY <1>1, AddressAssumption DEF TypeOK
  <2> QED BY <1>2, <2>2, <2>3, Inside
<1>5. CASE ~Torish /\ addr = asked
  <2>1. ~Has(asked, {"tor"}) /\ ~Has(asked, {"onion3"})
    BY <1>5 DEF Torish, Has
  <2>2. Has(addr, {"socks5"}) => proxy = PlainProxy
    BY <1>1, <1>2, <1>5, <2>1, ExplicitIs DEF TypeOK, PlainProxy, via
  <2>3. Has(addr, {"socks5"}) /\ proxy # None => proxy \in Proxies
    BY <1>1, <2>2, InPlay DEF PlainProxy
  <2>4. CASE /\ ~Has(addr, {"socks5"}) \/ proxy = None \/ ~IsPair(addr)
             /\ NotSupported(addr, "tcp")
    <3>1. TypeOK' /\ Made' /\ AtTor' /\ Properties' /\ addr' = addr /\ stage' = "tcp"
      BY <1>1, <2>4, HandOn
    <3>2. Has(asked, {"socks5"}) => ~IsPair(asked) \/ PlainProxy = None
      BY <1>5, <2>2, <2>4
    <3>3. AtTcp' /\ AtSocks'
      BY <1>1, <1>5, <3>1, <3>2, Frame DEF AtTcp, AtSocks, Settings
    <3> QED BY <3>1, <3>3 DEF IInv
  <2>5. CASE /\ Has(addr, {"socks5"}) /\ proxy # None /\ ~IsSocket(proxy)
             /\ NotSupported(proxy, "tcp")
    <3>1. TypeOK' /\ Made' /\ AtTor' /\ Properties' /\ stage' = "tcp"
      BY <1>1, <1>4, <2>5, HandOn
    <3>2. ~ProxiesAreSockets
      BY <2>3, <2>5 DEF ProxiesAreSockets
    <3>3. AtTcp' /\ AtSocks'
      BY <1>1, <3>1, <3>2, Frame DEF AtTcp, AtSocks
    <3> QED BY <3>1, <3>3 DEF IInv
  <2>6. CASE /\ Has(addr, {"socks5"})
             /\ Dialled("proxied", ToPair(proxy), ToPair(addr))
    <3>1. PICK pair, target : pair = ToPair(proxy) /\ target = ToPair(addr)
      OBVIOUS
    <3>2. Dialled("proxied", pair, target)
      BY <2>6, <3>1
    <3>3. target = Target(asked)
      BY <1>5, <2>1, <3>1 DEF Target
    <3>4. pair = ToPair(IF Torish THEN ProxyToUse ELSE PlainProxy)
      BY <1>5, <2>2, <2>6, <3>1
    <3> QED BY <1>1, <3>2, <3>3, <3>4, ByProxy
  <2> QED BY <1>3, <2>4, <2>5, <2>6
<1>6. CASE Useless
  <2>1. ~IsPair(addr) /\ Torish
    BY <1>6 DEF Useless
  <2>2. CASE NotSupported(addr, "tcp")
    <3>1. TypeOK' /\ Made' /\ AtTor' /\ Properties' /\ addr' = addr /\ stage' = "tcp"
      BY <1>1, <2>2, HandOn
    <3>2. Useless'
      BY <1>1, <1>6, <3>1, Frame DEF Useless, Settings
    <3>3. AtTcp' /\ AtSocks'
      BY <3>1, <3>2 DEF AtTcp, AtSocks
    <3> QED BY <3>1, <3>3 DEF IInv
  <2>3. CASE /\ Has(addr, {"socks5"}) /\ proxy # None /\ ~IsSocket(proxy)
             /\ NotSupported(proxy, "tcp")
    <3>1. TypeOK' /\ Made' /\ AtTor' /\ Properties' /\ stage' = "tcp"
      BY <1>1, <1>4, <2>3, HandOn
    <3>2. via \in {None, ProxyToUse} /\ IsSocket(ProxyToUse)
      BY <1>6, <2>3 DEF Useless, via
    <3>3. proxy = socksProxy
      BY <1>2, <2>3, <3>2
    <3>4. ~ProxiesAreSockets
      BY <1>1, <2>3, <3>3, InPlay DEF ProxiesAreSockets
    <3>5. AtTcp' /\ AtSocks'
      BY <1>1, <3>1, <3>4, Frame DEF AtTcp, AtSocks
    <3> QED BY <3>1, <3>5 DEF IInv
  <2> QED BY <1>3, <2>1, <2>2, <2>3
<1>7. CASE addr = ProxyToUse /\ ~IsSocket(ProxyToUse)
  <2>1. ~ProxiesAreSockets
    BY <1>1, <1>7, InPlay DEF ProxiesAreSockets
  <2>2. ASSUME NEW a \in Seq(Universe), NotSupported(a, "tcp") PROVE IInv'
    <3>1. TypeOK' /\ Made' /\ AtTor' /\ Properties' /\ stage' = "tcp"
      BY <1>1, <2>2, HandOn
    <3>2. AtTcp' /\ AtSocks'
      BY <1>1, <2>1, <3>1, Frame DEF AtTcp, AtSocks
    <3> QED BY <3>1, <3>2 DEF IInv
  <2>3. ASSUME Has(addr, {"socks5"}), Dialled("proxied", ToPair(proxy), ToPair(addr))
        PROVE  IInv'
    <3>1. ~NoProxyBehindProxy
      BY <1>1, <1>7, <2>3, InPlay DEF NoProxyBehindProxy
    <3>2. PICK pair, target : pair = ToPair(proxy) /\ target = ToPair(addr)
      OBVIOUS
    <3>3. Dialled("proxied", pair, target)
      BY <2>3, <3>2
    <3> QED BY <1>1, <2>1, <3>1, <3>3, ByProxy
  <2>4. CASE NotSupported(addr, "tcp")
    <3>1. PICK a \in Seq(Universe) : a = addr
      BY <1>1
    <3> QED BY <2>2, <2>4, <3>1
  <2> QED BY <1>3, <1>4, <2>2, <2>3, <2>4
<1> QED BY <1>1, <1>5, <1>6, <1>7 DEF IInv, AtSocks

(* An address that ends in a host and a port has them; if it has only one
   of each, they are where it leads.                                       *)
LEMMA EndIsPair ==
  ASSUME NEW a \in Seq(Universe), NEW i \in DOMAIN a, NEW j \in DOMAIN a, CanDial(a, i, j)
  PROVE  /\ IsPair(a)
         /\ OneTarget(a) => ToPair(a) = <<a[i].v, a[j].v>>
<1>1. a[i].p \in {"ip", "dns"} /\ a[j].p = "tcp"
  BY DEF CanDial
<1>2. IsPair(a)
  BY <1>1 DEF IsPair, Has
<1>3. ASSUME OneTarget(a) PROVE ToPair(a) = <<a[i].v, a[j].v>>
  <2>1. /\ \A k \in DOMAIN a : a[k].p \in {"ip", "dns"} => k = i
        /\ \A k \in DOMAIN a : a[k].p = "tcp" => k = j
    BY <1>1, <1>3 DEF OneTarget, AtMostOne
  <2>2. i \in 1 .. Len(a) /\ j \in 1 .. Len(a) /\ DOMAIN a = 1 .. Len(a)
    OBVIOUS
  <2>3. Get(a, {"tcp"}) = a[j]
    <3>1. a[j].p \in {"tcp"} /\ \A k \in 1 .. Len(a) : a[k].p \in {"tcp"} => k = j
      BY <1>1, <2>1, <2>2
    <3> QED BY <3>1, <2>2, OnlyOne
  <2>4. CASE a[i].p = "ip"
    <3>1. a[i].p \in {"ip"} /\ \A k \in 1 .. Len(a) : a[k].p \in {"ip"} => k = i
      BY <2>1, <2>2, <2>4
    <3>2. Has(a, {"ip"}) /\ Get(a, {"ip"}) = a[i]
      BY <3>1, <2>2, OnlyOne
    <3> QED BY <3>2, <2>3 DEF ToPair
  <2>5. CASE a[i].p = "dns"
    <3>1. a[i].p \in {"dns"} /\ \A k \in 1 .. Len(a) : a[k].p \in {"dns"} => k = i
      BY <2>1, <2>2, <2>5
    <3>2. Has(a, {"dns"}) /\ Get(a, {"dns"}) = a[i]
      BY <3>1, <2>2, OnlyOne
    <3>3. ~Has(a, {"ip"})
      <4> SUFFICES ASSUME NEW k \in DOMAIN a, a[k].p = "ip" PROVE FALSE
        BY DEF Has
      <4> QED BY <2>1, <2>5
    <3> QED BY <3>2, <3>3, <2>3 DEF ToPair
  <2> QED BY <1>1, <2>4, <2>5
<1> QED BY <1>2, <1>3

(* A usual address that names neither a proxy nor Tor ends in a host and a
   port.                                                                   *)
LEMMA UsualEnds ==
  ASSUME NEW a \in Seq(Universe), Usual(a),
         ~Has(a, {"tor"}), ~Has(a, {"onion3"}), ~Has(a, {"socks5"})
  PROVE  \E i, j \in DOMAIN a : CanDial(a, i, j)
<1>1. PICK host, port \in DOMAIN a :
        /\ \/ host < port /\ a[host].p \in {"ip", "dns"} /\ a[port].p = "tcp"
           \/ host = port /\ a[host].p = "onion3"
        /\ \A i \in DOMAIN a \ {host, port} :
             \/ a[i].p = "p2p"
             \/ /\ i > port /\ (a[i].p = "socks5" \/ (a[i].p = "tor" /\ host # port))
                /\ \A j \in DOMAIN a : j > port /\ j # i => a[j].p = "p2p"
  BY DEF Usual
<1>2. \A i \in DOMAIN a : a[i].p \notin {"tor", "onion3", "socks5"}
  BY DEF Has
<1>3. host < port /\ a[host].p \in {"ip", "dns"} /\ a[port].p = "tcp"
  BY <1>1, <1>2
<1>4. \A i \in DOMAIN a \ {host, port} : a[i].p = "p2p"
  BY <1>1, <1>2
<1>5. {k \in DOMAIN a : k >= host /\ a[k].p # "p2p"} = {host, port}
  BY <1>3, <1>4
<1> QED BY <1>3, <1>5 DEF CanDial, EndsAt

(* DNS over TCP preserves the invariant. *)
LEMMA DirectDialKeeps ==
  ASSUME IInv, DirectDial
  PROVE  IInv'
<1>1. /\ TypeOK /\ Made /\ addr \in Seq(Universe)
      /\ stage = "tcp" /\ UNCHANGED Settings
  BY DEF IInv, Made, DirectDial, Settings
<1>2. CASE /\ ~ \E i, j \in DOMAIN addr : CanDial(addr, i, j)
           /\ NotSupported(addr, "done")
  <2>1. ASSUME ProxiesAreSockets, Usual(asked)
        PROVE  ~Torish /\ Has(asked, {"socks5"}) /\ PlainProxy = None
    <3>1. /\ ~Torish /\ addr = asked
          /\ Has(asked, {"socks5"}) => ~IsPair(asked) \/ PlainProxy = None
      BY <1>1, <2>1 DEF IInv, AtTcp, Useless
    <3>2. ~Has(asked, {"tor"}) /\ ~Has(asked, {"onion3"})
      BY <3>1 DEF Torish, Has
    <3>3. IsPair(asked)
      BY <2>1, <3>2, UsualIsPair
    <3>4. Has(asked, {"socks5"})
      BY <1>1, <1>2, <2>1, <3>1, <3>2, UsualEnds
    <3> QED BY <3>1, <3>3, <3>4
  <2> QED BY <1>1, <1>2, <2>1, NotAtAll
<1>3. ASSUME NEW i \in DOMAIN addr, NEW j \in DOMAIN addr, CanDial(addr, i, j),
             Dialled("direct", None, <<addr[i].v, addr[j].v>>)
      PROVE  IInv'
  <2>1. PICK target : target = <<addr[i].v, addr[j].v>>
    OBVIOUS
  <2>2. IsPair(addr) /\ (OneTarget(addr) => ToPair(addr) = target)
    BY <1>1, <1>3, <2>1, EndIsPair
  <2>3. ASSUME ProxiesAreSockets
        PROVE  ~Torish /\ addr = asked
    BY <1>1, <2>2, <2>3 DEF IInv, AtTcp, Useless
  <2>4. ASSUME ProxiesAreSockets, OneTarget(asked) PROVE target = Target(asked)
    <3>1. ~Has(asked, {"onion3"})
      BY <2>3, <2>4 DEF Torish, Has
    <3> QED BY <2>2, <2>3, <2>4, <3>1 DEF Target
  <2>5. ASSUME ProxiesAreSockets PROVE ~Has(asked, {"socks5"})
    <3> SUFFICES ASSUME NEW k \in DOMAIN asked, asked[k].p = "socks5" PROVE FALSE
      BY DEF Has
    <3>1. addr = asked
      BY <2>3, <2>5
    <3>2. /\ asked \in Seq(Components)
          /\ \A n \in 1 .. Len(asked) - 1 : asked[n].p # "socks5"
      BY <1>1, AddressAssumption DEF TypeOK
    <3>3. k = Len(asked) /\ k \in Nat /\ i \in 1 .. k /\ j \in 1 .. k
      BY <3>1, <3>2
    <3>4. k \in {n \in DOMAIN addr : n >= i /\ addr[n].p # "p2p"}
      BY <3>1, <3>3
    <3>5. k \in {i, j}
      BY <1>3, <3>4 DEF CanDial, EndsAt
    <3> QED BY <1>3, <3>1, <3>5 DEF CanDial
  <2> QED BY <1>1, <1>3, <2>1, <2>3, <2>4, <2>5, Directly
<1> QED BY <1>2, <1>3 DEF DirectDial

-----------------------------------------------------------------------------
(* The inductive invariant holds in every reachable state: what each
   transport is given, and what a dial that is over came to.               *)
THEOREM Invariance == Spec => []IInv
<1>1. Init => IInv
  <2> SUFFICES ASSUME Init PROVE IInv
    OBVIOUS
  <2>1. /\ useTor \in BOOLEAN /\ torProxy \in TorProxies /\ socksProxy \in SocksProxies
        /\ asked \in Addresses /\ addr = asked /\ stage = "tor"
        /\ outcome.kind = "pending"
    BY DEF Init
  <2>2. Made
    BY <2>1, Inside DEF Made
  <2>3. \A i \in DOMAIN addr : DOMAIN addr[i] = {"p", "v", "via"}
    BY <2>2, MadeIsTyped DEF Made
  <2>4. TypeOK
    BY <2>1, <2>3 DEF TypeOK, Outcomes
  <2>5. Properties
    BY <2>1 DEF Properties, TargetIsDialled, NoDirectDial, ProxyAsAsked, UsualIsDialled, Reached
  <2> QED BY <2>1, <2>2, <2>4, <2>5 DEF IInv, AtTor, AtSocks, AtTcp
<1>2. IInv /\ [Next]_vars => IInv'
  <2> SUFFICES ASSUME IInv, [Next]_vars PROVE IInv'
    OBVIOUS
  <2>1. CASE TorDial
    BY <2>1, TorDialKeeps
  <2>2. CASE SocksDial
    BY <2>2, SocksDialKeeps
  <2>3. CASE DirectDial
    BY <2>3, DirectDialKeeps
  <2>4. CASE UNCHANGED vars
    <3>1. UNCHANGED Settings /\ UNCHANGED <<addr, stage, outcome>>
      BY <2>4 DEF vars, Settings
    <3>2. TypeOK' /\ Made' /\ AtTor'
      BY <3>1 DEF IInv, TypeOK, Made, AtTor, Settings
    <3>3. Useless' <=> Useless
      BY <3>1, Frame DEF Useless, Settings
    <3>4. AtSocks' /\ AtTcp'
      BY <3>1, <3>3, Frame DEF IInv, AtSocks, AtTcp, Settings
    <3>5. Properties'
      BY <3>1, Frame DEF IInv, Properties, TargetIsDialled, NoDirectDial, ProxyAsAsked,
                        UsualIsDialled, Reached, Settings
    <3> QED BY <3>2, <3>4, <3>5 DEF IInv
  <2> QED BY <2>1, <2>2, <2>3, <2>4 DEF Next
<1> QED BY <1>1, <1>2, PTL DEF Spec

(* TypeOK: every variable stays in its range, and a dial is over exactly when
   something came of it (the three dial functions).                        *)
THEOREM TypesHold == Spec => []TypeOK
<1>1. IInv => TypeOK
  BY DEF IInv
<1> QED BY <1>1, Invariance, PTL

(* TargetIsDialled: for any address and any proxies, what is dialled is the
   host and port asked for (multiaddr_replace, multiaddr_to_pair).         *)
THEOREM TargetReached == Spec => []TargetIsDialled
<1>1. IInv => TargetIsDialled
  BY DEF IInv, Properties
<1> QED BY <1>1, Invariance, PTL

(* NoDirectDial: neither --use-tor nor an address that asks for a proxy leads
   to a connection without one, however the transports hand it on.         *)
THEOREM NothingBypassesProxies == Spec => []NoDirectDial
<1>1. IInv => NoDirectDial
  BY DEF IInv, Properties
<1> QED BY <1>1, Invariance, PTL

(* ProxyAsAsked: the proxy is the one the address names, else the one that
   belongs to the way it takes (Socks5Transport::do_dial).                 *)
THEOREM ProxyIsAsAsked == Spec => []ProxyAsAsked
<1>1. IInv => ProxyAsAsked
  BY DEF IInv, Properties
<1> QED BY <1>1, Invariance, PTL

(* UsualIsDialled: the addresses people use get through some transport. *)
THEOREM UsualGetThrough == Spec => []UsualIsDialled
<1>1. IInv => UsualIsDialled
  BY DEF IInv, Properties
<1> QED BY <1>1, Invariance, PTL

=============================================================================
