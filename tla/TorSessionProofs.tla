------------------------- MODULE TorSessionProofs -------------------------
(***************************************************************************)
(* Proofs about TorControl, for any number of commands and events, and     *)
(* about TorSession, for any number of creations: the engine's             *)
(* conversation with Tor implements OnionCreation.                         *)
(***************************************************************************)
EXTENDS TorSession, SequenceTheorems, FiniteSetTheorems, TLAPS

(* A stream s of lines; everything said of it holds of its beginnings too. *)

(* Line k of s is the first of a reply. *)
Begins(s, k) == s[k].to # Event /\ (k = 1 \/ s[k - 1].last)

(* What the form of a line tells about its place: a 250- line is not a
   reply's last, data are followed by a dot before their reply ends.       *)
FormsFit(s) ==
  /\ \A k \in 1 .. Len(s) :
       /\ s[k].form = "mid" => ~s[k].last
       /\ s[k].form = "end" => s[k].last
       /\ s[k].form \in {"text", "dot"} => s[k].code = "ok"
       /\ s[k].to = Event /\ s[k].code = "ok" => s[k].form \in {"text", "dot"}
       /\ s[k].to # Event /\ ~s[k].last => s[k].code = "ok"
  /\ \A k \in 1 .. Len(s) : \A m \in k .. Len(s) :
       s[k].form = "data" /\ s[m].last => \E q \in k + 1 .. m : s[q].form = "dot"

(* The lines of a reply are together, and commands are answered in order,
   none left out.                                                          *)
InOrder(s) ==
  /\ \A k \in 2 .. Len(s) : ~s[k - 1].last => s[k].to = s[k - 1].to
  /\ \A j, k \in 1 .. Len(s) :
       j < k /\ Begins(s, j) /\ Begins(s, k) => s[j].to < s[k].to
  /\ \A k \in 1 .. Len(s) : Begins(s, k) =>
       \A n \in 1 .. s[k].to - 1 : \E j \in 1 .. Len(s) :
         j < k /\ Begins(s, j) /\ s[j].to = n

(* The replies of s are those to the commands 1 to n. *)
Answers1To(s, n) ==
  /\ \A k \in 1 .. Len(s) : Begins(s, k) => s[k].to <= n
  /\ \A c \in 1 .. n : \E k \in 1 .. Len(s) : Begins(s, k) /\ s[k].to = c

(* Every line is an answer to a command sent; while the connection is open
   what Tor has begun to say is said, and the other commands wait in order. *)
Sent ==
  /\ \A k \in 1 .. Len(said) : said[k].to <= commands
  /\ closed => toTor = << >>
  /\ ~closed =>
       /\ Len(said) > 0 => said[Len(said)].last
       /\ Len(toTor) <= commands
       /\ \A i \in 1 .. Len(toTor) : toTor[i] = commands - Len(toTor) + i
       /\ Answers1To(said, commands - Len(toTor))

(* What is being read is all of one reply or event, and has not come to an
   end.                                                                    *)
Reading ==
  /\ reader \in {"mid", "data"} =>
       \A k \in begun + 1 .. read : said[k].to = said[begun + 1].to
  /\ reader = "mid" => \A k \in begun + 1 .. read : said[k].form = "mid"
  /\ reader = "data" => \A k \in begun + 2 .. read : said[k].form # "dot"

(* Each command that is not waiting has a result; results are of lines one
   after the other, and no reply is begun within one.                      *)
Told ==
  /\ Len(results) = commands - (IF reader = "idle" THEN 0 ELSE 1)
  /\ \A i \in 1 .. Len(results) :
       /\ results[i].first \in 1 .. begun + 1
       /\ results[i].upto \in 0 .. begun
  /\ \A i, j \in 1 .. Len(results) : i < j => results[i].upto < results[j].first
  /\ \A k \in 1 .. begun : BeginsReply(k) =>
       \E i \in 1 .. Len(results) : results[i].first = k /\ k <= results[i].upto

(* The inductive invariant of the connection. *)
IInv == /\ TypeOK /\ FormsFit(said) /\ InOrder(said)
        /\ Sent /\ Reading /\ Told /\ SuccessIsWhole

-----------------------------------------------------------------------------
(* What Tor says at a time. *)

(* Something said to command n, or an event. *)
Block(b, n) ==
  /\ b \in Seq(Line) /\ Len(b) \in Nat \ {0}
  /\ FormsFit(b)
  /\ \A k \in 1 .. Len(b) : b[k].to = n /\ (b[k].last <=> k = Len(b))

(* The fields of the shapes. *)
LEMMA ShapeFields ==
  /\ OkEnd \in Shape /\ OkEnd.code = "ok" /\ OkEnd.form = "end"
  /\ Mid \in Shape /\ Mid.code = "ok" /\ Mid.form = "mid"
  /\ Data \in Shape /\ Data.code = "ok" /\ Data.form = "data"
  /\ Text \in Shape /\ Text.code = "ok" /\ Text.form = "text"
  /\ Dot \in Shape /\ Dot.code = "ok" /\ Dot.form = "dot"
  /\ Error \in Shape /\ Error.code = "error" /\ Error.form = "end"
  /\ Garbled \in Shape /\ Garbled.code = "ok" /\ Garbled.form = "garbled"
  /\ Bare \in Shape /\ Bare.code = "async" /\ Bare.form = "bare"
  /\ \A f \in {"end", "mid", "data"} : /\ Sh("async", f) \in Shape
                                       /\ Sh("async", f).code = "async"
                                       /\ Sh("async", f).form = f
BY DEF OkEnd, Mid, Data, Text, Dot, Error, Garbled, Bare, Sh, Shape, Codes, Forms

(* A shape whose lines are where they belong. *)
WellFormed(shape) ==
  /\ shape \in Seq(Shape) /\ Len(shape) \in Nat \ {0}
  /\ \A k \in 1 .. Len(shape) :
       /\ shape[k].form = "mid" => k < Len(shape)
       /\ shape[k].form = "end" => k = Len(shape)
       /\ shape[k].form \in {"text", "dot"} => shape[k].code = "ok"
       /\ shape[k].form = "data" =>
            \E q \in k + 1 .. Len(shape) : shape[q].form = "dot"

LEMMA RepliesWellFormed ==
  ASSUME NEW shape \in ReplyShapes
  PROVE  /\ WellFormed(shape)
         /\ \A k \in 1 .. Len(shape) : k < Len(shape) => shape[k].code = "ok"
<1>1. /\ OkEnd \in Shape /\ Mid \in Shape /\ Data \in Shape /\ Text \in Shape
      /\ Dot \in Shape /\ Error \in Shape /\ Garbled \in Shape
  BY ShapeFields
<1>2. CASE shape \in {<<OkEnd>>, <<Error>>, <<Garbled>>}
  <2>1. PICK x \in {OkEnd, Error, Garbled} : shape = <<x>>
    BY <1>2
  <2>2. shape \in Seq(Shape) /\ Len(shape) = 1 /\ shape[1] = x
    BY <1>1, <2>1
  <2> QED BY <2>1, <2>2, ShapeFields DEF WellFormed
<1>3. CASE shape = <<Mid, Error>>
  <2>1. shape \in Seq(Shape) /\ Len(shape) = 2 /\ shape[1] = Mid /\ shape[2] = Error
    BY <1>1, <1>3
  <2>2. \A k \in 1 .. 2 : k = 1 \/ k = 2
    OBVIOUS
  <2> QED BY <2>1, <2>2, ShapeFields DEF WellFormed
<1>4. CASE shape \in {<<Mid, Mid, OkEnd>>, <<Mid, Garbled, OkEnd>>}
  <2>1. PICK x \in {Mid, Garbled} : shape = <<Mid, x, OkEnd>>
    BY <1>4
  <2>2. /\ shape \in Seq(Shape) /\ Len(shape) = 3
        /\ shape[1] = Mid /\ shape[2] = x /\ shape[3] = OkEnd
    BY <1>1, <2>1
  <2>3. \A k \in 1 .. 3 : k = 1 \/ k = 2 \/ k = 3
    OBVIOUS
  <2> QED BY <2>1, <2>2, <2>3, ShapeFields DEF WellFormed
<1>5. CASE shape = <<Data, Text, Dot>>
  <2>1. /\ shape \in Seq(Shape) /\ Len(shape) = 3
        /\ shape[1] = Data /\ shape[2] = Text /\ shape[3] = Dot
    BY <1>1, <1>5
  <2>2. (\A k \in 1 .. 3 : k = 1 \/ k = 2 \/ k = 3) /\ 3 \in 1 + 1 .. 3
    OBVIOUS
  <2> QED BY <2>1, <2>2, ShapeFields DEF WellFormed
<1>6. CASE shape = <<Data, Text, Dot, OkEnd>>
  <2>1. /\ shape \in Seq(Shape) /\ Len(shape) = 4
        /\ shape[1] = Data /\ shape[2] = Text /\ shape[3] = Dot /\ shape[4] = OkEnd
    BY <1>1, <1>6
  <2>2. (\A k \in 1 .. 4 : k = 1 \/ k = 2 \/ k = 3 \/ k = 4) /\ 3 \in 1 + 1 .. 4
    OBVIOUS
  <2> QED BY <2>1, <2>2, ShapeFields DEF WellFormed
<1>7. CASE shape = <<Mid, Data, Text, Dot, OkEnd>>
  <2>1. /\ shape \in Seq(Shape) /\ Len(shape) = 5 /\ shape[1] = Mid
        /\ shape[2] = Data /\ shape[3] = Text /\ shape[4] = Dot /\ shape[5] = OkEnd
    BY <1>1, <1>7
  <2>2. (\A k \in 1 .. 5 : k = 1 \/ k = 2 \/ k = 3 \/ k = 4 \/ k = 5) /\ 4 \in 2 + 1 .. 5
    OBVIOUS
  <2> QED BY <2>1, <2>2, ShapeFields DEF WellFormed
<1> QED BY <1>2, <1>3, <1>4, <1>5, <1>6, <1>7 DEF ReplyShapes

LEMMA EventsWellFormed ==
  ASSUME NEW shape \in EventShapes
  PROVE  /\ WellFormed(shape)
         /\ \A k \in 1 .. Len(shape) :
              shape[k].code = "ok" => shape[k].form \in {"text", "dot"}
<1> DEFINE end == Sh("async", "end")
           mid == Sh("async", "mid")
           data == Sh("async", "data")
<1>1. /\ end \in Shape /\ end.code = "async" /\ end.form = "end"
      /\ mid \in Shape /\ mid.code = "async" /\ mid.form = "mid"
      /\ data \in Shape /\ data.code = "async" /\ data.form = "data"
      /\ Bare \in Shape /\ Text \in Shape /\ Dot \in Shape
  BY ShapeFields
<1>2. shape \in {<<end>>, <<Bare>>, <<mid, Bare>>, <<data, Text, Dot, Bare>>}
  BY DEF EventShapes
<1> HIDE DEF end, mid, data
<1>3. CASE shape \in {<<end>>, <<Bare>>}
  <2>1. PICK x \in {end, Bare} : shape = <<x>>
    BY <1>3
  <2>2. shape \in Seq(Shape) /\ Len(shape) = 1 /\ shape[1] = x
    BY <1>1, <2>1
  <2> QED BY <1>1, <2>1, <2>2, ShapeFields DEF WellFormed
<1>4. CASE shape = <<mid, Bare>>
  <2>1. shape \in Seq(Shape) /\ Len(shape) = 2 /\ shape[1] = mid /\ shape[2] = Bare
    BY <1>1, <1>4
  <2>2. \A k \in 1 .. 2 : k = 1 \/ k = 2
    OBVIOUS
  <2> QED BY <1>1, <2>1, <2>2, ShapeFields DEF WellFormed
<1>5. CASE shape = <<data, Text, Dot, Bare>>
  <2>1. /\ shape \in Seq(Shape) /\ Len(shape) = 4
        /\ shape[1] = data /\ shape[2] = Text /\ shape[3] = Dot /\ shape[4] = Bare
    BY <1>1, <1>5
  <2>2. (\A k \in 1 .. 4 : k = 1 \/ k = 2 \/ k = 3 \/ k = 4) /\ 3 \in 1 + 1 .. 4
    OBVIOUS
  <2> QED BY <1>1, <2>1, <2>2, ShapeFields DEF WellFormed
<1> QED BY <1>2, <1>3, <1>4, <1>5

(* Length and domain of a sequence. *)
LEMMA ByLength ==
  ASSUME NEW S, NEW s \in Seq(S)
  PROVE  /\ Len(s) \in Nat /\ DOMAIN s = 1 .. Len(s)
         /\ s = << >> <=> Len(s) = 0
BY LenProperties, EmptySeq

(* Lines makes a block of a shape. *)
LEMMA LinesAre ==
  ASSUME NEW shape, WellFormed(shape), NEW n \in Ids \cup {Event}
  PROVE  /\ Lines(n, shape) \in Seq(Line) /\ Len(Lines(n, shape)) = Len(shape)
         /\ \A k \in 1 .. Len(shape) :
              /\ Lines(n, shape)[k].to = n
              /\ Lines(n, shape)[k].code = shape[k].code
              /\ Lines(n, shape)[k].form = shape[k].form
              /\ Lines(n, shape)[k].last <=> k = Len(shape)
<1> DEFINE e(k) == [to |-> n, code |-> shape[k].code, form |-> shape[k].form,
                    last |-> k = Len(shape)]
           l == [k \in 1 .. Len(shape) |-> e(k)]
<1>1. shape \in Seq(Shape) /\ Len(shape) \in Nat /\ DOMAIN shape = 1 .. Len(shape)
  BY ByLength DEF WellFormed
<1>2. Lines(n, shape) = l
  BY <1>1 DEF Lines
<1>3. \A k \in 1 .. Len(shape) :
        /\ e(k) \in Line /\ e(k).to = n /\ e(k).code = shape[k].code
        /\ e(k).form = shape[k].form /\ (e(k).last <=> k = Len(shape))
  <2> SUFFICES ASSUME NEW k \in 1 .. Len(shape) PROVE e(k) \in Line
    OBVIOUS
  <2>1. shape[k] \in Shape
    BY <1>1, ElementOfSeq
  <2>2. shape[k].code \in Codes /\ shape[k].form \in Forms
    BY <2>1 DEF Shape
  <2>3. (k = Len(shape)) \in BOOLEAN
    OBVIOUS
  <2> QED BY <2>2, <2>3 DEF Line
<1> HIDE DEF e
<1>4. l \in Seq(Line)
  <2>1. l \in [1 .. Len(shape) -> Line]
    BY <1>3
  <2> QED BY <1>1, <2>1, SeqDef
<1>5. Len(l) = Len(shape)
  BY <1>1
<1> QED BY <1>2, <1>3, <1>4, <1>5

LEMMA LinesBlock ==
  ASSUME NEW shape, WellFormed(shape), NEW n \in Ids \cup {Event},
         IF n = Event
           THEN \A k \in 1 .. Len(shape) :
                  shape[k].code = "ok" => shape[k].form \in {"text", "dot"}
           ELSE \A k \in 1 .. Len(shape) : k < Len(shape) => shape[k].code = "ok"
  PROVE  Block(Lines(n, shape), n)
<1> DEFINE b == Lines(n, shape)
<1>1. /\ b \in Seq(Line) /\ Len(b) = Len(shape) /\ Len(b) \in Nat \ {0}
      /\ \A k \in 1 .. Len(b) :
           /\ b[k].to = n /\ b[k].code = shape[k].code /\ b[k].form = shape[k].form
           /\ b[k].last <=> k = Len(b)
  BY LinesAre DEF WellFormed
<1> HIDE DEF b
<1>2. \A k \in 1 .. Len(b) :
        /\ b[k].form = "mid" => ~b[k].last
        /\ b[k].form = "end" => b[k].last
        /\ b[k].form \in {"text", "dot"} => b[k].code = "ok"
        /\ b[k].to = Event /\ b[k].code = "ok" => b[k].form \in {"text", "dot"}
        /\ b[k].to # Event /\ ~b[k].last => b[k].code = "ok"
  BY <1>1 DEF WellFormed
<1>3. \A k \in 1 .. Len(b) : \A m \in k .. Len(b) :
        b[k].form = "data" /\ b[m].last => \E q \in k + 1 .. m : b[q].form = "dot"
  <2> SUFFICES ASSUME NEW k \in 1 .. Len(b), NEW m \in k .. Len(b),
                      b[k].form = "data", b[m].last
               PROVE  \E q \in k + 1 .. m : b[q].form = "dot"
    OBVIOUS
  <2>1. m = Len(b)
    <3>1. m \in 1 .. Len(b)
      BY <1>1
    <3> QED BY <1>1, <3>1
  <2>2. PICK q \in k + 1 .. Len(shape) : shape[q].form = "dot"
    BY <1>1 DEF WellFormed
  <2>3. q \in 1 .. Len(b) /\ q \in k + 1 .. m
    BY <1>1, <2>1, <2>2
  <2> QED BY <1>1, <2>2, <2>3
<1> QED BY <1>1, <1>2, <1>3 DEF Block, FormsFit, b

-----------------------------------------------------------------------------
(* Streams. *)

(* Line by line: t is s and then b. *)
IsExtension(t, s, n, b) ==
  /\ t \in Seq(Line) /\ Len(t) = Len(s) + Len(b)
  /\ Len(s) \in Nat /\ Len(b) \in Nat \ {0}
  /\ \A i \in 1 .. Len(s) : /\ i \in 1 .. Len(t) /\ t[i] = s[i]
                            /\ Begins(t, i) <=> Begins(s, i)
  /\ \A k \in 1 .. Len(b) : /\ Len(s) + k \in 1 .. Len(t)
                            /\ t[Len(s) + k] = b[k]
                            /\ Begins(t, Len(s) + k) <=> k = 1 /\ n # Event
  /\ \A i \in 1 .. Len(t) :
       i \in 1 .. Len(s) \/ \E k \in 1 .. Len(b) : i = Len(s) + k
  /\ t[Len(t)].last

(* A block is said after what has been said. *)
LEMMA Extended ==
  ASSUME NEW s \in Seq(Line), Len(s) > 0 => s[Len(s)].last,
         NEW n \in Ids \cup {Event}, NEW b, Block(b, n), NEW t, t = s \o b
  PROVE  IsExtension(t, s, n, b)
<1>1. b \in Seq(Line) /\ Len(b) \in Nat \ {0} /\ Len(s) \in Nat
  BY ByLength DEF Block
<1>2. /\ t \in Seq(Line) /\ Len(t) = Len(s) + Len(b)
      /\ \A i \in 1 .. Len(s) + Len(b) :
           t[i] = IF i <= Len(s) THEN s[i] ELSE b[i - Len(s)]
  BY <1>1, ConcatProperties
<1>3. \A i \in 1 .. Len(s) : i \in 1 .. Len(t) /\ t[i] = s[i]
  BY <1>1, <1>2
<1>4. \A k \in 1 .. Len(b) : Len(s) + k \in 1 .. Len(t) /\ t[Len(s) + k] = b[k]
  <2> SUFFICES ASSUME NEW k \in 1 .. Len(b)
               PROVE  Len(s) + k \in 1 .. Len(t) /\ t[Len(s) + k] = b[k]
    OBVIOUS
  <2>1. /\ Len(s) + k \in 1 .. Len(s) + Len(b) /\ ~(Len(s) + k <= Len(s))
        /\ Len(s) + k - Len(s) = k
    BY <1>1
  <2> QED BY <1>2, <2>1
<1>5. ASSUME NEW i \in 1 .. Len(t)
      PROVE  i \in 1 .. Len(s) \/ \E k \in 1 .. Len(b) : i = Len(s) + k
  <2> SUFFICES ASSUME i \notin 1 .. Len(s)
               PROVE  i - Len(s) \in 1 .. Len(b) /\ i = Len(s) + (i - Len(s))
    OBVIOUS
  <2> QED BY <1>1, <1>2
<1>6. ASSUME NEW i \in 1 .. Len(s) PROVE Begins(t, i) <=> Begins(s, i)
  <2>1. i = 1 \/ i - 1 \in 1 .. Len(s)
    BY <1>1
  <2>2. t[i] = s[i] /\ (i # 1 => t[i - 1] = s[i - 1])
    BY <1>3, <2>1
  <2> QED BY <2>2 DEF Begins
<1>7. ASSUME NEW k \in 1 .. Len(b) PROVE Begins(t, Len(s) + k) <=> k = 1 /\ n # Event
  <2>1. t[Len(s) + k].to = n
    BY <1>4 DEF Block
  <2>2. CASE k # 1
    <3>1. k - 1 \in 1 .. Len(b) /\ Len(s) + (k - 1) = Len(s) + k - 1 /\ k - 1 # Len(b)
      BY <1>1, <2>2
    <3>2. t[Len(s) + k - 1] = b[k - 1]
      BY <1>4, <3>1
    <3>3. ~t[Len(s) + k - 1].last
      BY <3>1, <3>2 DEF Block
    <3>4. Len(s) + k # 1
      BY <1>1, <2>2
    <3> QED BY <2>2, <3>3, <3>4 DEF Begins
  <2>3. CASE k = 1
    <3>1. Len(s) + k - 1 = Len(s) /\ (Len(s) + k # 1 => Len(s) \in 1 .. Len(s))
      BY <1>1, <2>3
    <3>2. Len(s) + k # 1 => t[Len(s) + k - 1].last
      BY <1>1, <1>3, <3>1
    <3> QED BY <2>1, <2>3, <3>2 DEF Begins
  <2> QED BY <2>2, <2>3
<1>8. t[Len(t)].last
  <2>1. Len(b) \in 1 .. Len(b) /\ b[Len(b)].last
    BY <1>1 DEF Block
  <2> QED BY <1>2, <1>4, <2>1
<1> QED BY <1>1, <1>2, <1>3, <1>4, <1>5, <1>6, <1>7, <1>8 DEF IsExtension

(* The forms fit on both sides. *)
LEMMA ExtendedFits ==
  ASSUME NEW s \in Seq(Line), Len(s) > 0 => s[Len(s)].last, FormsFit(s),
         NEW n \in Ids \cup {Event}, NEW b, Block(b, n), NEW t, t = s \o b
  PROVE  FormsFit(t)
<1> DEFINE L == Len(s)
<1>1. /\ Len(t) = L + Len(b) /\ L \in Nat /\ Len(b) \in Nat \ {0}
      /\ \A i \in 1 .. L : t[i] = s[i]
      /\ \A k \in 1 .. Len(b) : t[L + k] = b[k]
      /\ \A i \in 1 .. Len(t) : i \in 1 .. L \/ \E k \in 1 .. Len(b) : i = L + k
  <2>1. IsExtension(t, s, n, b)
    BY Extended
  <2> QED BY <2>1 DEF IsExtension
<1> HIDE DEF L
<1>0. L > 0 => s[L].last
  BY DEF L
<1>01. FormsFit(s) /\ Len(s) = L
  BY DEF L
<1>2. FormsFit(b)
  BY DEF Block
<1>3. \A k \in 1 .. Len(t) :
        /\ t[k].form = "mid" => ~t[k].last
        /\ t[k].form = "end" => t[k].last
        /\ t[k].form \in {"text", "dot"} => t[k].code = "ok"
        /\ t[k].to = Event /\ t[k].code = "ok" => t[k].form \in {"text", "dot"}
        /\ t[k].to # Event /\ ~t[k].last => t[k].code = "ok"
  <2> SUFFICES ASSUME NEW k \in 1 .. Len(t)
               PROVE  \/ \E i \in 1 .. L : t[k] = s[i]
                      \/ \E i \in 1 .. Len(b) : t[k] = b[i]
    BY <1>2 DEF FormsFit
  <2> QED BY <1>1
<1>4. ASSUME NEW k \in 1 .. Len(t), NEW m \in k .. Len(t), t[k].form = "data", t[m].last
      PROVE  \E q \in k + 1 .. m : t[q].form = "dot"
  <2>1. CASE k \in 1 .. L
    <3>1. PICK p \in k .. L : p <= m /\ s[p].last
      <4>1. CASE m \in 1 .. L
        <5>1. m \in k .. L /\ m <= m
          BY <4>1
        <5> QED BY <1>1, <1>4, <4>1, <5>1
      <4>2. CASE m \notin 1 .. L
        <5>1. L \in k .. L /\ L <= m /\ L > 0
          BY <1>1, <2>1, <4>2
        <5> QED BY <1>0, <5>1
      <4> QED BY <4>1, <4>2
    <3>2. PICK q \in k + 1 .. p : s[q].form = "dot"
      BY <1>01, <1>1, <1>4, <2>1, <3>1 DEF FormsFit
    <3>3. q \in 1 .. L /\ q \in k + 1 .. m
      BY <1>1, <2>1, <3>1, <3>2
    <3> QED BY <1>1, <3>2, <3>3
  <2>2. CASE k \notin 1 .. L
    <3>1. PICK i \in 1 .. Len(b) : k = L + i
      BY <1>1, <2>2
    <3>2. m - L \in i .. Len(b) /\ m = L + (m - L) /\ m - L \in 1 .. Len(b)
      BY <1>1, <3>1
    <3>3. b[i].form = "data" /\ b[m - L].last
      BY <1>1, <1>4, <3>1, <3>2
    <3>4. PICK q \in i + 1 .. m - L : b[q].form = "dot"
      BY <1>2, <3>2, <3>3 DEF FormsFit
    <3>5. q \in 1 .. Len(b) /\ L + q \in k + 1 .. m
      <4>1. /\ L \in Int /\ i \in Int /\ m \in Int /\ Len(b) \in Int /\ q \in Int
            /\ i >= 1 /\ m - L <= Len(b) /\ i + 1 <= q /\ q <= m - L
        BY <1>1, <3>1, <3>2, <3>4
      <4> QED BY <3>1, <4>1
    <3> QED BY <1>1, <3>4, <3>5
  <2> QED BY <2>1, <2>2
<1>5. \A k \in 1 .. Len(t) : \A m \in k .. Len(t) :
        t[k].form = "data" /\ t[m].last => \E q \in k + 1 .. m : t[q].form = "dot"
  BY <1>4
<1> QED BY <1>3, <1>5, Zenon DEF FormsFit

(* The order is kept when the next command is answered or an event said. *)
LEMMA ExtendedInOrder ==
  ASSUME NEW s \in Seq(Line), Len(s) > 0 => s[Len(s)].last, InOrder(s),
         NEW m \in Nat, Answers1To(s, m),
         NEW n \in Ids \cup {Event}, n = Event \/ n = m + 1, NEW b, Block(b, n),
         NEW t, t = s \o b
  PROVE  /\ InOrder(t)
         /\ Answers1To(t, IF n = Event THEN m ELSE m + 1)
<1> DEFINE L == Len(s)
           c == IF n = Event THEN m ELSE m + 1
<1>1. /\ t \in Seq(Line) /\ Len(t) = L + Len(b) /\ L \in Nat /\ Len(b) \in Nat \ {0}
      /\ \A i \in 1 .. L : /\ i \in 1 .. Len(t) /\ t[i] = s[i]
                           /\ Begins(t, i) <=> Begins(s, i)
      /\ \A k \in 1 .. Len(b) : /\ L + k \in 1 .. Len(t)
                                /\ t[L + k] = b[k] /\ b[k].to = n
                                /\ b[k].last <=> k = Len(b)
                                /\ Begins(t, L + k) <=> k = 1 /\ n # Event
      /\ \A i \in 1 .. Len(t) : i \in 1 .. L \/ \E k \in 1 .. Len(b) : i = L + k
  <2>1. \A k \in 1 .. Len(b) : b[k].to = n /\ (b[k].last <=> k = Len(b))
    BY DEF Block
  <2>2. IsExtension(t, s, n, b)
    BY Extended
  <2> QED BY <2>1, <2>2 DEF IsExtension
<1>0. (L > 0 => s[L].last) /\ L = Len(s)
  OBVIOUS
<1> HIDE DEF L
<1>2. ASSUME NEW k \in 2 .. Len(t), ~t[k - 1].last PROVE t[k].to = t[k - 1].to
  <2>1. CASE k \in 1 .. L
    <3>1. k \in 2 .. L /\ k - 1 \in 1 .. L
      BY <1>1, <2>1
    <3> QED BY <1>0, <1>1, <1>2, <2>1, <3>1 DEF InOrder
  <2>2. CASE k \notin 1 .. L
    <3>1. PICK i \in 1 .. Len(b) : k = L + i
      BY <1>1, <2>2
    <3>2. CASE i = 1
      <4>1. k - 1 = L /\ L \in 1 .. L /\ L > 0
        BY <1>1, <3>1, <3>2
      <4>2. t[k - 1].last
        BY <1>0, <1>1, <4>1
      <4> QED BY <1>2, <4>2
    <3>3. CASE i # 1
      <4>1. k - 1 = L + (i - 1) /\ i - 1 \in 1 .. Len(b)
        BY <1>1, <3>1, <3>3
      <4>2. t[k] = b[i] /\ t[k - 1] = b[i - 1]
        BY <1>1, <3>1, <4>1
      <4>3. b[i].to = n /\ b[i - 1].to = n
        BY <1>1, <4>1
      <4> QED BY <4>2, <4>3
    <3> QED BY <3>2, <3>3
  <2> QED BY <2>1, <2>2
<1>3. ASSUME NEW k \in 1 .. Len(t), Begins(t, k), k \notin 1 .. L
      PROVE  k = L + 1 /\ t[k].to = m + 1 /\ n = m + 1
  <2>1. PICK i \in 1 .. Len(b) : k = L + i
    BY <1>1, <1>3
  <2> QED BY <1>1, <1>3, <2>1
<1>4. \A k \in 1 .. L : Begins(t, k) => Begins(s, k) /\ s[k].to \in 1 .. m /\ t[k] = s[k]
  <2> SUFFICES ASSUME NEW k \in 1 .. L, Begins(t, k) PROVE s[k].to \in 1 .. m
    BY <1>1
  <2>1. s[k] \in Line
    BY <1>0, ElementOfSeq
  <2>2. s[k].to \in Ids \cup {Event}
    BY <2>1 DEF Line
  <2>3. Begins(s, k)
    BY <1>1
  <2>4. s[k].to # Event /\ s[k].to <= m
    BY <1>0, <2>3 DEF Begins, Answers1To
  <2> QED BY <2>2, <2>4 DEF Ids, Event
<1>5. ASSUME NEW j \in 1 .. Len(t), NEW k \in 1 .. Len(t), j < k, Begins(t, j), Begins(t, k)
      PROVE  t[j].to < t[k].to
  <2>1. CASE k \in 1 .. L
    <3>1. j \in 1 .. L
      BY <1>1, <1>5, <2>1
    <3> QED BY <1>0, <1>4, <1>5, <2>1, <3>1 DEF InOrder
  <2>2. CASE k \notin 1 .. L
    <3>1. k = L + 1 /\ t[k].to = m + 1
      BY <1>3, <1>5, <2>2
    <3>2. j \in 1 .. L
      BY <1>1, <1>5, <3>1
    <3> QED BY <1>4, <1>5, <3>1, <3>2
  <2> QED BY <2>1, <2>2
<1>6. ASSUME NEW k \in 1 .. Len(t), Begins(t, k), NEW a \in 1 .. t[k].to - 1
      PROVE  \E j \in 1 .. Len(t) : j < k /\ Begins(t, j) /\ t[j].to = a
  <2>1. CASE k \in 1 .. L
    <3>1. PICK j \in 1 .. L : j < k /\ Begins(s, j) /\ s[j].to = a
      BY <1>0, <1>4, <1>6, <2>1 DEF InOrder
    <3> QED BY <1>1, <3>1
  <2>2. CASE k \notin 1 .. L
    <3>1. k = L + 1 /\ a \in 1 .. m
      BY <1>3, <1>6, <2>2
    <3>2. PICK j \in 1 .. L : Begins(s, j) /\ s[j].to = a
      BY <1>0, <3>1 DEF Answers1To
    <3>3. j < k
      BY <1>1, <3>1
    <3> QED BY <1>1, <3>2, <3>3
  <2> QED BY <2>1, <2>2
<1>7. \A k \in 1 .. Len(t) : Begins(t, k) => t[k].to <= c
  <2> SUFFICES ASSUME NEW k \in 1 .. Len(t), Begins(t, k) PROVE t[k].to <= c
    OBVIOUS
  <2>1. CASE k \in 1 .. L
    BY <1>4, <2>1
  <2>2. CASE k \notin 1 .. L
    <3>1. t[k].to = m + 1 /\ n = m + 1
      BY <1>3, <2>2
    <3> QED BY <3>1 DEF Event
  <2> QED BY <2>1, <2>2
<1>8. ASSUME NEW a \in 1 .. c PROVE \E k \in 1 .. Len(t) : Begins(t, k) /\ t[k].to = a
  <2>1. CASE a \in 1 .. m
    <3>1. PICK k \in 1 .. L : Begins(s, k) /\ s[k].to = a
      BY <1>0, <2>1 DEF Answers1To
    <3> QED BY <1>1, <3>1
  <2>2. CASE a \notin 1 .. m
    <3>1. n # Event /\ a = m + 1 /\ n = m + 1
      BY <1>8, <2>2
    <3>2. 1 \in 1 .. Len(b)
      BY <1>1
    <3>3. /\ L + 1 \in 1 .. Len(t) /\ Begins(t, L + 1)
          /\ t[L + 1] = b[1] /\ b[1].to = n
      BY <1>1, <3>1, <3>2
    <3> QED BY <3>1, <3>3
  <2> QED BY <2>1, <2>2
<1>9. InOrder(t)
  BY <1>2, <1>5, <1>6 DEF InOrder
<1>10. Answers1To(t, c)
  BY <1>7, <1>8 DEF Answers1To
<1> QED BY <1>9, <1>10

(* What was said last is lost, and a line perhaps cut. *)
LEMMA CutShort ==
  ASSUME NEW s \in Seq(Line), FormsFit(s), InOrder(s),
         NEW t \in Seq(Line), Len(t) <= Len(s),
         \A k \in 1 .. Len(t) :
           /\ t[k].to = s[k].to /\ t[k].code = s[k].code /\ t[k].last = s[k].last
           /\ \/ t[k].form = s[k].form
              \/ t[k].form \in {"garbled", "bare"} /\ s[k].form \notin {"text", "dot"}
  PROVE  /\ FormsFit(t) /\ InOrder(t)
         /\ \A k \in 1 .. Len(t) : Begins(t, k) <=> Begins(s, k)
<1>1. /\ Len(s) \in Nat /\ Len(t) \in Nat
      /\ \A k \in 1 .. Len(t) : k \in 1 .. Len(s)
  BY ByLength
<1>2. ASSUME NEW k \in 1 .. Len(t) PROVE Begins(t, k) <=> Begins(s, k)
  <2>1. k = 1 \/ k - 1 \in 1 .. Len(t)
    BY <1>1
  <2> QED BY <2>1 DEF Begins
<1>3. FormsFit(t)
  <2>1. \A k \in 1 .. Len(t) :
          /\ t[k].form = "mid" => ~t[k].last
          /\ t[k].form = "end" => t[k].last
          /\ t[k].form \in {"text", "dot"} => t[k].code = "ok"
          /\ t[k].to = Event /\ t[k].code = "ok" => t[k].form \in {"text", "dot"}
          /\ t[k].to # Event /\ ~t[k].last => t[k].code = "ok"
    <3> TAKE k \in 1 .. Len(t)
    <3>1. /\ s[k].form = "mid" => ~s[k].last
          /\ s[k].form = "end" => s[k].last
          /\ s[k].form \in {"text", "dot"} => s[k].code = "ok"
          /\ s[k].to = Event /\ s[k].code = "ok" => s[k].form \in {"text", "dot"}
          /\ s[k].to # Event /\ ~s[k].last => s[k].code = "ok"
      BY <1>1 DEF FormsFit
    <3> QED BY <3>1
  <2>2. ASSUME NEW k \in 1 .. Len(t), NEW m \in k .. Len(t), t[k].form = "data", t[m].last
        PROVE  \E q \in k + 1 .. m : t[q].form = "dot"
    <3>1. k \in 1 .. Len(s) /\ m \in k .. Len(s) /\ m \in 1 .. Len(t)
      BY <1>1
    <3>2. s[k].form = "data" /\ s[m].last
      BY <2>2, <3>1
    <3>3. PICK q \in k + 1 .. m : s[q].form = "dot"
      BY <3>1, <3>2 DEF FormsFit
    <3>4. q \in 1 .. Len(t)
      BY <1>1, <3>1
    <3> QED BY <3>3, <3>4
  <2> QED BY <2>1, <2>2 DEF FormsFit
<1>4. \A k \in 2 .. Len(t) : ~t[k - 1].last => t[k].to = t[k - 1].to
  <2> TAKE k \in 2 .. Len(t)
  <2>1. k \in 2 .. Len(s) /\ k \in 1 .. Len(t) /\ k - 1 \in 1 .. Len(t)
    BY <1>1
  <2> QED BY <2>1 DEF InOrder
<1>5. \A j, k \in 1 .. Len(t) :
        j < k /\ Begins(t, j) /\ Begins(t, k) => t[j].to < t[k].to
  BY <1>1, <1>2 DEF InOrder
<1>6. ASSUME NEW k \in 1 .. Len(t), Begins(t, k), NEW n \in 1 .. t[k].to - 1
      PROVE  \E j \in 1 .. Len(t) : j < k /\ Begins(t, j) /\ t[j].to = n
  <2>1. PICK j \in 1 .. Len(s) : j < k /\ Begins(s, j) /\ s[j].to = n
    BY <1>1, <1>2, <1>6 DEF InOrder
  <2>2. j \in 1 .. Len(t)
    BY <1>1, <2>1
  <2> QED BY <1>2, <2>1, <2>2
<1> QED BY <1>2, <1>3, <1>4, <1>5, <1>6 DEF InOrder

-----------------------------------------------------------------------------
(* The connection. *)

(* The numbers the invariant speaks of. *)
LEMMA Ranges ==
  ASSUME IInv
  PROVE  /\ said \in Seq(Line) /\ Len(said) \in Nat /\ read \in 0 .. Len(said)
         /\ begun \in 0 .. read /\ read \in Nat /\ begun \in Nat
         /\ results \in Seq(Result) /\ Len(results) \in Nat
         /\ DOMAIN results = 1 .. Len(results)
         /\ commands \in Nat /\ commands <= MaxCommands
         /\ toTor \in Seq(Ids) /\ Len(toTor) \in Nat
BY ByLength, CommandAssumption DEF IInv, TypeOK

(* Whatever else arrives, what has been read and told remains what it was. *)
LEMMA PastKept ==
  ASSUME IInv, said' \in Seq(Line), read <= Len(said'),
         \A k \in 1 .. read : said'[k] = said[k],
         UNCHANGED <<commands, read, reader, begun, results>>
  PROVE  /\ Reading' /\ Told' /\ SuccessIsWhole'
         /\ reader \in {"mid", "data"} => said'[begun + 1].form = reader
<1>1. /\ read \in Nat /\ begun \in 0 .. read /\ DOMAIN results = 1 .. Len(results)
      /\ \A k \in 1 .. begun : k \in 1 .. read /\ said'[k] = said[k]
  BY Ranges
<1>2. reader \in {"mid", "data"} => begun + 1 \in 1 .. read /\ said'[begun + 1] = said[begun + 1]
  BY <1>1 DEF IInv, TypeOK
<1>3. Reading'
  <2>1. \A k \in begun + 1 .. read : k \in 1 .. read
    BY <1>1
  <2>2. \A k \in begun + 2 .. read : k \in 1 .. read
    BY <1>1
  <2> QED BY <1>2, <2>1, <2>2 DEF Reading, IInv
<1>4. \A k \in 1 .. begun : BeginsReply(k)' <=> BeginsReply(k)
  <2> TAKE k \in 1 .. begun
  <2>1. k = 1 \/ k - 1 \in 1 .. begun
    BY <1>1
  <2> QED BY <1>1, <2>1 DEF BeginsReply
<1>5. Told'
  BY <1>4 DEF Told, IInv
<1>6. SuccessIsWhole'
  <2> SUFFICES ASSUME NEW i \in 1 .. Len(results), results[i].ok
               PROVE  LET r == results[i]
                      IN  /\ r.first <= r.upto
                          /\ \A k \in r.first .. r.upto :
                               /\ said'[k].code = "ok"
                               /\ said'[k].to = said'[r.first].to
                               /\ k < r.upto => ~said'[k].last /\ said'[k].form # "dot"
                          /\ said'[r.first].to \in 1 .. i
                          /\ said'[r.upto].last \/ said'[r.upto].form = "dot"
    BY <1>1 DEF SuccessIsWhole
  <2> DEFINE r == results[i]
  <2>1. /\ r.first <= r.upto
        /\ \A k \in r.first .. r.upto :
             /\ said[k].code = "ok"
             /\ said[k].to = said[r.first].to
             /\ k < r.upto => ~said[k].last /\ said[k].form # "dot"
        /\ said[r.first].to \in 1 .. i
        /\ said[r.upto].last \/ said[r.upto].form = "dot"
    BY <1>1 DEF IInv, SuccessIsWhole
  <2>2. r.first \in 1 .. begun + 1 /\ r.upto \in 0 .. begun
    BY DEF IInv, Told
  <2> HIDE DEF r
  <2>3. \A k \in r.first .. r.upto : said'[k] = said[k]
    BY <1>1, <2>2
  <2>4. r.first \in r.first .. r.upto /\ r.upto \in r.first .. r.upto
    BY <2>1, <2>2
  <2>5. \A k \in r.first .. r.upto :
          /\ said'[k].code = "ok"
          /\ said'[k].to = said'[r.first].to
          /\ k < r.upto => ~said'[k].last /\ said'[k].form # "dot"
    BY <2>1, <2>3, <2>4
  <2>6. /\ said'[r.first].to \in 1 .. i
        /\ said'[r.upto].last \/ said'[r.upto].form = "dot"
    BY <2>1, <2>3, <2>4
  <2> QED BY <2>1, <2>5, <2>6 DEF r
<1> QED BY <1>2, <1>3, <1>5, <1>6 DEF IInv, TypeOK

(* send_command returns with the lines after begun, up to upto. *)
LEMMA OneMoreResult ==
  ASSUME IInv, NEW ok \in BOOLEAN, NEW upto \in begun .. Len(said), Return(ok, upto),
         UNCHANGED said, reader # "panicked",
         commands' = commands + (IF reader = "idle" THEN 1 ELSE 0),
         \A k \in begun + 1 .. upto - 1 : ~said[k].last,
         ok => /\ begun < upto /\ reader # "idle"
               /\ \A k \in begun + 1 .. upto :
                    /\ said[k].code = "ok" /\ said[k].to = said[begun + 1].to
                    /\ k < upto => said[k].form # "dot"
               /\ said[begun + 1].to # Event
               /\ said[upto].last \/ said[upto].form = "dot"
  PROVE  results' \in Seq(Result) /\ Told' /\ SuccessIsWhole'
<1> DEFINE new == [ok |-> ok, first |-> begun + 1, upto |-> upto]
           n == Len(results) + 1
<1>1. /\ begun \in Nat /\ upto \in Nat /\ Len(results) \in Nat /\ Len(said) \in Nat
      /\ results \in Seq(Result) /\ said \in Seq(Line) /\ commands \in Nat
      /\ DOMAIN results = 1 .. Len(results)
  BY Ranges
<1>2. new \in Result /\ new.ok = ok /\ new.first = begun + 1 /\ new.upto = upto
  BY <1>1 DEF Result
<1>3. results' = Append(results, new) /\ reader' = "idle" /\ begun' = upto
  BY DEF Return
<1> HIDE DEF new
<1>4. /\ results' \in Seq(Result) /\ Len(results') = n /\ DOMAIN results' = 1 .. n
      /\ \A i \in 1 .. Len(results) : results'[i] = results[i]
      /\ results'[n] = new
  BY <1>1, <1>2, <1>3, AppendProperties, ByLength
<1>5. \A i \in 1 .. n : i \in 1 .. Len(results) \/ i = n
  BY <1>1
<1>6. n = commands'
  BY <1>1 DEF IInv, Told
<1>7. Told'
  <2>1. \A i \in 1 .. n : /\ results'[i].first \in 1 .. begun' + 1
                          /\ results'[i].upto \in 0 .. begun'
    <3> TAKE i \in 1 .. n
    <3>1. CASE i = n
      BY <1>1, <1>2, <1>3, <1>4, <3>1
    <3>2. CASE i \in 1 .. Len(results)
      <4>1. results[i].first \in 1 .. begun + 1 /\ results[i].upto \in 0 .. begun
        BY <3>2 DEF IInv, Told
      <4> QED BY <1>1, <1>3, <1>4, <3>2, <4>1
    <3> QED BY <1>5, <3>1, <3>2
  <2>2. ASSUME NEW i \in 1 .. n, NEW j \in 1 .. n, i < j
        PROVE  results'[i].upto < results'[j].first
    <3>1. i \in 1 .. Len(results)
      BY <1>1, <2>2
    <3>2. CASE j = n
      <4>1. results[i].upto \in 0 .. begun
        BY <3>1 DEF IInv, Told
      <4> QED BY <1>1, <1>2, <1>4, <3>1, <3>2, <4>1
    <3>3. CASE j \in 1 .. Len(results)
      BY <1>4, <2>2, <3>1, <3>3 DEF IInv, Told
    <3> QED BY <1>5, <3>2, <3>3
  <2>3. ASSUME NEW k \in 1 .. begun', BeginsReply(k)'
        PROVE  \E i \in 1 .. n : results'[i].first = k /\ k <= results'[i].upto
    <3>1. BeginsReply(k)
      BY <2>3 DEF BeginsReply
    <3>2. CASE k \in 1 .. begun
      <4>1. PICK i \in 1 .. Len(results) : results[i].first = k /\ k <= results[i].upto
        BY <3>1, <3>2 DEF IInv, Told
      <4> QED BY <1>1, <1>4, <4>1
    <3>3. CASE k = begun + 1
      <4>1. n \in 1 .. n
        BY <1>1
      <4> QED BY <1>2, <1>3, <1>4, <3>3, <4>1
    <3>4. CASE k \notin 1 .. begun + 1
      <4>1. k - 1 \in begun + 1 .. upto - 1 /\ k # 1
        BY <1>1, <1>3, <3>4
      <4> QED BY <3>1, <4>1 DEF BeginsReply
    <3> QED BY <1>1, <3>2, <3>3, <3>4
  <2>4. Len(results') = commands' - (IF reader' = "idle" THEN 0 ELSE 1)
    BY <1>1, <1>3, <1>4, <1>6
  <2> QED BY <1>4, <2>1, <2>2, <2>3, <2>4 DEF Told
<1>8. ASSUME ok
      PROVE  /\ begun + 1 <= upto
             /\ \A k \in begun + 1 .. upto :
                  /\ said[k].code = "ok" /\ said[k].to = said[begun + 1].to
                  /\ k < upto => ~said[k].last /\ said[k].form # "dot"
             /\ said[begun + 1].to \in 1 .. n
             /\ said[upto].last \/ said[upto].form = "dot"
  <2>1. begun + 1 \in 1 .. Len(said) /\ begun + 1 <= upto
    BY <1>1, <1>8
  <2>2. said[begun + 1].to \in Ids \cup {Event} /\ said[begun + 1].to <= commands
    <3>1. said[begun + 1] \in Line
      BY <1>1, <2>1, ElementOfSeq
    <3>2. said[begun + 1].to <= commands
      BY <2>1 DEF IInv, Sent
    <3> QED BY <3>1, <3>2 DEF Line
  <2>3. n = commands
    BY <1>1, <1>6, <1>8
  <2>4. said[begun + 1].to \in 1 .. n
    BY <1>1, <1>8, <2>2, <2>3, CommandAssumption DEF Ids, Event
  <2>5. \A k \in begun + 1 .. upto : k < upto => k \in begun + 1 .. upto - 1
    BY <1>1
  <2> QED BY <1>8, <2>1, <2>4, <2>5
<1>9. SuccessIsWhole'
  <2> SUFFICES ASSUME NEW i \in 1 .. n, results'[i].ok
               PROVE  LET r == results'[i]
                      IN  /\ r.first <= r.upto
                          /\ \A k \in r.first .. r.upto :
                               /\ said[k].code = "ok"
                               /\ said[k].to = said[r.first].to
                               /\ k < r.upto => ~said[k].last /\ said[k].form # "dot"
                          /\ said[r.first].to \in 1 .. i
                          /\ said[r.upto].last \/ said[r.upto].form = "dot"
    BY <1>4 DEF SuccessIsWhole
  <2>1. CASE i = n
    BY <1>2, <1>4, <1>8, <2>1
  <2>2. CASE i \in 1 .. Len(results)
    BY <1>1, <1>4, <2>2 DEF IInv, SuccessIsWhole
  <2> QED BY <1>5, <2>1, <2>2
<1> QED BY <1>4, <1>7, <1>9

(* Nothing that is being read has come to an end. *)
LEMMA NotYetLast ==
  ASSUME IInv, reader \in {"mid", "data"}
  PROVE  /\ begun + 1 \in 1 .. read /\ said[begun + 1].form = reader
         /\ \A k \in begun + 1 .. read : ~said[k].last
         /\ \A k \in begun + 1 .. read : said[k].form # "dot"
         /\ said[begun + 1].code = "ok" =>
              /\ said[begun + 1].to # Event
              /\ \A k \in begun + 1 .. read : said[k].code = "ok"
<1>1. /\ begun \in Nat /\ read \in Nat /\ begun < read /\ read <= Len(said)
      /\ Len(said) \in Nat /\ said[begun + 1].form = reader
      /\ begun + 1 \in 1 .. Len(said)
  BY Ranges DEF IInv, TypeOK
<1>2. \A k \in begun + 1 .. read : k \in 1 .. Len(said) /\ (k = begun + 1 \/ k \in begun + 2 .. read)
  BY <1>1
<1>3. \A k \in begun + 1 .. read : said[k].form # "dot"
  BY <1>1, <1>2 DEF IInv, Reading
<1>4. ASSUME NEW k \in begun + 1 .. read PROVE ~said[k].last
  <2>1. CASE reader = "mid"
    BY <1>2, <2>1 DEF IInv, Reading, FormsFit
  <2>2. CASE reader = "data"
    <3> SUFFICES ASSUME said[k].last PROVE FALSE
      OBVIOUS
    <3>1. k \in begun + 1 .. Len(said)
      BY <1>1
    <3>2. PICK q \in begun + 1 + 1 .. k : said[q].form = "dot"
      BY <1>1, <2>2, <3>1 DEF IInv, FormsFit
    <3>3. q \in begun + 1 .. read
      BY <1>1, <3>2
    <3> QED BY <1>3, <3>2, <3>3
  <2> QED BY <2>1, <2>2
<1>5. ASSUME said[begun + 1].code = "ok"
      PROVE  /\ said[begun + 1].to # Event
             /\ \A k \in begun + 1 .. read : said[k].code = "ok"
  <2>1. said[begun + 1].to # Event
    BY <1>1, <1>5 DEF IInv, FormsFit
  <2>2. \A k \in begun + 1 .. read : said[k].to = said[begun + 1].to
    BY DEF IInv, Reading
  <2> QED BY <1>2, <1>4, <2>1, <2>2 DEF IInv, FormsFit
<1> QED BY <1>1, <1>3, <1>4, <1>5

(* The line after what is being read belongs to it. *)
LEMMA StillTheSame ==
  ASSUME IInv, reader \in {"mid", "data"}, read < Len(said)
  PROVE  said[read + 1].to = said[begun + 1].to
<1>1. read \in begun + 1 .. read /\ read + 1 \in 2 .. Len(said) /\ read + 1 - 1 = read
  BY Ranges, NotYetLast
<1>2. ~said[read].last /\ said[read].to = said[begun + 1].to
  BY <1>1, NotYetLast DEF IInv, Reading
<1> QED BY <1>1, <1>2 DEF IInv, InOrder

(* A line is read and the reply goes on, or the program ends. *)
LEMMA GoesOn ==
  ASSUME IInv, read < Len(said), UNCHANGED <<commands, toTor, said, closed, events>>,
         read' = read + 1, UNCHANGED <<begun, results>>, reader # "idle",
         \/ reader' = "panicked"
         \/ reader' = "mid" /\ said[read + 1].form = "mid" /\ reader \in {"first", "mid"}
         \/ reader' = "data" /\ said[read + 1].form = "data" /\ reader = "first"
         \/ reader' = "data" /\ said[read + 1].form # "dot" /\ reader = "data"
  PROVE  IInv'
<1>1. /\ said \in Seq(Line) /\ Len(said) \in Nat /\ read \in 0 .. Len(said)
      /\ begun \in 0 .. read /\ read + 1 \in 0 .. Len(said) /\ begun \in 0 .. read + 1
  BY Ranges
<1>2. reader \in {"first", "mid", "data"} \/ reader = "panicked"
  BY DEF IInv, TypeOK
<1>3. reader' # "panicked" => said[begun + 1].form = reader' /\ begun < read + 1
  <2>1. reader = "first" => begun = read
    BY DEF IInv, TypeOK
  <2>2. reader \in {"mid", "data"} => said[begun + 1].form = reader
    BY NotYetLast
  <2> QED BY <1>1, <2>1, <2>2
<1>4. TypeOK'
  BY <1>1, <1>3 DEF IInv, TypeOK
<1>5. Reading'
  <2>1. CASE reader = "first"
    <3>1. begun = read
      BY <2>1 DEF IInv, TypeOK
    <3>2. /\ \A k \in begun + 1 .. read + 1 : k = read + 1
          /\ \A k \in begun + 2 .. read + 1 : FALSE
      BY <1>1, <3>1
    <3> QED BY <1>1, <2>1, <3>1, <3>2 DEF Reading
  <2>2. CASE reader \in {"mid", "data"}
    <3>1. /\ \A k \in begun + 1 .. read + 1 : k \in begun + 1 .. read \/ k = read + 1
          /\ \A k \in begun + 2 .. read + 1 : k \in begun + 1 .. read \/ k = read + 1
      BY <1>1
    <3>2. \A k \in begun + 1 .. read + 1 : said[k].to = said[begun + 1].to
      BY <2>2, <3>1, StillTheSame DEF IInv, Reading
    <3>3. reader' = "mid" => \A k \in begun + 1 .. read + 1 : said[k].form = "mid"
      BY <2>2, <3>1 DEF IInv, Reading
    <3>4. reader' = "data" => \A k \in begun + 2 .. read + 1 : said[k].form # "dot"
      BY <2>2, <3>1, NotYetLast
    <3> QED BY <3>2, <3>3, <3>4 DEF Reading
  <2> QED BY <1>2, <2>1, <2>2 DEF Reading
<1>6. FormsFit(said)' /\ InOrder(said)' /\ Sent'
  BY DEF IInv, Sent
<1>7. Told'
  <2>1. \A k \in 1 .. begun : BeginsReply(k)' <=> BeginsReply(k)
    BY DEF BeginsReply
  <2> QED BY <2>1 DEF IInv, Told
<1>8. SuccessIsWhole'
  BY DEF IInv, SuccessIsWhole
<1> QED BY <1>4, <1>5, <1>6, <1>7, <1>8 DEF IInv

(* A line is read, or none, and send_command returns. *)
LEMMA ComesBack ==
  ASSUME IInv, UNCHANGED <<toTor, said, closed, events>>,
         reader # "panicked",
         commands' = commands + (IF reader = "idle" THEN 1 ELSE 0),
         commands' <= MaxCommands, toTor' = toTor,
         reader = "idle" => closed,
         NEW upto \in {read, read + 1}, read' = upto, upto <= Len(said),
         NEW ok \in BOOLEAN, Return(ok, upto),
         ok => /\ begun < upto /\ reader # "idle"
               /\ \A k \in begun + 1 .. upto :
                    /\ said[k].code = "ok" /\ said[k].to = said[begun + 1].to
                    /\ k < upto => said[k].form # "dot"
               /\ said[begun + 1].to # Event
               /\ said[upto].last \/ said[upto].form = "dot"
  PROVE  IInv'
<1>1. /\ said \in Seq(Line) /\ Len(said) \in Nat /\ read \in 0 .. Len(said)
      /\ begun \in 0 .. read /\ upto \in begun .. Len(said) /\ upto \in 0 .. Len(said)
      /\ commands \in Nat
  BY Ranges
<1>2. \A k \in begun + 1 .. upto - 1 : ~said[k].last
  <2>1. CASE reader \in {"mid", "data"}
    <3>1. \A k \in begun + 1 .. upto - 1 : k \in begun + 1 .. read
      BY <1>1
    <3> QED BY <2>1, <3>1, NotYetLast
  <2>2. CASE reader \in {"idle", "first"}
    <3>1. begun = read
      BY <2>2 DEF IInv, TypeOK
    <3>2. \A k \in begun + 1 .. upto - 1 : FALSE
      BY <1>1, <3>1
    <3> QED BY <3>2
  <2> QED BY <2>1, <2>2 DEF IInv, TypeOK
<1>3. results' \in Seq(Result) /\ Told' /\ SuccessIsWhole'
  BY <1>1, <1>2, OneMoreResult
<1>4. reader' = "idle" /\ begun' = upto
  BY DEF Return
<1>5. TypeOK'
  <2>1. commands' \in 0 .. MaxCommands /\ begun' \in 0 .. upto
    BY <1>1, <1>4
  <2> QED BY <1>1, <1>3, <1>4, <2>1 DEF IInv, TypeOK
<1>6. Sent'
  <2>1. \A k \in 1 .. Len(said) : said[k].to <= commands'
    <3> TAKE k \in 1 .. Len(said)
    <3>1. said[k] \in Line /\ said[k].to <= commands
      BY <1>1, ElementOfSeq DEF IInv, Sent
    <3>2. said[k].to \in Ids \cup {Event}
      BY <3>1 DEF Line
    <3>3. said[k].to \in Int
      BY <3>2, CommandAssumption DEF Ids, Event
    <3> QED BY <1>1, <3>1, <3>3
  <2>2. ~closed => commands' = commands
    BY <1>1
  <2> QED BY <2>1, <2>2 DEF IInv, Sent
<1>7. Reading'
  BY <1>4 DEF Reading
<1>8. FormsFit(said)' /\ InOrder(said)'
  BY DEF IInv
<1> QED BY <1>3, <1>5, <1>6, <1>7, <1>8 DEF IInv

(* At first nothing has been sent. *)
LEMMA InitInv == Init => IInv
<1> SUFFICES ASSUME Init PROVE IInv
  OBVIOUS
<1>1. \A S : << >> \in Seq(S) /\ Len(<< >>) = 0 /\ DOMAIN << >> = {}
  BY EmptySeq
<1>2. TypeOK
  <2>1. 0 \in 0 .. MaxCommands /\ 0 \in 0 .. MaxEvents /\ 0 \in 0 .. 0
    BY CommandAssumption, EventAssumption
  <2>2. toTor \in Seq(Ids) /\ said \in Seq(Line) /\ results \in Seq(Result) /\ Len(said) = 0
    BY <1>1 DEF Init
  <2> QED BY <2>1, <2>2 DEF Init, TypeOK
<1>3. Len(said) = 0 /\ Len(toTor) = 0 /\ Len(results) = 0 /\ DOMAIN results = {}
  BY <1>1 DEF Init
<1>4. FormsFit(said) /\ InOrder(said) /\ Answers1To(said, 0)
  BY <1>3 DEF FormsFit, InOrder, Answers1To
<1>5. Sent
  <2>1. commands = 0
    BY DEF Init
  <2>2. commands - Len(toTor) = 0 /\ Len(toTor) <= commands
    BY <1>3, <2>1
  <2> QED BY <1>3, <1>4, <2>2 DEF Sent, Init
<1>6. Reading
  BY DEF Init, Reading
<1>7. Told
  BY <1>3 DEF Init, Told
<1>8. SuccessIsWhole
  BY <1>3 DEF SuccessIsWhole
<1> QED BY <1>2, <1>4, <1>5, <1>6, <1>7, <1>8 DEF IInv

(* Sending a command leaves what has been said alone. *)
LEMMA SendStep ==
  ASSUME IInv, SendCommand
  PROVE  IInv'
<1>1. /\ reader = "idle" /\ commands < MaxCommands /\ commands' = commands + 1
      /\ UNCHANGED <<said, read, closed, events>>
  BY DEF SendCommand
<1>2. /\ said \in Seq(Line) /\ Len(said) \in Nat /\ read \in 0 .. Len(said) /\ read \in Nat
      /\ commands \in Nat /\ commands' \in Ids /\ toTor \in Seq(Ids) /\ Len(toTor) \in Nat
      /\ begun = read /\ MaxCommands \in Nat
  BY <1>1, Ranges, CommandAssumption DEF IInv, TypeOK, Ids
<1>3. CASE closed /\ Return(FALSE, begun) /\ UNCHANGED toTor
  <2>1. /\ read' = begun /\ begun \in {read, read + 1} /\ begun <= Len(said)
        /\ commands' <= MaxCommands /\ reader # "panicked"
        /\ commands' = commands + (IF reader = "idle" THEN 1 ELSE 0)
    BY <1>1, <1>2, CommandAssumption DEF Ids
  <2> QED BY <1>1, <1>3, <2>1, ComesBack
<1>4. CASE /\ toTor' = IF closed THEN toTor ELSE Append(toTor, commands + 1)
           /\ Continue("first")
  <2>1. reader' = "first" /\ UNCHANGED <<begun, results>>
    BY <1>4 DEF Continue
  <2>2. /\ toTor' \in Seq(Ids)
        /\ ~closed => /\ Len(toTor') = Len(toTor) + 1
                      /\ \A i \in 1 .. Len(toTor) : toTor'[i] = toTor[i]
                      /\ toTor'[Len(toTor) + 1] = commands'
    BY <1>1, <1>2, <1>4, AppendProperties
  <2>3. TypeOK'
    <3>1. commands' \in 0 .. MaxCommands
      BY <1>2, CommandAssumption DEF Ids
    <3> QED BY <1>1, <1>2, <2>1, <2>2, <3>1 DEF IInv, TypeOK
  <2>4. Sent'
    <3>1. \A k \in 1 .. Len(said) : said[k].to <= commands'
      <4> TAKE k \in 1 .. Len(said)
      <4>1. said[k] \in Line /\ said[k].to <= commands
        BY <1>2, ElementOfSeq DEF IInv, Sent
      <4>2. said[k].to \in Ids \cup {Event}
        BY <4>1 DEF Line
      <4>3. said[k].to \in Int
        BY <4>2, CommandAssumption DEF Ids, Event
      <4> QED BY <1>1, <1>2, <4>1, <4>3
    <3>2. closed => toTor' = << >>
      BY <1>4 DEF IInv, Sent
    <3>3. ASSUME ~closed
          PROVE  /\ Len(toTor') <= commands'
                 /\ \A i \in 1 .. Len(toTor') : toTor'[i] = commands' - Len(toTor') + i
                 /\ commands' - Len(toTor') = commands - Len(toTor)
      <4>1. /\ Len(toTor) <= commands
            /\ \A i \in 1 .. Len(toTor) : toTor[i] = commands - Len(toTor) + i
        BY <3>3 DEF IInv, Sent
      <4>2. /\ Len(toTor') = Len(toTor) + 1
            /\ commands' - Len(toTor') = commands - Len(toTor)
        BY <1>1, <1>2, <2>2, <3>3
      <4>3. \A i \in 1 .. Len(toTor') : toTor'[i] = commands' - Len(toTor') + i
        <5> TAKE i \in 1 .. Len(toTor')
        <5>1. CASE i = Len(toTor) + 1
          BY <1>1, <1>2, <2>2, <3>3, <4>2, <5>1
        <5>2. CASE i # Len(toTor) + 1
          <6>1. i \in 1 .. Len(toTor)
            BY <1>2, <4>2, <5>2
          <6> QED BY <2>2, <3>3, <4>1, <4>2, <6>1
        <5> QED BY <5>1, <5>2
      <4> QED BY <1>1, <1>2, <4>1, <4>2, <4>3
    <3> QED BY <1>1, <3>1, <3>2, <3>3 DEF IInv, Sent
  <2>5. Told'
    <3>1. \A k \in 1 .. begun : BeginsReply(k)' <=> BeginsReply(k)
      BY <1>1 DEF BeginsReply
    <3>2. Len(results) = commands' - 1
      BY <1>1, <1>2 DEF IInv, Told
    <3> QED BY <2>1, <3>1, <3>2 DEF IInv, Told
  <2>6. Reading' /\ FormsFit(said)' /\ InOrder(said)'
    BY <1>1, <2>1 DEF IInv, Reading
  <2>7. SuccessIsWhole'
    BY <1>1, <2>1 DEF IInv, SuccessIsWhole
  <2> QED BY <2>3, <2>4, <2>5, <2>6, <2>7 DEF IInv
<1> QED BY <1>1, <1>3, <1>4 DEF SendCommand

(* The parser takes a line, whatever it is waiting for. *)
LEMMA ReadStep ==
  ASSUME IInv, ReadLine
  PROVE  IInv'
<1> DEFINE line == said[read + 1]
<1>1. /\ read < Len(said) /\ read' = read + 1
      /\ UNCHANGED <<commands, toTor, said, closed, events>>
      /\ \/ reader = "first" /\ OnFirst(line)
         \/ reader = "mid" /\ OnMid(line)
         \/ reader = "data" /\ OnData(line)
  BY DEF ReadLine
<1>2. /\ said \in Seq(Line) /\ Len(said) \in Nat /\ read \in Nat /\ begun \in Nat
      /\ begun <= read /\ commands \in Nat /\ commands <= MaxCommands
      /\ read + 1 \in 1 .. Len(said) /\ read + 1 \in {read, read + 1}
  BY <1>1, Ranges
<1>3. ASSUME NEW ok \in BOOLEAN, Return(ok, read + 1), reader \in {"first", "mid", "data"},
             ok => /\ \A k \in begun + 1 .. read + 1 :
                        /\ said[k].code = "ok" /\ said[k].to = said[begun + 1].to
                        /\ k < read + 1 => said[k].form # "dot"
                   /\ said[begun + 1].to # Event
                   /\ line.last \/ line.form = "dot"
      PROVE  IInv'
  <2>1. /\ commands' = commands + (IF reader = "idle" THEN 1 ELSE 0)
        /\ commands' <= MaxCommands /\ toTor' = toTor /\ begun < read + 1
        /\ reader # "idle" /\ reader # "panicked" /\ read + 1 <= Len(said)
    BY <1>1, <1>2, <1>3
  <2> QED BY <1>1, <1>2, <1>3, <2>1, ComesBack
<1>4. /\ line.form = "end" => line.last
      /\ line.form \in {"text", "dot"} => line.code = "ok"
      /\ line.to = Event /\ line.code = "ok" => line.form \in {"text", "dot"}
  BY <1>2 DEF IInv, FormsFit
<1> HIDE DEF line
<1>5. CASE reader = "first"
  <2>1. begun = read /\ \A k \in begun + 1 .. read + 1 : k = read + 1
    <3>1. begun = read
      BY <1>5 DEF IInv, TypeOK
    <3> QED BY <1>2, <3>1
  <2>2. CASE line.form = "end" /\ Return(Accepted, read + 1)
    <3>1. Accepted => /\ \A k \in begun + 1 .. read + 1 :
                           /\ said[k].code = "ok" /\ said[k].to = said[begun + 1].to
                           /\ k < read + 1 => said[k].form # "dot"
                      /\ said[begun + 1].to # Event
                      /\ line.last \/ line.form = "dot"
      BY <1>2, <1>4, <2>1, <2>2 DEF Accepted, line
    <3>2. Accepted \in BOOLEAN
      BY DEF Accepted
    <3> QED BY <1>3, <1>5, <2>2, <3>1, <3>2
  <2>3. CASE line.form \in {"mid", "data"} /\ Continue(line.form)
    BY <1>1, <1>5, <2>3, GoesOn DEF Continue, line
  <2>4. CASE Panic
    BY <1>1, <1>5, <2>4, GoesOn DEF Panic
  <2>5. CASE Return(FALSE, read + 1)
    BY <1>3, <1>5, <2>5
  <2> QED BY <1>1, <1>5, <2>2, <2>3, <2>4, <2>5 DEF OnFirst
<1>6. CASE reader \in {"mid", "data"}
  <2>1. /\ \A k \in begun + 1 .. read + 1 : k \in begun + 1 .. read \/ k = read + 1
        /\ \A k \in begun + 1 .. read : said[k].form # "dot"
        /\ \A k \in begun + 1 .. read : said[k].to = said[begun + 1].to
        /\ line.to = said[begun + 1].to
        /\ begun + 1 \in begun + 1 .. read
    BY <1>1, <1>2, <1>6, NotYetLast, StillTheSame DEF IInv, Reading, line
  <2>2. ASSUME Accepted, line.code = "ok"
        PROVE  /\ \A k \in begun + 1 .. read + 1 :
                    /\ said[k].code = "ok" /\ said[k].to = said[begun + 1].to
                    /\ k < read + 1 => said[k].form # "dot"
               /\ said[begun + 1].to # Event
    <3>1. /\ said[begun + 1].to # Event
          /\ \A k \in begun + 1 .. read : said[k].code = "ok"
      BY <1>6, <2>2, NotYetLast DEF Accepted
    <3>2. \A k \in begun + 1 .. read + 1 : k < read + 1 => k \in begun + 1 .. read
      BY <1>2
    <3> QED BY <2>1, <2>2, <3>1, <3>2 DEF line
  <2>3. Accepted \in BOOLEAN
    BY DEF Accepted
  <2>4. CASE reader = "mid"
    <3>1. CASE line.form = "end" /\ line.code = "ok" /\ Return(Accepted, read + 1)
      BY <1>3, <1>4, <2>2, <2>3, <2>4, <3>1
    <3>2. CASE line.form = "mid" /\ Continue("mid")
      BY <1>1, <2>4, <3>2, GoesOn DEF Continue, line
    <3>3. CASE Panic
      BY <1>1, <2>4, <3>3, GoesOn DEF Panic
    <3>4. CASE Return(FALSE, read + 1)
      BY <1>3, <2>4, <3>4
    <3> QED BY <1>1, <2>4, <3>1, <3>2, <3>3, <3>4 DEF OnMid
  <2>5. CASE reader = "data"
    <3>1. CASE line.form = "dot" /\ Return(Accepted, read + 1)
      BY <1>3, <1>4, <2>2, <2>3, <2>5, <3>1
    <3>2. CASE line.form # "dot" /\ Continue("data")
      BY <1>1, <2>5, <3>2, GoesOn DEF Continue, line
    <3> QED BY <1>1, <2>5, <3>1, <3>2 DEF OnData
  <2> QED BY <1>6, <2>4, <2>5
<1> QED BY <1>1, <1>5, <1>6

(* The stream ends under the parser. *)
LEMMA EofStep ==
  ASSUME IInv, ReadEof
  PROVE  IInv'
<1>1. /\ reader \in {"first", "mid", "data"} /\ Return(FALSE, read)
      /\ UNCHANGED <<commands, toTor, said, read, closed, events>>
  BY DEF ReadEof, Waiting, EofFails
<1>2. /\ commands \in Nat /\ commands <= MaxCommands /\ read \in Nat /\ read <= Len(said)
  BY Ranges
<1>3. /\ commands' = commands + (IF reader = "idle" THEN 1 ELSE 0)
      /\ commands' <= MaxCommands /\ toTor' = toTor /\ reader # "idle" /\ reader # "panicked"
      /\ read \in {read, read + 1} /\ read <= Len(said) /\ read' = read
  BY <1>1, <1>2
<1> QED BY <1>1, <1>3, ComesBack


(* Tor says something while the connection is open. *)
LEMMA SaidMore ==
  ASSUME IInv, ~closed, UNCHANGED <<commands, read, closed, reader, begun, results>>,
         events' \in 0 .. MaxEvents,
         NEW n \in Ids \cup {Event}, NEW b, Block(b, n), said' = said \o b,
         \/ n = Event /\ toTor' = toTor
         \/ n # Event /\ Len(toTor) > 0 /\ n = Head(toTor) /\ toTor' = Tail(toTor)
  PROVE  IInv'
<1> DEFINE m == commands - Len(toTor)
<1>1. /\ said \in Seq(Line) /\ Len(said) \in Nat /\ read \in 0 .. Len(said) /\ read \in Nat
      /\ commands \in Nat /\ toTor \in Seq(Ids) /\ Len(toTor) \in Nat /\ begun \in 0 .. read
  BY Ranges
<1>2. /\ Len(said) > 0 => said[Len(said)].last
      /\ Len(toTor) <= commands /\ Answers1To(said, m)
      /\ \A i \in 1 .. Len(toTor) : toTor[i] = m + i
      /\ \A k \in 1 .. Len(said) : said[k].to <= commands
      /\ FormsFit(said) /\ InOrder(said) /\ m \in Nat
  BY <1>1 DEF IInv, Sent
<1>3. n # Event => n = m + 1 /\ n <= commands
  <2>1. Len(toTor) > 0 => 1 \in 1 .. Len(toTor) /\ Head(toTor) = toTor[1]
    BY <1>1, HeadTailProperties
  <2> QED BY <1>1, <1>2, <2>1
<1> DEFINE left == IF n = Event THEN m ELSE m + 1
<1>4. /\ toTor' \in Seq(Ids) /\ Len(toTor') <= commands
      /\ commands - Len(toTor') = left
      /\ \A i \in 1 .. Len(toTor') : toTor'[i] = left + i
  <2>1. CASE n = Event
    BY <1>1, <1>2, <2>1
  <2>2. CASE n # Event
    <3>1. /\ Tail(toTor) \in Seq(Ids) /\ Len(Tail(toTor)) = Len(toTor) - 1
          /\ \A i \in 1 .. Len(toTor) - 1 : Tail(toTor)[i] = toTor[i + 1]
      BY <1>1, <2>2, HeadTailProperties, EmptySeq
    <3>2. \A i \in 1 .. Len(toTor) - 1 : i + 1 \in 1 .. Len(toTor) /\ m + (i + 1) = m + 1 + i
      BY <1>1, <1>2
    <3>3. Len(toTor') = Len(toTor) - 1 /\ left = m + 1
      BY <2>2, <3>1
    <3>4. Len(toTor') <= commands /\ commands - Len(toTor') = left
      BY <1>1, <1>2, <3>3
    <3>5. ASSUME NEW i \in 1 .. Len(toTor') PROVE toTor'[i] = left + i
      <4>1. i \in 1 .. Len(toTor) - 1 /\ toTor'[i] = toTor[i + 1]
        BY <2>2, <3>1, <3>3
      <4> QED BY <1>2, <3>2, <3>3, <4>1
    <3> QED BY <2>2, <3>1, <3>4, <3>5
  <2> QED BY <2>1, <2>2
<1> HIDE DEF m, left
<1>5. IsExtension(said', said, n, b)
  BY <1>1, <1>2, Extended
<1>6. /\ said' \in Seq(Line) /\ Len(said') = Len(said) + Len(b) /\ Len(b) \in Nat \ {0}
      /\ \A k \in 1 .. Len(said) : said'[k] = said[k]
      /\ \A k \in 1 .. Len(b) : said'[Len(said) + k] = b[k]
      /\ \A k \in 1 .. Len(said') :
           k \in 1 .. Len(said) \/ \E j \in 1 .. Len(b) : k = Len(said) + j
      /\ said'[Len(said')].last
  BY <1>5 DEF IsExtension
<1>7. FormsFit(said')
  BY <1>1, <1>2, ExtendedFits
<1>8. InOrder(said') /\ Answers1To(said', left)
  BY <1>1, <1>2, <1>3, ExtendedInOrder DEF left
<1>9. \A k \in 1 .. Len(said') : said'[k].to <= commands
  <2> TAKE k \in 1 .. Len(said')
  <2>1. CASE k \in 1 .. Len(said)
    BY <1>2, <1>6, <2>1
  <2>2. CASE \E j \in 1 .. Len(b) : k = Len(said) + j
    <3>1. said'[k].to = n
      BY <1>6, <2>2 DEF Block
    <3> QED BY <1>1, <1>3, <3>1 DEF Event
  <2> QED BY <1>6, <2>1, <2>2
<1>10. Sent'
  <2>1. Answers1To(said', commands' - Len(toTor'))
    BY <1>4, <1>8
  <2> QED BY <1>4, <1>6, <1>9, <2>1 DEF Sent
<1>11. /\ Reading' /\ Told' /\ SuccessIsWhole'
       /\ reader \in {"mid", "data"} => said'[begun + 1].form = reader
  <2>1. read <= Len(said')
    BY <1>1, <1>6
  <2>2. \A k \in 1 .. read : said'[k] = said[k]
    <3>1. \A k \in 1 .. read : k \in 1 .. Len(said)
      BY <1>1
    <3> QED BY <1>6, <3>1
  <2> QED BY <1>6, <2>1, <2>2, PastKept
<1>12. TypeOK'
  <2>1. read \in 0 .. Len(said')
    BY <1>1, <1>6
  <2> QED BY <1>4, <1>6, <1>11, <2>1 DEF IInv, TypeOK
<1> QED BY <1>7, <1>8, <1>10, <1>11, <1>12 DEF IInv

(* Tor answers the command that has waited longest. *)
LEMMA ReplyStep ==
  ASSUME IInv, NEW shape \in ReplyShapes, TorRepliesWith(shape)
  PROVE  IInv'
<1>1. /\ toTor \in Seq(Ids) /\ Len(toTor) \in Nat /\ toTor # << >> /\ Len(toTor) > 0
  BY Ranges, EmptySeq DEF TorRepliesWith
<1>2. Head(toTor) \in Ids /\ Head(toTor) # Event
  <2>1. Head(toTor) \in Ids
    BY <1>1, HeadTailProperties
  <2> QED BY <2>1, CommandAssumption DEF Ids, Event
<1>3. Block(Lines(Head(toTor), shape), Head(toTor))
  BY <1>2, RepliesWellFormed, LinesBlock
<1>4. events' \in 0 .. MaxEvents
  BY DEF IInv, TypeOK, TorRepliesWith
<1> QED BY <1>1, <1>2, <1>3, <1>4, SaidMore DEF TorRepliesWith

(* Tor tells of an event. *)
LEMMA EventStep ==
  ASSUME IInv, TorSendsEvent
  PROVE  IInv'
<1>1. PICK shape \in EventShapes : said' = said \o Lines(Event, shape)
  BY DEF TorSendsEvent
<1>2. Block(Lines(Event, shape), Event)
  BY EventsWellFormed, LinesBlock
<1>3. events' \in 0 .. MaxEvents
  BY EventAssumption DEF IInv, TypeOK, TorSendsEvent
<1> QED BY <1>1, <1>2, <1>3, SaidMore DEF TorSendsEvent

(* Of what has not been read some remains, the last line perhaps cut. *)
IsCut(t) ==
  /\ t \in Seq(Line) /\ Len(t) \in read .. Len(said)
  /\ \A k \in 1 .. Len(t) :
       /\ k <= read \/ k < Len(t) => t[k] = said[k]
       /\ t[k].to = said[k].to /\ t[k].code = said[k].code /\ t[k].last = said[k].last
       /\ \/ t[k].form = said[k].form
          \/ t[k].form = "garbled" /\ said[k].form \notin {"text", "dot"}
          \/ t[k].form = "bare" /\ said[k].code = "async"

(* Tor is gone. *)
LEMMA CloseCuts ==
  ASSUME IInv, TorCloses
  PROVE  IsCut(said')
<1>1. said \in Seq(Line) /\ Len(said) \in Nat /\ read \in 0 .. Len(said) /\ read \in Nat
  BY Ranges
<1>2. CASE said' = SubSeq(said, 1, read)
  <2>1. /\ SubSeq(said, 1, read) \in Seq(Line) /\ Len(SubSeq(said, 1, read)) = read
        /\ \A k \in 1 .. read : SubSeq(said, 1, read)[k] = said[k]
    <3>1. \A i \in 1 .. read : i \in 1 .. Len(said) /\ said[i] \in Line
      BY <1>1, ElementOfSeq
    <3>2. \A i \in 1 .. read : SubSeq(said, 1, read)[i] = said[1 + i - 1]
      BY <1>1, <3>1, SubSeqProperties
    <3> QED BY <1>1, <3>1, <3>2, SubSeqProperties
  <2> QED BY <1>1, <1>2, <2>1 DEF IsCut
<1>3. ASSUME NEW k \in read + 1 .. Len(said), NEW line \in Stumps(said[k]),
             said' = Append(SubSeq(said, 1, k - 1), line)
      PROVE  IsCut(said')
  <2>1. /\ k \in 1 .. Len(said) /\ k - 1 \in 0 .. Len(said) /\ k \in Nat
        /\ read <= k - 1 /\ k \in read .. Len(said)
    BY <1>1
  <2>2. said[k] \in Line
    BY <1>1, <2>1, ElementOfSeq
  <2>3. /\ line \in Line
        /\ line.to = said[k].to /\ line.code = said[k].code /\ line.last = said[k].last
        /\ \/ line.form = said[k].form
           \/ line.form = "garbled" /\ said[k].form \notin {"text", "dot"}
           \/ line.form = "bare" /\ said[k].code = "async"
    <3>1. \A f \in {"garbled", "bare"} :
            LET e == [said[k] EXCEPT !.form = f]
            IN  /\ e \in Line /\ e.form = f
                /\ e.to = said[k].to /\ e.code = said[k].code /\ e.last = said[k].last
      BY <2>2 DEF Line, Forms
    <3> QED BY <2>2, <3>1 DEF Stumps
  <2>4. /\ SubSeq(said, 1, k - 1) \in Seq(Line) /\ Len(SubSeq(said, 1, k - 1)) = k - 1
        /\ \A i \in 1 .. k - 1 : SubSeq(said, 1, k - 1)[i] = said[i]
    <3>1. \A i \in 1 .. k - 1 : i \in 1 .. Len(said) /\ said[i] \in Line
      BY <1>1, <2>1, ElementOfSeq
    <3>2. \A i \in 1 .. k - 1 : SubSeq(said, 1, k - 1)[i] = said[1 + i - 1]
      BY <1>1, <2>1, <3>1, SubSeqProperties
    <3> QED BY <1>1, <2>1, <3>1, <3>2, SubSeqProperties
  <2>5. /\ said' \in Seq(Line) /\ Len(said') = k
        /\ \A i \in 1 .. k - 1 : said'[i] = said[i]
        /\ said'[k] = line
    BY <1>3, <2>1, <2>3, <2>4, AppendProperties
  <2>6. \A i \in 1 .. k : i \in 1 .. k - 1 \/ (i = k /\ ~(i <= read))
    BY <1>1, <2>1
  <2> QED BY <1>1, <2>1, <2>3, <2>5, <2>6 DEF IsCut
<1> QED BY <1>2, <1>3 DEF TorCloses

LEMMA CloseStep ==
  ASSUME IInv, TorCloses
  PROVE  IInv'
<1>1. /\ said \in Seq(Line) /\ Len(said) \in Nat /\ read \in 0 .. Len(said) /\ read \in Nat
      /\ FormsFit(said) /\ InOrder(said) /\ Sent
      /\ UNCHANGED <<commands, read, events, reader, begun, results>>
      /\ closed' = TRUE /\ toTor' = << >> /\ begun \in 0 .. read
  BY Ranges DEF IInv, TorCloses
<1>2. /\ said' \in Seq(Line) /\ Len(said') \in Nat
      /\ read <= Len(said') /\ Len(said') <= Len(said)
      /\ \A k \in 1 .. read : said'[k] = said[k]
      /\ \A k \in 1 .. Len(said') :
           /\ k \in 1 .. Len(said)
           /\ said'[k].to = said[k].to /\ said'[k].code = said[k].code
           /\ said'[k].last = said[k].last
           /\ \/ said'[k].form = said[k].form
              \/ /\ said'[k].form \in {"garbled", "bare"}
                 /\ said[k].form \notin {"text", "dot"}
  <2>1. IsCut(said')
    BY CloseCuts
  <2>2. /\ said' \in Seq(Line) /\ Len(said') \in Nat
        /\ read <= Len(said') /\ Len(said') <= Len(said)
        /\ \A k \in 1 .. Len(said') : k \in 1 .. Len(said)
        /\ \A k \in 1 .. read : k \in 1 .. Len(said')
    BY <1>1, <2>1 DEF IsCut
  <2> QED BY <1>1, <2>1, <2>2 DEF IsCut, FormsFit
<1>3. FormsFit(said') /\ InOrder(said')
  BY <1>1, <1>2, CutShort
<1>4. Sent'
  <2>1. \A k \in 1 .. Len(said') : said'[k].to <= commands
    BY <1>1, <1>2 DEF Sent
  <2> QED BY <1>1, <2>1 DEF Sent
<1>5. /\ Reading' /\ Told' /\ SuccessIsWhole'
      /\ reader \in {"mid", "data"} => said'[begun + 1].form = reader
  BY <1>1, <1>2, PastKept
<1>6. TypeOK'
  <2>1. read \in 0 .. Len(said') /\ toTor' \in Seq(Ids)
    BY <1>1, <1>2, EmptySeq
  <2> QED BY <1>1, <1>2, <1>5, <2>1 DEF IInv, TypeOK
<1> QED BY <1>3, <1>4, <1>5, <1>6 DEF IInv

LEMMA StepInv == IInv /\ [Next]_vars => IInv'
<1> SUFFICES ASSUME IInv, [Next]_vars PROVE IInv'
  OBVIOUS
<1>1. CASE SendCommand
  BY <1>1, SendStep
<1>2. CASE ReadLine
  BY <1>2, ReadStep
<1>3. CASE ReadEof
  BY <1>3, EofStep
<1>4. CASE TorReplies
  BY <1>4, ReplyStep DEF TorReplies
<1>5. CASE TorSendsEvent
  BY <1>5, EventStep
<1>6. CASE TorCloses
  BY <1>6, CloseStep
<1>7. CASE UNCHANGED vars
  <2>1. /\ commands' = commands /\ toTor' = toTor /\ said' = said /\ read' = read
        /\ closed' = closed /\ events' = events /\ reader' = reader
        /\ begun' = begun /\ results' = results
    BY <1>7 DEF vars
  <2>2. TypeOK' /\ FormsFit(said') /\ InOrder(said')
    BY <2>1 DEF IInv, TypeOK
  <2>3. Sent' /\ Reading'
    BY <2>1 DEF IInv, Sent, Reading
  <2>4. Told' /\ SuccessIsWhole'
    BY <2>1 DEF IInv, Told, SuccessIsWhole, BeginsReply
  <2> QED BY <2>2, <2>3, <2>4 DEF IInv
<1> QED BY <1>1, <1>2, <1>3, <1>4, <1>5, <1>6, <1>7 DEF Next

(* The invariant holds of every run of the connection. *)
THEOREM Invariance == Spec => []IInv
<1>1. Init => IInv
  BY InitInv
<1>2. IInv /\ [Next]_vars => IInv'
  BY StepInv
<1> QED BY <1>1, <1>2, PTL DEF Spec

(* Every variable stays in its range, for any number of commands and events. *)
THEOREM TypesHold == Spec => []TypeOK
<1>1. IInv => TypeOK
  BY DEF IInv
<1> QED BY <1>1, Invariance, PTL

(* A command that succeeded was told lines of one reply up to an end of it,
   whatever shapes Tor uses, however many commands and events there are and
   wherever the stream is cut.                                             *)
THEOREM SuccessesAreWhole == Spec => []SuccessIsWhole
<1>1. IInv => SuccessIsWhole
  BY DEF IInv
<1> QED BY <1>1, Invariance, PTL

-----------------------------------------------------------------------------
(* Counting what commands were told. *)

(* Two sets of one size. *)
LEMMA OneToOne ==
  ASSUME NEW S, IsFiniteSet(S), NEW T, NEW f \in [S -> T],
         \A x, y \in S : f[x] = f[y] => x = y,
         \A t \in T : \E x \in S : f[x] = t
  PROVE  IsFiniteSet(T) /\ Cardinality(T) = Cardinality(S)
<1>1. f \in Surjection(S, T) /\ f \in Injection(S, T)
  BY DEF Surjection, Injection, IsInjective
<1> QED BY <1>1, FS_Surjection

(* The command that command i's reply belongs to. *)
Owner(i) == said[results[i].first].to

(* Where a reply was told from its first line on; later replies belong to
   later commands.                                                         *)
LEMMA OwnersRise ==
  ASSUME IInv
  PROVE  /\ \A i \in 1 .. Len(results) : InStep(i) =>
              /\ results[i].first \in 1 .. begun /\ Begins(said, results[i].first)
              /\ Owner(i) \in Ids
         /\ \A i, j \in 1 .. Len(results) :
              i < j /\ InStep(i) /\ InStep(j) => Owner(i) < Owner(j)
<1>1. /\ said \in Seq(Line) /\ Len(said) \in Nat /\ read \in 0 .. Len(said)
      /\ begun \in 0 .. read /\ begun \in Nat /\ read \in Nat
  BY Ranges
<1>2. ASSUME NEW i \in 1 .. Len(results), InStep(i)
      PROVE  /\ results[i].first \in 1 .. begun /\ Begins(said, results[i].first)
             /\ Owner(i) \in Ids
             /\ results[i].first <= results[i].upto /\ results[i].upto \in Nat
             /\ results[i].first \in 1 .. Len(said)
  <2>1. results[i].first \in 1 .. begun + 1 /\ results[i].upto \in 0 .. begun
    BY DEF IInv, Told
  <2>2. results[i].first \in 1 .. begun /\ results[i].first \in 1 .. Len(said)
    BY <1>1, <1>2, <2>1 DEF InStep
  <2>3. said[results[i].first] \in Line
    BY <1>1, <2>2, ElementOfSeq
  <2>4. Owner(i) \in Ids \cup {Event}
    BY <2>3 DEF Line, Owner
  <2> QED BY <1>1, <1>2, <2>1, <2>2, <2>4 DEF InStep, BeginsReply, Begins, Owner
<1>3. ASSUME NEW i \in 1 .. Len(results), NEW j \in 1 .. Len(results),
             i < j, InStep(i), InStep(j)
      PROVE  Owner(i) < Owner(j)
  <2>1. results[i].upto < results[j].first
    BY <1>3 DEF IInv, Told
  <2>2. results[i].first < results[j].first
    BY <1>2, <1>3, <2>1
  <2> QED BY <1>2, <1>3, <2>2 DEF IInv, InOrder, Owner
<1> QED BY <1>2, <1>3

(* The beginning of a reply that has been passed was told to some command. *)
LEMMA PassedIsTold ==
  ASSUME IInv, NEW k \in 1 .. begun, Begins(said, k)
  PROVE  \E i \in 1 .. Len(results) : InStep(i) /\ results[i].first = k
<1>1. BeginsReply(k)
  BY DEF Begins, BeginsReply
<1>2. PICK i \in 1 .. Len(results) : results[i].first = k /\ k <= results[i].upto
  BY <1>1 DEF IInv, Told
<1> QED BY <1>1, <1>2 DEF InStep

(* The replies told up to command i's are those to the commands up to its
   reply's.                                                                *)
LEMMA OwnersCounted ==
  ASSUME IInv
  PROVE  RepliesInOrder
<1> SUFFICES ASSUME NEW i \in 1 .. Len(results), InStep(i)
             PROVE  Owner(i) = Cardinality({j \in 1 .. i : InStep(j)})
  BY Ranges DEF RepliesInOrder, Owner
<1> DEFINE J == {j \in 1 .. i : InStep(j)}
           f == [j \in J |-> Owner(j)]
<1>1. /\ Len(results) \in Nat /\ begun \in Nat /\ MaxCommands \in Nat
      /\ \A j \in J : j \in 1 .. Len(results) /\ j \in Nat /\ InStep(j)
      /\ i \in J /\ i \in Nat
  BY Ranges, CommandAssumption
<1>2. /\ \A j \in J : Owner(j) \in Nat \ {0}
      /\ \A j, k \in J : j < k => Owner(j) < Owner(k)
  BY <1>1, OwnersRise DEF Ids
<1>3. f \in [J -> 1 .. Owner(i)]
  <2>1. ASSUME NEW j \in J PROVE Owner(j) \in 1 .. Owner(i)
    <3>1. j = i \/ j < i
      BY <1>1
    <3> QED BY <1>1, <1>2, <3>1
  <2> QED BY <2>1
<1>4. ASSUME NEW j \in J, NEW k \in J, f[j] = f[k] PROVE j = k
  <2>1. j < k \/ k < j \/ j = k
    BY <1>1
  <2>2. Owner(j) = Owner(k)
    BY <1>4
  <2> QED BY <1>2, <2>1, <2>2
<1>5. ASSUME NEW c \in 1 .. Owner(i) PROVE \E j \in J : f[j] = c
  <2>1. CASE c = Owner(i)
    BY <1>1, <2>1
  <2>2. CASE c # Owner(i)
    <3> DEFINE p == results[i].first
    <3>1. /\ p \in 1 .. begun /\ Begins(said, p) /\ p <= results[i].upto
          /\ p \in 1 .. Len(said) /\ p \in Nat
      <4>1. begun <= Len(said) /\ Len(said) \in Nat
        BY Ranges
      <4> QED BY <1>1, <4>1, OwnersRise DEF InStep
    <3>2. c \in 1 .. said[p].to - 1
      BY <1>1, <1>2, <2>2 DEF Owner
    <3>3. PICK k \in 1 .. Len(said) : k < p /\ Begins(said, k) /\ said[k].to = c
      BY <3>1, <3>2 DEF IInv, InOrder
    <3>4. k \in 1 .. begun
      BY <1>1, <3>1, <3>3
    <3>5. PICK j \in 1 .. Len(results) : InStep(j) /\ results[j].first = k
      BY <3>3, <3>4, PassedIsTold
    <3>6. ~(i < j)
      <4> SUFFICES ASSUME i < j PROVE FALSE
        OBVIOUS
      <4>1. results[i].upto < k /\ results[i].upto \in 0 .. begun
        BY <1>1, <3>5 DEF IInv, Told
      <4> QED BY <1>1, <3>1, <3>3, <4>1
    <3>7. j \in J
      BY <1>1, <3>5, <3>6
    <3> QED BY <3>3, <3>5, <3>7 DEF Owner
  <2> QED BY <2>1, <2>2
<1>6. IsFiniteSet(J)
  <2>1. IsFiniteSet(1 .. i)
    BY <1>1, FS_Interval
  <2> QED BY <2>1, FS_Subset
<1>7. Cardinality(1 .. Owner(i)) = Owner(i)
  <2>1. Owner(i) \in Nat \ {0}
    BY <1>1, <1>2
  <2> QED BY <2>1, FS_Interval
<1> HIDE DEF J, f
<1>8. Cardinality(1 .. Owner(i)) = Cardinality(J)
  BY <1>3, <1>4, <1>5, <1>6, OneToOne
<1> QED BY <1>7, <1>8 DEF J

(* Of the replies told from their first line on, none is left out and none
   told out of order, whatever strays there are between them.              *)
THEOREM RepliesReturnedInOrder == Spec => []RepliesInOrder
<1>1. IInv => RepliesInOrder
  BY OwnersCounted
<1> QED BY <1>1, Invariance, PTL

(* The replies whose beginnings are passed, and those still to be read. *)
LEMMA UnreadAre ==
  ASSUME IInv, ~closed, reader = "idle"
  PROVE  Unread = (1 .. commands) \ {Owner(i) : i \in {j \in 1 .. Len(results) : InStep(j)}}
<1> DEFINE m == commands - Len(toTor)
           own == {Owner(i) : i \in {j \in 1 .. Len(results) : InStep(j)}}
<1>1. /\ said \in Seq(Line) /\ Len(said) \in Nat /\ read \in 0 .. Len(said) /\ read \in Nat
      /\ commands \in Nat /\ Len(toTor) \in Nat /\ toTor \in Seq(Ids) /\ begun = read
      /\ DOMAIN toTor = 1 .. Len(toTor)
  BY Ranges, ByLength DEF IInv, TypeOK
<1>2. /\ m \in Nat /\ Answers1To(said, m)
      /\ \A i \in 1 .. Len(toTor) : toTor[i] = m + i
  BY <1>1 DEF IInv, Sent
<1>3. ASSUME NEW c \in Unread PROVE c \in 1 .. commands /\ c \notin own
  <2>1. CASE c \in Range(toTor)
    <3>1. PICK i \in 1 .. Len(toTor) : c = toTor[i]
      BY <1>1, <2>1 DEF Range
    <3>2. c = m + i /\ c \in 1 .. commands /\ c > m
      BY <1>1, <1>2, <3>1
    <3>3. \A j \in 1 .. Len(results) : InStep(j) => Owner(j) <= m
      <4> SUFFICES ASSUME NEW j \in 1 .. Len(results), InStep(j) PROVE Owner(j) <= m
        OBVIOUS
      <4>1. results[j].first \in 1 .. begun /\ Begins(said, results[j].first)
        BY OwnersRise
      <4>2. results[j].first \in 1 .. Len(said)
        BY <1>1, <4>1
      <4> QED BY <1>2, <4>1, <4>2 DEF Answers1To, Owner
    <3>4. m \in Int /\ c \in Int
      BY <1>2, <3>2
    <3>5. \A j \in 1 .. Len(results) : InStep(j) => Owner(j) # c
      BY <3>2, <3>3, <3>4
    <3> QED BY <3>2, <3>5
  <2>2. CASE c \notin Range(toTor)
    <3>1. PICK k \in read + 1 .. Len(said) : BeginsReply(k) /\ c = said[k].to
      BY <2>2 DEF Unread
    <3>2. k \in 1 .. Len(said) /\ Begins(said, k)
      BY <1>1, <3>1 DEF Begins, BeginsReply
    <3>3. c \in 1 .. commands
      <4>1. said[k] \in Line /\ c <= m /\ c # Event
        BY <1>1, <1>2, <3>1, <3>2, ElementOfSeq DEF Answers1To, Begins
      <4>2. c \in Ids \cup {Event}
        BY <3>1, <4>1 DEF Line
      <4>3. c \in 1 .. MaxCommands /\ m <= commands
        BY <1>1, <4>1, <4>2 DEF Ids
      <4> QED BY <1>1, <1>2, <4>1, <4>3, CommandAssumption
    <3>4. \A j \in 1 .. Len(results) : InStep(j) => Owner(j) # c
      <4> SUFFICES ASSUME NEW j \in 1 .. Len(results), InStep(j) PROVE Owner(j) # c
        OBVIOUS
      <4>1. results[j].first \in 1 .. begun /\ Begins(said, results[j].first)
        BY OwnersRise
      <4>2. results[j].first \in 1 .. Len(said) /\ results[j].first < k
        BY <1>1, <3>1, <4>1
      <4>3. Owner(j) < c /\ Owner(j) \in Ids
        BY <3>1, <3>2, <4>1, <4>2, OwnersRise DEF IInv, InOrder, Owner
      <4> QED BY <3>3, <4>3, CommandAssumption DEF Ids
    <3> QED BY <3>3, <3>4
  <2> QED BY <2>1, <2>2
<1>4. ASSUME NEW c \in 1 .. commands, c \notin own PROVE c \in Unread
  <2>1. CASE c > m
    <3>1. c - m \in 1 .. Len(toTor) /\ m + (c - m) = c
      BY <1>1, <1>2, <2>1
    <3>2. toTor[c - m] = c
      BY <1>2, <3>1
    <3> QED BY <1>1, <3>1, <3>2 DEF Unread, Range
  <2>2. CASE ~(c > m)
    <3>1. c \in 1 .. m
      BY <1>2, <2>2
    <3>2. PICK k \in 1 .. Len(said) : Begins(said, k) /\ said[k].to = c
      BY <1>2, <3>1 DEF Answers1To
    <3>3. k \notin 1 .. begun
      <4> SUFFICES ASSUME k \in 1 .. begun PROVE FALSE
        OBVIOUS
      <4>1. PICK i \in 1 .. Len(results) : InStep(i) /\ results[i].first = k
        BY <3>2, PassedIsTold
      <4> QED BY <1>4, <3>2, <4>1 DEF Owner
    <3>4. k \in read + 1 .. Len(said) /\ BeginsReply(k)
      BY <1>1, <3>2, <3>3 DEF Begins, BeginsReply
    <3> QED BY <3>2, <3>4 DEF Unread
  <2> QED BY <2>1, <2>2
<1> QED BY <1>3, <1>4

(* The commands whose replies are unread are as many as those told something
   else, for any shapes, refusals and events: reading is out of step by the
   strays alone.                                                           *)
THEOREM BehindByStrays == Spec => []LagIsStrays
<1>1. ASSUME IInv, ~closed, reader = "idle"
      PROVE  Cardinality(Unread) = Cardinality(Strays)
  <2> DEFINE all == 1 .. commands
             ins == {j \in all : InStep(j)}
             own == {Owner(i) : i \in ins}
             f == [i \in ins |-> Owner(i)]
  <2>1. Len(results) = commands /\ commands \in Nat /\ DOMAIN results = all
    <3>1. Len(results) = commands - 0
      BY <1>1 DEF IInv, Told
    <3> QED BY <1>1, <3>1, Ranges
  <2>2. IsFiniteSet(all) /\ IsFiniteSet(ins)
    <3>1. IsFiniteSet(all)
      BY <2>1, FS_Interval
    <3> QED BY <3>1, FS_Subset
  <2>3. f \in [ins -> own] /\ \A t \in own : \E x \in ins : f[x] = t
    OBVIOUS
  <2>4. ASSUME NEW i \in ins, NEW j \in ins, f[i] = f[j] PROVE i = j
    <3>1. i < j \/ j < i \/ i = j
      BY <2>1
    <3>2. Owner(i) = Owner(j) /\ Owner(i) \in Ids /\ Owner(j) \in Ids
      BY <1>1, <2>1, <2>4, OwnersRise
    <3>3. ~(Owner(i) < Owner(j)) /\ ~(Owner(j) < Owner(i))
      BY <3>2, CommandAssumption DEF Ids
    <3> QED BY <1>1, <2>1, <3>1, <3>3, OwnersRise
  <2>5. own \subseteq all
    <3> SUFFICES ASSUME NEW i \in ins PROVE Owner(i) \in all
      OBVIOUS
    <3>1. results[i].first \in 1 .. begun /\ Owner(i) \in Ids
      BY <1>1, <2>1, OwnersRise
    <3>2. results[i].first \in 1 .. Len(said)
      BY <1>1, <3>1, Ranges
    <3>3. Owner(i) <= commands
      BY <1>1, <3>2 DEF IInv, Sent, Owner
    <3> QED BY <2>1, <3>1, <3>3, CommandAssumption DEF Ids
  <2>6. Unread = all \ own
    BY <1>1, <2>1, UnreadAre
  <2>7. Strays = all \ ins
    BY <2>1 DEF Strays
  <2> HIDE DEF all, ins, own, f
  <2>8. Cardinality(own) = Cardinality(ins)
    BY <2>2, <2>3, <2>4, OneToOne
  <2>9. all \cap own = own /\ all \cap ins = ins
    BY <2>5 DEF ins
  <2>10. /\ Cardinality(all \ own) = Cardinality(all) - Cardinality(all \cap own)
         /\ Cardinality(all \ ins) = Cardinality(all) - Cardinality(all \cap ins)
    BY <2>2, FS_Difference
  <2> QED BY <2>6, <2>7, <2>8, <2>9, <2>10
<1>2. IInv => LagIsStrays
  BY <1>1 DEF LagIsStrays
<1> QED BY <1>2, Invariance, PTL

-----------------------------------------------------------------------------
(* The session. *)

(* Without events and data: what is in the stream from begun on is the reply
   to the command in progress, which ends where the client will stop, and a
   command returns when all of it is read.                                 *)
OwnReplies ==
  /\ reader # "panicked"
  /\ \A k \in 1 .. Len(said) :
       said[k].code # "async" /\ said[k].form \in {"mid", "end", "garbled"}
  /\ \A k \in begun + 1 .. Len(said) :
       said[k].to = commands /\ (k < Len(said) => said[k].form = "mid")
  /\ reader = "idle" => begun = Len(said)
  /\ toTor # << >> => reader = "first" /\ begun = Len(said) /\ Len(toTor) = 1

(* An ending that is accepted is one that Tor has granted. *)
OnlyGranted ==
  /\ \A k \in begun + 1 .. Len(said) :
       said[k].form = "end" /\ said[k].code = "ok" =>
         [what |-> step, creation |-> count] \in granted
  /\ Returned /\ Reply.ok =>
       /\ [what |-> step, creation |-> count] \in granted
       /\ said[Reply.first].to = commands

(* The inductive invariant of the session. *)
SInv == IInv /\ SessionTypeOK /\ OwnReplies /\ OnlyGranted

(* What Tor answers the session with. *)
LEMMA AnswersAre ==
  ASSUME NEW what, NEW shape \in Answers(what)
  PROVE  /\ shape \in ReplyShapes
         /\ \A k \in 1 .. Len(shape) :
              /\ shape[k].code # "async" /\ shape[k].form \in {"mid", "end", "garbled"}
              /\ k < Len(shape) => shape[k].form = "mid"
              /\ shape[k].form = "end" /\ shape[k].code = "ok" => Grants(shape)
<1>1. \/ shape \in {<<OkEnd>>, <<Error>>, <<Garbled>>}
      \/ shape \in {<<Mid, Mid, OkEnd>>, <<Mid, Error>>}
  BY DEF Answers
<1>2. shape \in ReplyShapes
  BY <1>1 DEF ReplyShapes
<1>3. CASE shape \in {<<OkEnd>>, <<Error>>, <<Garbled>>}
  <2>1. PICK x \in {OkEnd, Error, Garbled} : shape = <<x>>
    BY <1>3
  <2>2. Len(shape) = 1 /\ shape[1] = x /\ DOMAIN shape = 1 .. 1
    BY <2>1
  <2> QED BY <1>2, <2>1, <2>2, ShapeFields DEF Grants
<1>4. CASE shape = <<Mid, Error>>
  <2>1. Len(shape) = 2 /\ shape[1] = Mid /\ shape[2] = Error
    BY <1>4
  <2>2. \A k \in 1 .. 2 : k = 1 \/ k = 2
    OBVIOUS
  <2> QED BY <1>2, <2>1, <2>2, ShapeFields
<1>5. CASE shape = <<Mid, Mid, OkEnd>>
  <2>1. /\ Len(shape) = 3 /\ DOMAIN shape = 1 .. 3
        /\ shape[1] = Mid /\ shape[2] = Mid /\ shape[3] = OkEnd
    BY <1>5
  <2>2. \A k \in 1 .. 3 : k = 1 \/ k = 2 \/ k = 3
    OBVIOUS
  <2>3. Grants(shape)
    BY <2>1, <2>2, ShapeFields DEF Grants
  <2> QED BY <1>2, <2>1, <2>2, <2>3, ShapeFields
<1> QED BY <1>1, <1>3, <1>4, <1>5

(* The bound on creations is a number. *)
LEMMA CreationBound == MaxCreations \in Nat
BY CommandAssumption DEF MaxCreations

(* The session's steps are the connection's, or leave it alone. *)
LEMMA SessionStep == SessionNext => [Next]_vars
<1>1. \A what : Answers(what) \subseteq ReplyShapes
  BY AnswersAre
<1>2. TorAnswers => TorReplies
  BY <1>1 DEF TorAnswers, TorReplies
<1> QED BY <1>2 DEF SessionNext, Begin, Authenticated, Send, HandsOver, Panics, Fails,
                    Connection, Next

(* At first nothing has been begun. *)
LEMMA SessionInitInv == SessionInit => SInv
<1> SUFFICES ASSUME SessionInit PROVE SInv
  OBVIOUS
<1>1. IInv
  BY InitInv DEF SessionInit
<1>2. Len(<< >>) = 0 /\ DOMAIN << >> = {} /\ \A S : << >> \in Seq(S)
  BY EmptySeq
<1>3. /\ commands = 0 /\ reader = "idle" /\ results = << >> /\ said = << >> /\ toTor = << >>
      /\ begun = 0 /\ count = 0 /\ step = "idle" /\ kinds = << >> /\ granted = {} /\ handed = {}
  BY DEF SessionInit, Init
<1>4. Len(said) = 0 /\ Len(kinds) = 0 /\ Len(results) = 0
  BY <1>2, <1>3
<1>5. OwnReplies
  BY <1>3, <1>4 DEF OwnReplies
<1>6. OnlyGranted
  BY <1>3, <1>4 DEF OnlyGranted, Returned
<1>7. SessionTypeOK
  <2>1. count \in 0 .. MaxCreations
    BY <1>3, CreationBound
  <2>2. kinds \in Seq([what : {"auth", "add"}, creation : 1 .. MaxCreations])
    BY <1>2, <1>3
  <2>3. Len(kinds) = commands /\ Len(results) = commands - (IF reader = "idle" THEN 0 ELSE 1)
    BY <1>3, <1>4
  <2> QED BY <1>1, <1>3, <2>1, <2>2, <2>3 DEF SessionTypeOK, IInv
<1> QED BY <1>1, <1>5, <1>6, <1>7 DEF SInv

(* The numbers and sequences of the session. *)
LEMMA SessionRanges ==
  ASSUME SInv
  PROVE  /\ said \in Seq(Line) /\ Len(said) \in Nat /\ read \in 0 .. Len(said)
         /\ begun \in 0 .. read /\ read \in Nat /\ begun \in Nat
         /\ results \in Seq(Result) /\ Len(results) \in Nat
         /\ commands \in Nat /\ toTor \in Seq(Ids) /\ Len(toTor) \in Nat
BY Ranges DEF SInv

(* What a command returns with is the last result. *)
LEMMA Returning ==
  ASSUME SInv, NEW ok \in BOOLEAN, NEW upto \in Nat, Return(ok, upto)
  PROVE  Reply'.ok = ok /\ Reply'.first = begun + 1
<1> DEFINE new == [ok |-> ok, first |-> begun + 1, upto |-> upto]
<1>1. results \in Seq(Result) /\ Len(results) \in Nat /\ begun \in Nat
  BY SessionRanges
<1>2. new \in Result /\ new.ok = ok /\ new.first = begun + 1 /\ results' = Append(results, new)
  BY <1>1 DEF Return, Result
<1> HIDE DEF new
<1>3. Len(results') = Len(results) + 1 /\ results'[Len(results) + 1] = new
  BY <1>1, <1>2, AppendProperties
<1> QED BY <1>2, <1>3 DEF Reply

(* A line other than 250- is the reply's last, and accepted only if granted. *)
LEMMA ReadOwn ==
  ASSUME SInv, ReadLine, UNCHANGED <<count, step, kinds, granted>>
  PROVE  OwnReplies' /\ OnlyGranted'
<1> DEFINE line == said[read + 1]
<1>1. /\ read < Len(said) /\ UNCHANGED <<said, toTor, commands>>
      /\ \/ reader = "first" /\ OnFirst(line)
         \/ reader = "mid" /\ OnMid(line)
         \/ reader = "data" /\ OnData(line)
  BY DEF ReadLine
<1>2. /\ Len(said) \in Nat /\ read \in Nat /\ begun \in Nat /\ begun <= read
      /\ read + 1 \in begun + 1 .. Len(said) /\ read + 1 \in 1 .. Len(said)
  BY <1>1, SessionRanges
<1>3. /\ line.code # "async" /\ line.form \in {"mid", "end", "garbled"} /\ line.to = commands
      /\ line.form # "mid" => read + 1 = Len(said)
      /\ line.form = "end" /\ line.code = "ok" =>
           [what |-> step, creation |-> count] \in granted
  BY <1>2 DEF SInv, OwnReplies, OnlyGranted
<1>4. toTor = << >>
  BY <1>1, <1>2 DEF SInv, OwnReplies
<1>5. reader # "data"
  <2> SUFFICES ASSUME reader = "data" PROVE FALSE
    OBVIOUS
  <2>1. begun + 1 \in 1 .. Len(said) /\ said[begun + 1].form = "data"
    BY <1>1, <1>2, NotYetLast DEF SInv
  <2> QED BY <2>1 DEF SInv, OwnReplies
<1>6. reader = "first" => said[begun + 1] = line
  BY DEF SInv, IInv, TypeOK
<1> HIDE DEF line
<1>7. \/ reader' = "mid" /\ UNCHANGED <<begun, results>>
      \/ /\ line.form # "mid"
         /\ \E ok \in BOOLEAN : Return(ok, read + 1) /\ (ok => line.form = "end" /\ line.code = "ok")
  <2>1. CASE reader = "first"
    <3>1. OnFirst(line)
      BY <1>1, <2>1
    <3>2. CASE line.form = "end" /\ Return(Accepted, read + 1)
      BY <1>6, <2>1, <3>2 DEF Accepted
    <3>3. CASE line.form = "mid" /\ Continue(line.form)
      BY <3>3 DEF Continue
    <3>4. CASE line.form = "garbled" /\ Return(FALSE, read + 1)
      BY <3>4
    <3> QED BY <1>3, <3>1, <3>2, <3>3, <3>4 DEF OnFirst
  <2>2. CASE reader = "mid"
    <3>1. OnMid(line)
      BY <1>1, <2>2
    <3>2. CASE line.form = "end" /\ line.code = "ok" /\ Return(Accepted, read + 1)
      BY <3>2 DEF Accepted
    <3>3. CASE line.form = "mid" /\ Continue("mid")
      BY <3>3 DEF Continue
    <3>4. CASE line.form # "mid" /\ Return(FALSE, read + 1)
      BY <3>4
    <3> QED BY <1>3, <3>1, <3>2, <3>3, <3>4 DEF OnMid
  <2> QED BY <1>1, <1>5, <2>1, <2>2
<1>8. CASE reader' = "mid" /\ UNCHANGED <<begun, results>>
  <2>1. OwnReplies'
    BY <1>1, <1>4, <1>8 DEF SInv, OwnReplies
  <2>2. OnlyGranted'
    BY <1>1, <1>8 DEF SInv, OnlyGranted, Returned
  <2> QED BY <2>1, <2>2
<1>9. ASSUME line.form # "mid", NEW ok \in BOOLEAN, Return(ok, read + 1),
             ok => line.form = "end" /\ line.code = "ok"
      PROVE  OwnReplies' /\ OnlyGranted'
  <2>1. reader' = "idle" /\ begun' = Len(said) /\ \A k \in Len(said) + 1 .. Len(said) : FALSE
    BY <1>2, <1>3, <1>9 DEF Return
  <2>2. OwnReplies'
    BY <1>1, <1>4, <2>1 DEF SInv, OwnReplies
  <2>3. Reply'.ok = ok /\ Reply'.first = begun + 1
    BY <1>2, <1>9, Returning
  <2>4. said[begun + 1].to = commands
    <3>1. begun + 1 \in begun + 1 .. Len(said)
      BY <1>1, <1>2
    <3> QED BY <3>1 DEF SInv, OwnReplies
  <2>5. OnlyGranted'
    BY <1>1, <1>3, <1>9, <2>1, <2>3, <2>4 DEF OnlyGranted
  <2> QED BY <2>2, <2>5
<1> QED BY <1>7, <1>8, <1>9

(* The stream's end leaves nothing to accept. *)
LEMMA EofOwn ==
  ASSUME SInv, ReadEof, UNCHANGED <<count, step, kinds, granted>>
  PROVE  OwnReplies' /\ OnlyGranted'
<1>1. /\ UNCHANGED <<said, toTor, commands>> /\ closed /\ read = Len(said) /\ read \in Nat
      /\ Return(FALSE, read) /\ reader' = "idle" /\ begun' = read
  BY SessionRanges DEF ReadEof, EofFails, Return
<1>2. toTor = << >>
  BY <1>1 DEF SInv, IInv, Sent
<1>3. Reply'.ok = FALSE
  BY <1>1, Returning
<1>4. \A k \in read + 1 .. read : FALSE
  BY <1>1
<1>5. OwnReplies'
  BY <1>1, <1>2, <1>4 DEF SInv, OwnReplies
<1>6. OnlyGranted'
  BY <1>1, <1>3, <1>4 DEF OnlyGranted
<1> QED BY <1>5, <1>6

(* Tor answers the command in progress. *)
LEMMA AnswerOwn ==
  ASSUME SInv, NEW shape \in Answers(step), TorRepliesWith(shape),
         granted' = IF Grants(shape) THEN granted \cup {kinds[Head(toTor)]} ELSE granted,
         UNCHANGED <<count, step, kinds>>
  PROVE  /\ OwnReplies' /\ OnlyGranted' /\ commands = Head(toTor) /\ reader # "idle"
         /\ commands \in 1 .. Len(kinds) /\ kinds[commands] = [what |-> step, creation |-> count]
<1>1. /\ toTor # << >> /\ ~closed /\ toTor' = Tail(toTor)
      /\ said' = said \o Lines(Head(toTor), shape)
      /\ UNCHANGED <<commands, read, reader, begun, results>>
  BY DEF TorRepliesWith
<1>2. /\ reader = "first" /\ begun = Len(said) /\ Len(toTor) = 1
      /\ said \in Seq(Line) /\ Len(said) \in Nat /\ toTor \in Seq(Ids) /\ commands \in Nat
  BY <1>1, SessionRanges DEF SInv, OwnReplies
<1>3. Head(toTor) = commands /\ toTor' = << >> /\ commands \in Ids
  <2>1. Head(toTor) = toTor[1] /\ Head(toTor) \in Ids /\ 1 \in 1 .. Len(toTor)
    BY <1>1, <1>2, HeadTailProperties
  <2>2. toTor[1] = commands - 1 + 1
    BY <1>1, <1>2, <2>1 DEF SInv, IInv, Sent
  <2>3. Tail(toTor) \in Seq(Ids) /\ Len(Tail(toTor)) = 0
    BY <1>1, <1>2, HeadTailProperties
  <2> QED BY <1>1, <1>2, <2>1, <2>2, <2>3, EmptySeq
<1>4. commands \in 1 .. Len(kinds) /\ kinds[commands] = [what |-> step, creation |-> count]
  BY <1>2, <1>3, CommandAssumption DEF SInv, SessionTypeOK, Ids
<1> DEFINE b == Lines(commands, shape)
<1>5. /\ b \in Seq(Line) /\ Len(b) = Len(shape) /\ Len(b) \in Nat
      /\ \A k \in 1 .. Len(b) :
           /\ b[k].to = commands /\ b[k].code # "async"
           /\ b[k].form \in {"mid", "end", "garbled"}
           /\ k < Len(b) => b[k].form = "mid"
           /\ b[k].form = "end" /\ b[k].code = "ok" => Grants(shape)
  <2>1. WellFormed(shape)
    BY AnswersAre, RepliesWellFormed
  <2>2. /\ b \in Seq(Line) /\ Len(b) = Len(shape)
        /\ \A k \in 1 .. Len(shape) : /\ b[k].to = commands /\ b[k].code = shape[k].code
                                      /\ b[k].form = shape[k].form
    BY <1>3, <2>1, LinesAre
  <2> HIDE DEF b
  <2> QED BY <2>2, AnswersAre, ByLength
<1> HIDE DEF b
<1>6. said' = said \o b
  BY <1>1, <1>3 DEF b
<1>7. /\ Len(said') = Len(said) + Len(b)
      /\ \A k \in 1 .. Len(said') :
           \/ k \in 1 .. Len(said) /\ said'[k] = said[k]
           \/ k - Len(said) \in 1 .. Len(b) /\ said'[k] = b[k - Len(said)]
  <2>1. /\ Len(said') = Len(said) + Len(b)
        /\ \A k \in 1 .. Len(said) + Len(b) :
             said'[k] = IF k <= Len(said) THEN said[k] ELSE b[k - Len(said)]
    <3>1. said \in Seq(Line) /\ b \in Seq(Line)
      BY <1>2, <1>5
    <3>2. /\ Len(said \o b) = Len(said) + Len(b)
          /\ \A k \in 1 .. Len(said) + Len(b) :
               (said \o b)[k] = IF k <= Len(said) THEN said[k] ELSE b[k - Len(said)]
      BY <3>1, ConcatProperties
    <3> QED BY <1>6, <3>2
  <2> QED BY <1>2, <1>5, <2>1
<1>8. \A k \in begun + 1 .. Len(said') :
        /\ k - Len(said) \in 1 .. Len(b) /\ said'[k] = b[k - Len(said)]
        /\ k < Len(said') => k - Len(said) < Len(b)
  BY <1>2, <1>5, <1>7
<1>9. OwnReplies'
  <2>1. \A k \in 1 .. Len(said') :
          said'[k].code # "async" /\ said'[k].form \in {"mid", "end", "garbled"}
    BY <1>5, <1>7 DEF SInv, OwnReplies
  <2>2. \A k \in begun + 1 .. Len(said') :
          said'[k].to = commands /\ (k < Len(said') => said'[k].form = "mid")
    BY <1>5, <1>8
  <2> QED BY <1>1, <1>2, <1>3, <2>1, <2>2 DEF OwnReplies
<1>10. OnlyGranted'
  <2>1. \A k \in begun + 1 .. Len(said') :
          said'[k].form = "end" /\ said'[k].code = "ok" =>
            [what |-> step, creation |-> count] \in granted'
    BY <1>3, <1>4, <1>5, <1>8
  <2> QED BY <1>1, <1>2, <2>1 DEF OnlyGranted, Returned
<1> QED BY <1>2, <1>3, <1>4, <1>9, <1>10

(* What the end of the connection leaves of the reply was there before. *)
LEMMA CloseOwn ==
  ASSUME SInv, TorCloses, UNCHANGED <<count, step, kinds, granted>>
  PROVE  OwnReplies' /\ OnlyGranted'
<1>1. UNCHANGED <<commands, read, reader, begun, results>> /\ toTor' = << >>
  BY DEF TorCloses
<1>2. Len(said) \in Nat /\ read \in 0 .. Len(said) /\ begun \in 0 .. read
  BY SessionRanges
<1>3. IsCut(said')
  BY CloseCuts DEF SInv
<1>4. /\ Len(said') \in read .. Len(said)
      /\ \A k \in 1 .. Len(said') :
           /\ k \in 1 .. Len(said)
           /\ k < Len(said') => k < Len(said) /\ said'[k].form = said[k].form
           /\ said'[k].to = said[k].to /\ said'[k].code = said[k].code
           /\ said'[k].form \in {said[k].form, "garbled"}
  <2>1. \A k \in 1 .. Len(said') : k \in 1 .. Len(said) /\ said[k].code # "async"
    BY <1>2, <1>3 DEF IsCut, SInv, OwnReplies
  <2> QED BY <1>2, <1>3, <2>1 DEF IsCut
<1>5. \A k \in begun + 1 .. Len(said') : k \in 1 .. Len(said') /\ k \in begun + 1 .. Len(said)
  BY <1>2, <1>4
<1>6. OwnReplies'
  <2>1. \A k \in 1 .. Len(said') :
          said'[k].code # "async" /\ said'[k].form \in {"mid", "end", "garbled"}
    BY <1>4 DEF SInv, OwnReplies
  <2>2. \A k \in begun + 1 .. Len(said') :
          said'[k].to = commands /\ (k < Len(said') => said'[k].form = "mid")
    BY <1>4, <1>5 DEF SInv, OwnReplies
  <2>3. reader = "idle" => begun = Len(said')
    BY <1>2, <1>4 DEF SInv, OwnReplies
  <2> QED BY <1>1, <2>1, <2>2, <2>3 DEF SInv, OwnReplies
<1>7. OnlyGranted'
  <2>1. \A k \in begun + 1 .. Len(said') :
          said'[k].form = "end" /\ said'[k].code = "ok" =>
            [what |-> step, creation |-> count] \in granted
    BY <1>4, <1>5 DEF SInv, OnlyGranted
  <2>2. ASSUME Returned, Reply.ok
        PROVE  /\ [what |-> step, creation |-> count] \in granted
               /\ said'[Reply.first].to = commands
    <3>1. said[Reply.first].to = commands
      BY <2>2 DEF SInv, OnlyGranted
    <3>2. Reply.first \in 1 .. Len(said')
      <4>1. Len(results) = commands /\ commands \in 1 .. Len(results)
        <5>1. commands > 0 /\ Len(results) = commands - 0 /\ commands \in Nat
          BY <2>2, SessionRanges DEF SInv, SessionTypeOK, Returned
        <5> QED BY <5>1
      <4>2. /\ Reply.first \in 1 .. begun + 1 /\ Reply.upto \in 0 .. begun
            /\ Reply.first <= Reply.upto
        BY <2>2, <4>1, Ranges DEF SInv, IInv, Told, SuccessIsWhole, Reply
      <4> QED BY <1>2, <1>4, <4>2
    <3> QED BY <1>4, <2>2, <3>1, <3>2 DEF SInv, OnlyGranted
  <2>3. Reply' = Reply /\ Returned' = Returned
    BY <1>1 DEF Reply, Returned
  <2> QED BY <1>1, <2>1, <2>2, <2>3 DEF OnlyGranted
<1> QED BY <1>6, <1>7

(* The connection's part of the invariant, and that every command that is
   not waiting has returned.                                               *)
LEMMA ConnectionKept ==
  ASSUME SInv, [Next]_vars
  PROVE  /\ IInv' /\ TypeOK'
         /\ Len(results') = commands' - (IF reader' = "idle" THEN 0 ELSE 1)
<1>1. IInv'
  BY StepInv DEF SInv
<1> QED BY <1>1 DEF IInv, Told

(* The next command is sent for the creation it is sent for. *)
LEMMA SendStepInv ==
  ASSUME SInv, NEW what \in {"auth", "add"}, NEW n \in 1 .. MaxCreations,
         Send(what, n), count' = n, UNCHANGED <<granted, handed>>
  PROVE  SInv'
<1>1. /\ SendCommand /\ step' = what /\ commands' = commands + 1
      /\ kinds' = Append(kinds, [what |-> what, creation |-> n])
      /\ UNCHANGED <<said, read, closed>> /\ reader = "idle"
      /\ \/ /\ toTor' = IF closed THEN toTor ELSE Append(toTor, commands + 1)
            /\ Continue("first")
         \/ Return(FALSE, begun) /\ UNCHANGED toTor
  BY DEF Send, SendCommand
<1>2. /\ IInv' /\ TypeOK'
      /\ Len(results') = commands' - (IF reader' = "idle" THEN 0 ELSE 1)
  BY <1>1, ConnectionKept DEF Next
<1> DEFINE K == [what : {"auth", "add"}, creation : 1 .. MaxCreations]
           new == [what |-> what, creation |-> n]
<1>3. kinds \in Seq(K) /\ new \in K /\ Len(kinds) = commands /\ commands \in Nat
  BY SessionRanges DEF SInv, SessionTypeOK
<1>4. /\ kinds' \in Seq(K) /\ Len(kinds') = Len(kinds) + 1 /\ kinds'[Len(kinds) + 1] = new
      /\ DOMAIN kinds = 1 .. Len(kinds) /\ DOMAIN kinds' = 1 .. Len(kinds) + 1
      /\ \A i \in 1 .. Len(kinds) : kinds'[i] = kinds[i]
  <2> HIDE DEF K, new
  <2>1. kinds' = Append(kinds, new)
    BY <1>1 DEF new
  <2> QED BY <1>3, <2>1, AppendProperties, ByLength
<1>5. Len(kinds') = commands' /\ kinds'[commands'] = new /\ commands' > 0
  BY <1>1, <1>3, <1>4
<1>6. granted \subseteq Range(kinds')
  <2>1. \A i \in DOMAIN kinds : i \in DOMAIN kinds' /\ kinds'[i] = kinds[i]
    BY <1>3, <1>4
  <2> QED BY <2>1 DEF SInv, SessionTypeOK, Range
<1>7. n \in 0 .. MaxCreations /\ MaxCreations' = MaxCreations
  BY CreationBound DEF MaxCreations
<1>8. SessionTypeOK'
  BY <1>1, <1>2, <1>4, <1>5, <1>6, <1>7 DEF SInv, SessionTypeOK
<1>9. /\ begun = Len(said) /\ toTor = << >> /\ Len(said) \in Nat /\ begun \in Nat
      /\ \A k \in begun + 1 .. Len(said) : FALSE
  BY <1>1, SessionRanges DEF SInv, OwnReplies
<1>10. begun' = begun
  BY <1>1 DEF Continue, Return
<1>11. OwnReplies'
  <2>1. CASE reader' = "first" /\ toTor' = IF closed THEN toTor ELSE Append(toTor, commands + 1)
    <3>1. toTor' # << >> => Len(toTor') = 1
      <4>1. Append(<< >>, commands + 1) = <<commands + 1>> /\ Len(<<commands + 1>>) = 1
        OBVIOUS
      <4> QED BY <1>9, <2>1, <4>1
    <3> QED BY <1>1, <1>9, <1>10, <2>1, <3>1 DEF SInv, OwnReplies
  <2>2. CASE reader' = "idle" /\ UNCHANGED toTor
    BY <1>1, <1>9, <1>10, <2>2 DEF SInv, OwnReplies
  <2> QED BY <1>1, <2>1, <2>2 DEF Continue, Return
<1>12. OnlyGranted'
  <2>1. Returned' => Reply'.ok = FALSE
    <3>1. CASE Continue("first")
      BY <3>1 DEF Continue, Returned
    <3>2. CASE Return(FALSE, begun)
      BY <1>9, <3>2, Returning
    <3> QED BY <1>1, <3>1, <3>2
  <2> QED BY <1>1, <1>9, <1>10, <2>1 DEF OnlyGranted
<1> QED BY <1>2, <1>8, <1>11, <1>12 DEF SInv

(* A connection's step leaves the creations alone. *)
LEMMA ConnectionStepInv ==
  ASSUME SInv, Connection, UNCHANGED <<count, step, kinds, handed>>
  PROVE  SInv'
<1>1. CASE TorAnswers
  <2>1. PICK shape \in Answers(step) :
          /\ TorRepliesWith(shape)
          /\ granted' = IF Grants(shape) THEN granted \cup {kinds[Head(toTor)]} ELSE granted
    BY <1>1 DEF TorAnswers
  <2>2. /\ OwnReplies' /\ OnlyGranted' /\ commands = Head(toTor) /\ reader # "idle"
        /\ commands \in 1 .. Len(kinds)
    BY <2>1, AnswerOwn
  <2>3. /\ IInv' /\ TypeOK'
        /\ Len(results') = commands' - (IF reader' = "idle" THEN 0 ELSE 1)
    BY <2>1, AnswersAre, ConnectionKept DEF Next, TorReplies
  <2>4. UNCHANGED <<commands, reader>>
    BY <2>1 DEF TorRepliesWith
  <2>5. granted' \subseteq Range(kinds)
    <3>1. DOMAIN kinds = 1 .. Len(kinds)
      BY ByLength DEF SInv, SessionTypeOK
    <3>2. kinds[Head(toTor)] \in Range(kinds)
      BY <2>2, <3>1 DEF Range
    <3> QED BY <2>1, <3>2 DEF SInv, SessionTypeOK
  <2>6. MaxCreations' = MaxCreations
    BY DEF MaxCreations
  <2>7. SessionTypeOK'
    BY <2>3, <2>4, <2>5, <2>6 DEF SInv, SessionTypeOK
  <2> QED BY <2>2, <2>3, <2>7 DEF SInv
<1>2. CASE (ReadLine \/ ReadEof \/ TorCloses) /\ UNCHANGED granted
  <2>1. OwnReplies' /\ OnlyGranted'
    BY <1>2, ReadOwn, EofOwn, CloseOwn
  <2>2. /\ IInv' /\ TypeOK'
        /\ Len(results') = commands' - (IF reader' = "idle" THEN 0 ELSE 1)
    BY <1>2, ConnectionKept DEF Next
  <2>3. UNCHANGED commands /\ (reader = "idle" => reader' = "idle")
    BY <1>2 DEF ReadLine, ReadEof, Waiting, TorCloses
  <2>4. SessionTypeOK'
    BY <1>2, <2>2, <2>3 DEF SInv, SessionTypeOK
  <2> QED BY <2>1, <2>2, <2>4 DEF SInv
<1> QED BY <1>1, <1>2 DEF Connection

(* The reply the session looks at is the current creation's, and Tor granted
   what it accepts.                                                        *)
LEMMA ReplyIsOwn ==
  ASSUME SInv, Returned
  PROVE  /\ count \in 1 .. MaxCreations
         /\ kinds[commands] = [what |-> step, creation |-> count]
         /\ Reply.ok => /\ said[Reply.first].to = commands
                        /\ [what |-> step, creation |-> count] \in granted
<1>1. /\ commands \in 1 .. Len(kinds) /\ kinds[commands] = [what |-> step, creation |-> count]
  BY SessionRanges DEF SInv, SessionTypeOK, Returned
<1>2. kinds[commands] \in [what : {"auth", "add"}, creation : 1 .. MaxCreations]
  BY <1>1, ElementOfSeq DEF SInv, SessionTypeOK
<1> QED BY <1>1, <1>2 DEF SInv, OnlyGranted

(* Any step of the session keeps its invariant. *)
LEMMA SessionStepInv == SInv /\ [SessionNext]_sessionVars => SInv'
<1> SUFFICES ASSUME SInv, [SessionNext]_sessionVars PROVE SInv'
  OBVIOUS
<1>1. CASE Begin
  <2>1. step = "idle" /\ count < MaxCreations /\ count' = count + 1
    BY <1>1 DEF Begin
  <2>2. count + 1 \in 1 .. MaxCreations
    BY <2>1, CreationBound DEF SInv, SessionTypeOK
  <2>3. Send("auth", count + 1) /\ UNCHANGED <<granted, handed>>
    BY <1>1 DEF Begin
  <2> QED BY <2>1, <2>2, <2>3, SendStepInv
<1>2. CASE Authenticated
  <2>1. Returned /\ Send("add", count) /\ UNCHANGED <<count, granted, handed>>
    BY <1>2 DEF Authenticated
  <2>2. count \in 1 .. MaxCreations
    BY <2>1, ReplyIsOwn
  <2> QED BY <2>1, <2>2, SendStepInv
<1>3. CASE HandsOver \/ Panics \/ Fails
  <2>1. /\ Returned /\ step' \in {"idle", "panicked"} /\ UNCHANGED vars
        /\ UNCHANGED <<count, kinds, granted>>
    BY <1>3 DEF HandsOver, Panics, Fails
  <2>2. IInv' /\ TypeOK' /\ UNCHANGED <<commands, toTor, said, reader, begun, results>>
    BY <2>1, ConnectionKept DEF vars
  <2>3. OwnReplies'
    BY <2>2 DEF SInv, OwnReplies
  <2>4. OnlyGranted'
    <3>1. reader = "idle"
      BY <2>1 DEF Returned
    <3>2. \A k \in begun + 1 .. Len(said) : FALSE
      BY <3>1, SessionRanges DEF SInv, OwnReplies
    <3> QED BY <2>1, <2>2, <3>2 DEF OnlyGranted, Returned
  <2>5. handed' \subseteq [creation : 1 .. MaxCreations, service : 1 .. MaxCreations]
    <3>1. CASE HandsOver
      <4>1. /\ Reply.ok
            /\ handed' = handed \cup {[creation |-> count,
                           service |-> kinds[said[Reply.first].to].creation]}
        BY <3>1 DEF HandsOver, HasValue
      <4>2. /\ count \in 1 .. MaxCreations
            /\ kinds[said[Reply.first].to].creation = count
        BY <2>1, <4>1, ReplyIsOwn
      <4> QED BY <4>1, <4>2 DEF SInv, SessionTypeOK
    <3>2. CASE Panics \/ Fails
      BY <3>2 DEF Panics, Fails, SInv, SessionTypeOK
    <3> QED BY <1>3, <3>1, <3>2
  <2>6. reader' = "idle" /\ MaxCreations' = MaxCreations
    BY <2>1, <2>2 DEF Returned, MaxCreations
  <2>7. SessionTypeOK'
    BY <2>1, <2>2, <2>5, <2>6 DEF SInv, SessionTypeOK
  <2> QED BY <2>2, <2>3, <2>4, <2>7 DEF SInv
<1>4. CASE Connection /\ UNCHANGED <<count, step, kinds, handed>>
  BY <1>4, ConnectionStepInv
<1>5. CASE UNCHANGED sessionVars
  <2>1. UNCHANGED vars /\ UNCHANGED <<count, step, kinds, granted, handed>>
    BY <1>5 DEF sessionVars, vars
  <2>2. /\ IInv' /\ TypeOK'
        /\ UNCHANGED <<commands, toTor, said, reader, begun, results>>
    BY <2>1, ConnectionKept DEF vars
  <2>3. OwnReplies' /\ OnlyGranted'
    BY <2>1, <2>2 DEF SInv, OwnReplies, OnlyGranted, Returned, Reply
  <2>4. MaxCreations' = MaxCreations
    BY DEF MaxCreations
  <2>5. SessionTypeOK'
    BY <2>1, <2>2, <2>4 DEF SInv, SessionTypeOK
  <2> QED BY <2>2, <2>3, <2>5 DEF SInv
<1> QED BY <1>1, <1>2, <1>3, <1>4, <1>5 DEF SessionNext

(* The invariant holds throughout, for any number of creations. *)
THEOREM SessionInvariance == SessionSpec => []SInv
BY SessionInitInv, SessionStepInv, PTL DEF SessionSpec

(* SessionTypeOK: every variable stays in its range, and a creation waits
   for the command sent last (create_transient_onion_service).             *)
THEOREM SessionTypesHold == SessionSpec => []SessionTypeOK
<1>1. SInv => SessionTypeOK
  BY DEF SInv
<1> QED BY <1>1, SessionInvariance, PTL

-----------------------------------------------------------------------------
(* Every step of the conversation is a step of the abstract creation, or
   none of its concern.                                                    *)
LEMMA SessionRefines ==
  ASSUME SInv, [SessionNext]_sessionVars
  PROVE  [Creation!Next]_(Creation!creationVars)
<1> SUFFICES Creation!Next \/ UNCHANGED <<count, Stage, granted, handed>>
  BY DEF Creation!creationVars
<1>1. CASE Begin
  <2>1. /\ step = "idle" /\ count < MaxCreations /\ count' = count + 1
        /\ step' = "auth" /\ UNCHANGED <<granted, handed>>
    BY <1>1 DEF Begin, Send
  <2> QED BY <2>1 DEF Creation!Next, Creation!Begin, Stage
<1>2. CASE Authenticated
  <2>1. /\ Returned /\ step = "auth" /\ Reply.ok /\ step' = "add"
        /\ UNCHANGED <<count, granted, handed>>
    BY <1>2 DEF Authenticated, AuthAccepted, Send
  <2>2. [what |-> step, creation |-> count] \in granted
    BY <2>1, ReplyIsOwn
  <2> QED BY <2>1, <2>2 DEF Creation!Next, Creation!Authenticated, Creation!Grant, Stage
<1>3. CASE HandsOver
  <2>1. /\ Returned /\ step = "add" /\ Reply.ok /\ step' = "idle" /\ UNCHANGED <<count, granted>>
        /\ handed' = handed \cup {[creation |-> count,
                                   service |-> kinds[said[Reply.first].to].creation]}
    BY <1>3 DEF HandsOver, HasValue
  <2>2. /\ [what |-> step, creation |-> count] \in granted
        /\ kinds[said[Reply.first].to].creation = count
    BY <2>1, ReplyIsOwn
  <2> QED BY <2>1, <2>2 DEF Creation!Next, Creation!HandsOver, Creation!Grant, Stage
<1>4. CASE Panics \/ Fails
  <2>1. /\ step \in {"auth", "add"} /\ step' \in {"idle", "panicked"}
        /\ UNCHANGED <<count, granted, handed>>
    BY <1>4 DEF Panics, Fails, Returned
  <2> QED BY <2>1 DEF Creation!Next, Creation!Fails, Stage
<1>5. CASE Connection /\ UNCHANGED <<count, step, kinds, handed>>
  <2>1. CASE TorAnswers
    <3>1. PICK shape \in Answers(step) :
            /\ TorRepliesWith(shape)
            /\ granted' = IF Grants(shape) THEN granted \cup {kinds[Head(toTor)]} ELSE granted
      BY <2>1 DEF TorAnswers
    <3>2. kinds[Head(toTor)] = [what |-> step, creation |-> count] /\ step \in {"auth", "add"}
      <4>1. /\ commands = Head(toTor) /\ reader # "idle"
            /\ kinds[commands] = [what |-> step, creation |-> count]
        BY <1>5, <3>1, AnswerOwn
      <4> QED BY <4>1 DEF SInv, SessionTypeOK
    <3>3. CASE Grants(shape)
      BY <1>5, <3>1, <3>2, <3>3 DEF Creation!Next, Creation!TorGrants, Creation!Grant, Stage
    <3>4. CASE ~Grants(shape)
      BY <1>5, <3>1, <3>4 DEF Stage
    <3> QED BY <3>3, <3>4
  <2>2. CASE UNCHANGED granted
    BY <1>5, <2>2 DEF Stage
  <2> QED BY <1>5, <2>1, <2>2 DEF Connection
<1>6. CASE UNCHANGED sessionVars
  BY <1>6 DEF sessionVars, Stage
<1> QED BY <1>1, <1>2, <1>3, <1>4, <1>5, <1>6 DEF SessionNext

(* The safety part of ImplementsOnionCreation: however Tor's replies are
   shaped and wherever the connection ends, a creation goes on only with
   what Tor granted to it, and hands over its own service.  The other part,
   that every creation ends, is left to the model checker.                 *)
THEOREM CreatesAsPromised ==
  SessionSpec => Creation!Init /\ [][Creation!Next]_(Creation!creationVars)
<1>1. SessionInit => Creation!Init
  BY DEF SessionInit, Creation!Init, Stage
<1>2. SInv /\ [SessionNext]_sessionVars => [Creation!Next]_(Creation!creationVars)
  BY SessionRefines
<1> QED BY <1>1, <1>2, SessionInvariance, PTL DEF SessionSpec
=============================================================================
