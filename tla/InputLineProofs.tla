--------------------------- MODULE InputLineProofs ---------------------------
(***************************************************************************)
(* Proofs about InputLine, for every set of characters, any widths and     *)
(* lines of any length: no index leaves the line, the line with its cursor *)
(* implements LineEditor, split_each's rows are the line broken as late as *)
(* possible, and the cursor follows them, in the one row of the panel as   *)
(* long as the text before it is narrower.                                 *)
(* The folds of the model are proved to do what they do character by       *)
(* character, from which everything about rows and cells follows.          *)
(***************************************************************************)
EXTENDS InputLine, SequenceTheorems, WellFoundedInduction, TLAPS

(* The text before and from position k on. *)
Before(s, k) == SubSeq(s, 1, k)
From(s, k) == SubSeq(s, k + 1, Len(s))

(* The two parts of a text. *)
LEMMA Parts ==
  ASSUME NEW S, NEW s \in Seq(S), NEW k \in 0 .. Len(s)
  PROVE  /\ Len(s) \in Nat
         /\ Before(s, k) \in Seq(S) /\ Len(Before(s, k)) = k
         /\ \A i \in 1 .. k : Before(s, k)[i] = s[i]
         /\ From(s, k) \in Seq(S) /\ Len(From(s, k)) = Len(s) - k
         /\ \A i \in 1 .. Len(s) - k : From(s, k)[i] = s[k + i]
         /\ Before(s, k) \o From(s, k) = s
<1>1. Len(s) \in Nat /\ \A i \in 1 .. Len(s) : s[i] \in S
  BY LenProperties, ElementOfSeq
<1>2. k \in Int /\ k + 1 \in Int /\ Len(s) \in Int /\ 1 \in Int
  BY <1>1
<1>3. /\ Before(s, k) \in Seq(S)
      /\ Len(Before(s, k)) = IF 1 <= k THEN k - 1 + 1 ELSE 0
      /\ \A i \in 1 .. k - 1 + 1 : Before(s, k)[i] = s[1 + i - 1]
  <2>1. \A i \in 1 .. k : s[i] \in S
    BY <1>1
  <2> QED BY <1>2, <2>1, SubSeqProperties DEF Before
<1>4. /\ From(s, k) \in Seq(S)
      /\ Len(From(s, k)) = IF k + 1 <= Len(s) THEN Len(s) - (k + 1) + 1 ELSE 0
      /\ \A i \in 1 .. Len(s) - (k + 1) + 1 : From(s, k)[i] = s[k + 1 + i - 1]
  <2>1. \A i \in k + 1 .. Len(s) : s[i] \in S
    BY <1>1
  <2> QED BY <1>2, <2>1, SubSeqProperties DEF From
<1>5. Before(s, k) \o From(s, k) = s
  <2>1. /\ 1 \in 1 .. Len(s) + 1 /\ k \in 1 - 1 .. Len(s)
        /\ Len(s) \in k .. Len(s)
    BY <1>1
  <2>2. SubSeq(s, 1, k) \o SubSeq(s, k + 1, Len(s)) = SubSeq(s, 1, Len(s))
    BY <2>1, ConcatAdjacentSubSeq
  <2> QED BY <2>2, SubSeqFull DEF Before, From
<1>6. k - 1 + 1 = k /\ Len(s) - (k + 1) + 1 = Len(s) - k
  BY <1>1
<1>7. (\A i \in 1 .. k : 1 + i - 1 = i) /\ (\A i \in 1 .. Len(s) - k : k + 1 + i - 1 = k + i)
  BY <1>1
<1>8. Len(Before(s, k)) = k /\ Len(From(s, k)) = Len(s) - k
  BY <1>1, <1>3, <1>4
<1> QED BY <1>1, <1>3, <1>4, <1>5, <1>6, <1>7, <1>8

(* What inserting leaves. *)
LEMMA InsertedAt ==
  ASSUME NEW s, NEW k, NEW c
  PROVE  InsertAt(s, k, c) = SubSeq(s, 1, k - 1) \o <<c>> \o SubSeq(s, k, Len(s))
BY DEF InsertAt

(* What removing leaves. *)
LEMMA RemovedFrom ==
  ASSUME NEW s, NEW k
  PROVE  RemoveAt(s, k) = SubSeq(s, 1, k - 1) \o SubSeq(s, k + 1, Len(s))
BY DEF RemoveAt

(* Two texts put together have the one before and the other from the place
   where they meet.                                                        *)
LEMMA Joined ==
  ASSUME NEW S, NEW l \in Seq(S), NEW r \in Seq(S)
  PROVE  /\ l \o r \in Seq(S) /\ Len(l) \in 0 .. Len(l \o r)
         /\ Len(l \o r) = Len(l) + Len(r)
         /\ Before(l \o r, Len(l)) = l
         /\ From(l \o r, Len(l)) = r
<1> DEFINE t == l \o r
           k == Len(l)
<1> HIDE DEF t, k
<1>1. k \in Nat /\ Len(r) \in Nat /\ k = Len(l)
  BY LenProperties DEF k
<1>2. /\ t \in Seq(S) /\ Len(t) = k + Len(r)
      /\ \A i \in 1 .. k + Len(r) : t[i] = IF i <= k THEN l[i] ELSE r[i - k]
  BY <1>1, ConcatProperties DEF t
<1>3. k \in 0 .. Len(t) /\ Len(t) - k = Len(r)
  BY <1>1, <1>2
<1>4. /\ Before(t, k) \in Seq(S) /\ Len(Before(t, k)) = k
      /\ \A i \in 1 .. k : Before(t, k)[i] = t[i]
      /\ From(t, k) \in Seq(S) /\ Len(From(t, k)) = Len(r)
      /\ \A i \in 1 .. Len(r) : From(t, k)[i] = t[k + i]
  <2>1. /\ Before(t, k) \in Seq(S) /\ Len(Before(t, k)) = k
        /\ \A i \in 1 .. k : Before(t, k)[i] = t[i]
        /\ From(t, k) \in Seq(S) /\ Len(From(t, k)) = Len(t) - k
        /\ \A i \in 1 .. Len(t) - k : From(t, k)[i] = t[k + i]
    BY <1>2, <1>3, Parts
  <2> QED BY <1>3, <2>1
<1>5. Before(t, k) = l
  <2>1. \A i \in 1 .. k : Before(t, k)[i] = l[i]
    <3> SUFFICES ASSUME NEW i \in 1 .. k PROVE Before(t, k)[i] = l[i]
      OBVIOUS
    <3>1. i \in 1 .. k + Len(r) /\ i <= k
      BY <1>1
    <3> QED BY <1>2, <1>4, <3>1
  <2> QED BY <1>1, <1>4, <2>1, SeqEqual
<1>6. From(t, k) = r
  <2>1. \A i \in 1 .. Len(r) : From(t, k)[i] = r[i]
    <3> SUFFICES ASSUME NEW i \in 1 .. Len(r) PROVE From(t, k)[i] = r[i]
      OBVIOUS
    <3>1. k + i \in 1 .. k + Len(r) /\ ~(k + i <= k) /\ k + i - k = i
      BY <1>1
    <3> QED BY <1>2, <1>4, <3>1
  <2> QED BY <1>4, <2>1, SeqEqual
<1> QED BY <1>1, <1>2, <1>3, <1>5, <1>6 DEF t, k

(* Vec::insert: the parts of the text with a character inserted. *)
LEMMA Inserted ==
  ASSUME NEW S, NEW s \in Seq(S), NEW k \in 0 .. Len(s), NEW c \in S
  PROVE  /\ InsertAt(s, k + 1, c) \in Seq(S)
         /\ Len(InsertAt(s, k + 1, c)) = Len(s) + 1
         /\ Before(InsertAt(s, k + 1, c), k + 1) = Append(Before(s, k), c)
         /\ From(InsertAt(s, k + 1, c), k + 1) = From(s, k)
<1> DEFINE l == Before(s, k)
           r == From(s, k)
           a == Append(l, c)
           t == InsertAt(s, k + 1, c)
<1> HIDE DEF l, r, a, t
<1>1. /\ Len(s) \in Nat /\ l \in Seq(S) /\ Len(l) = k /\ r \in Seq(S)
      /\ Len(r) = Len(s) - k
  BY Parts DEF l, r
<1>2. a \in Seq(S) /\ Len(a) = k + 1
  BY <1>1, AppendProperties DEF a
<1>3. t = a \o r
  <2>1. l \o <<c>> = a
    BY <1>1, AppendIsConcat DEF a
  <2>2. PICK n \in Int : n = k + 1
    BY <1>1
  <2>3. t = SubSeq(s, 1, n - 1) \o <<c>> \o SubSeq(s, n, Len(s))
    BY <2>2, InsertedAt DEF t
  <2>4. SubSeq(s, 1, n - 1) = l
    <3>1. n - 1 = k
      BY <1>1, <2>2
    <3> QED BY <3>1 DEF l, Before
  <2>5. SubSeq(s, n, Len(s)) = r
    BY <2>2 DEF r, From
  <2> QED BY <2>1, <2>3, <2>4, <2>5
<1>4. /\ t \in Seq(S) /\ Len(t) = Len(a) + Len(r)
      /\ Before(t, Len(a)) = a /\ From(t, Len(a)) = r
  BY <1>1, <1>2, <1>3, Joined
<1>5. Len(t) = Len(s) + 1
  BY <1>1, <1>2, <1>4
<1> QED BY <1>2, <1>4, <1>5 DEF t, a, l, r

(* Vec::remove: the parts of the text without its character k + 1, for a
   cursor before that character and for one behind it.                     *)
LEMMA Removed ==
  ASSUME NEW S, NEW s \in Seq(S), NEW k \in 0 .. Len(s), k < Len(s)
  PROVE  /\ RemoveAt(s, k + 1) \in Seq(S)
         /\ Len(RemoveAt(s, k + 1)) = Len(s) - 1
         /\ Before(RemoveAt(s, k + 1), k) = Before(s, k)
         /\ From(RemoveAt(s, k + 1), k) = From(s, k + 1)
         /\ From(s, k) # << >> /\ Tail(From(s, k)) = From(s, k + 1)
         /\ Before(s, k + 1) # << >>
         /\ SubSeq(Before(s, k + 1), 1, Len(Before(s, k + 1)) - 1) = Before(s, k)
<1> DEFINE l == Before(s, k)
           r == From(s, k + 1)
           b == Before(s, k + 1)
           t == RemoveAt(s, k + 1)
<1> HIDE DEF l, r, b, t
<1>1. Len(s) \in Nat /\ k + 1 \in 0 .. Len(s)
  BY LenProperties
<1>2. /\ l \in Seq(S) /\ Len(l) = k
      /\ From(s, k) \in Seq(S) /\ Len(From(s, k)) = Len(s) - k
  BY Parts DEF l
<1>3. /\ b \in Seq(S) /\ Len(b) = k + 1
      /\ r \in Seq(S) /\ Len(r) = Len(s) - (k + 1)
  BY <1>1, Parts DEF b, r
<1>4. t = l \o r
  <2>1. PICK n \in Int : n = k + 1
    BY <1>1
  <2>2. t = SubSeq(s, 1, n - 1) \o SubSeq(s, n + 1, Len(s))
    BY <2>1, RemovedFrom DEF t
  <2>3. SubSeq(s, 1, n - 1) = l
    <3>1. n - 1 = k
      BY <1>1, <2>1
    <3> QED BY <3>1 DEF l, Before
  <2>4. SubSeq(s, n + 1, Len(s)) = r
    BY <2>1 DEF r, From
  <2> QED BY <2>2, <2>3, <2>4
<1>5. /\ t \in Seq(S) /\ Len(t) = Len(l) + Len(r)
      /\ Before(t, Len(l)) = l /\ From(t, Len(l)) = r
  BY <1>2, <1>3, <1>4, Joined
<1>6. Len(t) = Len(s) - 1 /\ Len(s) - k > 0
  BY <1>1, <1>2, <1>3, <1>5
<1>7. From(s, k) # << >> /\ b # << >>
  BY <1>1, <1>2, <1>3, <1>6, EmptySeq
<1>8. Tail(From(s, k)) = r
  <2>1. k + 1 \in 1 .. Len(s) /\ Len(s) \in k + 1 .. Len(s)
    BY <1>1
  <2>2. Tail(SubSeq(s, k + 1, Len(s))) = SubSeq(s, k + 1 + 1, Len(s))
    BY <2>1, HeadTailOfSubSeq
  <2> QED BY <2>2 DEF From, r
<1>9. SubSeq(b, 1, Len(b) - 1) = l
  <2>1. 1 \in 1 .. Len(s) /\ k + 1 \in 1 .. Len(s) /\ s[k + 1] \in S
    BY <1>1, ElementOfSeq
  <2>2. SubSeq(s, 1, k + 1) = SubSeq(s, 1, k + 1 - 1) \o <<s[k + 1]>>
    BY <2>1, SubSeqRecursiveSecond
  <2>3. k + 1 - 1 = k /\ Len(b) - 1 = k
    BY <1>1, <1>3
  <2>4. b = l \o <<s[k + 1]>>
    BY <2>2, <2>3 DEF b, l, Before
  <2>5. <<s[k + 1]>> \in Seq(S)
    BY <2>1
  <2>6. Before(l \o <<s[k + 1]>>, Len(l)) = l
    BY <1>2, <2>5, Joined
  <2> QED BY <1>2, <2>3, <2>4, <2>6 DEF Before
<1> QED BY <1>2, <1>5, <1>6, <1>7, <1>8, <1>9 DEF t, l, r, b

-----------------------------------------------------------------------------
(* The abstract editor's variables. *)
left == Before(input, cursor)
right == From(input, cursor)

(* A step that leaves the line and the cursor is one of the abstract editor
   that moves the cursor to where it is.                                   *)
LEMMA StaysMoves ==
  ASSUME TypeOK, NEW k \in 0 .. Len(input), cursor' = k, input' = input,
         submitted' = NoLine
  PROVE  Editor!Move
<1>1. left \o right = input /\ Len(input) \in Nat
  BY Parts DEF TypeOK, left, right
<1>2. left' = SubSeq(input, 1, k) /\ right' = SubSeq(input, k + 1, Len(input))
  BY DEF left, right, Before, From
<1> QED BY <1>1, <1>2 DEF Editor!Move, Editor!NoLine, NoLine, left, right, Before, From

(* At first the line is empty. *)
LEMMA InitType == Init => TypeOK
<1> SUFFICES ASSUME Init PROVE TypeOK
  OBVIOUS
<1>1. \A S : << >> \in Seq(S) /\ Len(<< >>) = 0
  BY EmptySeq
<1>2. Len(input) = 0
  BY <1>1 DEF Init
<1> QED BY <1>1, <1>2, LengthAssumption DEF Init, TypeOK, NoLine

(* Every key keeps the cursor within the line and does to the text before
   and after it what the abstract editor does.                             *)
LEMMA StepEdits ==
  ASSUME TypeOK, Next
  PROVE  TypeOK' /\ Editor!Next
<1> USE DEF NoLine, Editor!NoLine
<1>1. /\ input \in Seq(Chars) /\ Len(input) \in Nat /\ Len(input) <= MaxLen
      /\ cursor \in 0 .. Len(input) /\ width \in Widths
      /\ << >> \in Seq(Chars) /\ Len(<< >>) = 0
  BY LenProperties, EmptySeq DEF TypeOK
<1>2. left \o right = input
  BY <1>1, Parts DEF left, right
<1>3. ASSUME NEW k \in 0 .. Len(input), cursor' = k, input' = input, width' \in Widths,
             submitted' = NoLine
      PROVE  TypeOK' /\ Editor!Next
  <2>1. Editor!Move
    BY <1>3, StaysMoves
  <2>2. TypeOK'
    BY <1>1, <1>3 DEF TypeOK
  <2> QED BY <2>1, <2>2 DEF Editor!Next
<1>4. ASSUME NEW c \in Chars, InputWrite(c) PROVE TypeOK' /\ Editor!Next
  <2>1. /\ input' = InsertAt(input, cursor + 1, c) /\ cursor' = cursor + 1
        /\ submitted' = NoLine /\ width' = width /\ Len(input) < MaxLen
    BY <1>4 DEF InputWrite
  <2>2. /\ input' \in Seq(Chars) /\ Len(input') = Len(input) + 1
        /\ left' = Append(left, c) /\ right' = right
    BY <1>1, <2>1, Inserted DEF left, right
  <2>3. TypeOK'
    BY <1>1, <2>1, <2>2, LengthAssumption DEF TypeOK
  <2>4. Editor!Type(c)
    BY <2>1, <2>2 DEF Editor!Type, left, right, Before, From
  <2> QED BY <2>3, <2>4 DEF Editor!Next
<1>5. ASSUME InputRemove PROVE TypeOK' /\ Editor!Next
  <2>1. CASE cursor < Len(input)
    <3>1. /\ input' = RemoveAt(input, cursor + 1) /\ cursor' = cursor
          /\ submitted' = NoLine /\ width' = width
      BY <1>5, <2>1 DEF InputRemove
    <3>2. /\ input' \in Seq(Chars) /\ Len(input') = Len(input) - 1
          /\ left' = left /\ right' = Tail(right) /\ right # << >>
      BY <1>1, <2>1, <3>1, Removed DEF left, right
    <3>3. TypeOK'
      BY <1>1, <2>1, <3>1, <3>2, LengthAssumption DEF TypeOK
    <3>4. Editor!Delete
      BY <3>1, <3>2 DEF Editor!Delete, left, right, Before, From
    <3> QED BY <3>3, <3>4 DEF Editor!Next
  <2>2. CASE ~(cursor < Len(input))
    BY <1>1, <1>3, <1>5, <2>2 DEF InputRemove
  <2> QED BY <2>1, <2>2
<1>6. ASSUME InputRemovePrevious PROVE TypeOK' /\ Editor!Next
  <2>1. CASE cursor > 0
    <3>1. PICK k \in 0 .. Len(input) : k = cursor - 1 /\ k < Len(input) /\ k + 1 = cursor
      BY <1>1, <2>1
    <3>2. /\ input' = RemoveAt(input, k + 1) /\ cursor' = k
          /\ submitted' = NoLine /\ width' = width
      BY <1>6, <2>1, <3>1 DEF InputRemovePrevious, RemovedAt
    <3>3. /\ RemoveAt(input, k + 1) \in Seq(Chars)
          /\ Len(RemoveAt(input, k + 1)) = Len(input) - 1
          /\ Before(RemoveAt(input, k + 1), k) = Before(input, k)
          /\ From(RemoveAt(input, k + 1), k) = From(input, k + 1)
          /\ Before(input, k + 1) # << >>
          /\ SubSeq(Before(input, k + 1), 1, Len(Before(input, k + 1)) - 1)
               = Before(input, k)
      BY <1>1, <3>1, Removed
    <3>4. /\ input' \in Seq(Chars) /\ Len(input') = Len(input) - 1
          /\ left # << >> /\ left' = SubSeq(left, 1, Len(left) - 1) /\ right' = right
      BY <3>1, <3>2, <3>3 DEF left, right
    <3>5. TypeOK'
      BY <1>1, <3>1, <3>2, <3>4, LengthAssumption DEF TypeOK
    <3>6. Editor!Backspace
      BY <3>2, <3>4 DEF Editor!Backspace, left, right, Before, From
    <3> QED BY <3>5, <3>6 DEF Editor!Next
  <2>2. CASE ~(cursor > 0)
    BY <1>1, <1>3, <1>6, <2>2 DEF InputRemovePrevious
  <2> QED BY <2>1, <2>2
<1>7. ASSUME InputMoveCursor PROVE TypeOK' /\ Editor!Next
  <2>1. PICK k \in 0 .. Len(input) : cursor' = k
    BY <1>1, <1>7 DEF InputMoveCursor
  <2> QED BY <1>1, <1>3, <1>7, <2>1 DEF InputMoveCursor
<1>8. ASSUME ClearInputToCursor PROVE TypeOK' /\ Editor!Next
  <2>1. CASE input # << >>
    <3>1. /\ input' = right /\ cursor' = 0 /\ submitted' = NoLine /\ width' = width
      BY <1>8, <2>1 DEF ClearInputToCursor, right, From
    <3>2. /\ right \in Seq(Chars) /\ Len(right) = Len(input) - cursor
      BY <1>1, Parts DEF right
    <3>3. SubSeq(right, 1, 0) = << >> /\ SubSeq(right, 1, Len(right)) = right
      BY <3>2, SubSeqEmpty, SubSeqFull
    <3>4. left' = << >> /\ right' = right
      <4>1. left' = SubSeq(right, 1, 0) /\ right' = SubSeq(right, 1, Len(right))
        <5>1. right' = SubSeq(input', cursor' + 1, Len(input')) /\ left' = SubSeq(input', 1, cursor')
          BY DEF left, right, Before, From
        <5>2. cursor' + 1 = 1
          BY <3>1
        <5> QED BY <3>1, <5>1, <5>2
      <4> QED BY <3>3, <4>1
    <3>5. TypeOK'
      BY <1>1, <3>1, <3>2, LengthAssumption DEF TypeOK
    <3>6. Editor!Clear
      BY <3>1, <3>4 DEF Editor!Clear, left, right, Before, From
    <3> QED BY <3>5, <3>6 DEF Editor!Next
  <2>2. CASE input = << >>
    BY <1>1, <1>3, <1>8, <2>2 DEF ClearInputToCursor
  <2> QED BY <2>1, <2>2
<1>9. ASSUME Enter PROVE TypeOK' /\ Editor!Next
  <2>1. CASE input # << >>
    <3>1. submitted' = input /\ input' = << >> /\ cursor' = 0 /\ width' = width
      BY <1>9, <2>1 DEF Enter, CursorAfterReset
    <3>2. SubSeq(<< >>, 1, 0) = << >>
      BY SubSeqEmpty
    <3>3. left' = << >> /\ right' = << >>
      BY <1>1, <3>1, <3>2 DEF left, right, Before, From
    <3>4. TypeOK'
      BY <1>1, <3>1, LengthAssumption DEF TypeOK
    <3>5. Editor!Submit
      BY <1>2, <2>1, <3>1, <3>3 DEF Editor!Submit, left, right, Before, From
    <3> QED BY <3>4, <3>5 DEF Editor!Next
  <2>2. CASE input = << >>
    BY <1>1, <1>3, <1>9, <2>2 DEF Enter
  <2> QED BY <2>1, <2>2
<1>10. ASSUME Resize PROVE TypeOK' /\ Editor!Next
  BY <1>1, <1>3, <1>10 DEF Resize
<1> QED BY <1>4, <1>5, <1>6, <1>7, <1>8, <1>9, <1>10 DEF Next

(* Nothing changes, here or there. *)
LEMMA StutterEdits ==
  ASSUME TypeOK, UNCHANGED vars
  PROVE  TypeOK' /\ UNCHANGED Editor!vars
BY DEF vars, TypeOK, Editor!vars

(* The text before the cursor and the text after it are empty at first. *)
LEMMA InitEdits == Init => Editor!Init
<1> SUFFICES ASSUME Init PROVE Editor!Init
  OBVIOUS
<1>1. SubSeq(<< >>, 1, 0) = << >> /\ Len(<< >>) = 0
  BY SubSeqEmpty, EmptySeq
<1> QED BY <1>1 DEF Init, Editor!Init, NoLine, Editor!NoLine

-----------------------------------------------------------------------------
(* What holds at 0, and at a position if it holds at the one before, holds
   up to n: a least position where it did not would have one before it.    *)
LEMMA UpTo ==
  ASSUME NEW n \in Nat, NEW T, 0 \in T,
         \A k \in 0 .. n - 1 : k \in T => k + 1 \in T
  PROVE  \A k \in 0 .. n : k \in T
<1> SUFFICES ASSUME NEW b \in 0 .. n, b \notin T PROVE FALSE
  OBVIOUS
<1> DEFINE R == OpToRel(<, Nat)
           B == {k \in 0 .. n : k \notin T}
<1>1. IsWellFoundedOn(R, Nat)
  BY NatLessThanWellFounded
<1>2. B \in SUBSET Nat /\ B # {}
  OBVIOUS
<1> HIDE DEF R
<1>3. PICK x \in B : \A y \in B : ~(<<y, x>> \in R)
  BY <1>1, <1>2, WFMin
<1>4. x \in 1 .. n /\ x - 1 \in 0 .. n - 1 /\ x - 1 + 1 = x
  <2>1. x \in 0 .. n /\ x # 0
    OBVIOUS
  <2> QED BY <2>1
<1>5. x - 1 \in T
  <2>1. <<x - 1, x>> \in R
    <3>1. x - 1 \in Nat /\ x \in Nat /\ x - 1 < x
      BY <1>4
    <3> QED BY <3>1 DEF R, OpToRel
  <2>2. x - 1 \in 0 .. n
    BY <1>4
  <2> QED BY <1>3, <2>1, <2>2
<1> QED BY <1>4, <1>5

(* The greatest of some positions. *)
LEMMA MaxOf ==
  ASSUME NEW n \in Nat, NEW s \in SUBSET (1 .. n), s # {}
  PROVE  /\ Max(s) \in s /\ \A x \in s : x <= Max(s)
         /\ \A m \in s : (\A x \in s : x <= m) => Max(s) = m
<1> DEFINE T == {k \in 0 .. n : \A u \in SUBSET (1 .. k) :
                   u # {} => \E m \in u : \A x \in u : x <= m}
<1>1. 0 \in T
  <2>1. \A u \in SUBSET (1 .. 0) : u = {}
    OBVIOUS
  <2>2. 0 \in 0 .. n
    OBVIOUS
  <2>3. \A u \in SUBSET (1 .. 0) : u # {} => \E m \in u : \A x \in u : x <= m
    BY <2>1, Zenon
  <2> QED BY <2>2, <2>3, Zenon
<1>2. ASSUME NEW k \in 0 .. n - 1, k \in T PROVE k + 1 \in T
  <2>1. k + 1 \in 0 .. n
    OBVIOUS
  <2>2. ASSUME NEW u \in SUBSET (1 .. k + 1), u # {} PROVE \E m \in u : \A x \in u : x <= m
    <3>1. CASE k + 1 \in u
      <4>1. \A x \in u : x <= k + 1
        OBVIOUS
      <4> QED BY <3>1, <4>1
    <3>2. CASE k + 1 \notin u
      <4>1. u \in SUBSET (1 .. k)
        BY <3>2
      <4> QED BY <1>2, <2>2, <4>1
    <3> QED BY <3>1, <3>2
  <2> QED BY <2>1, <2>2
<1>3. n \in T
  <2> HIDE DEF T
  <2>1. \A k \in 0 .. n : k \in T
    BY <1>1, <1>2, UpTo
  <2> QED BY <2>1
<1>4. PICK m \in s : \A x \in s : x <= m
  BY <1>3
<1>5. Max(s) \in s /\ \A x \in s : Max(s) >= x
  BY <1>4 DEF Max
<1>6. s \subseteq Int /\ Max(s) \in Int
  <2>1. \A x \in s : x \in Int
    OBVIOUS
  <2> HIDE DEF T
  <2> QED BY <1>5, <2>1
<1>7. \A x \in s : x <= Max(s)
  BY <1>5, <1>6
<1>8. ASSUME NEW l \in s, \A x \in s : x <= l PROVE Max(s) = l
  <2>1. Max(s) <= l /\ l <= Max(s) /\ l \in Int
    BY <1>5, <1>6, <1>7, <1>8
  <2> QED BY <1>6, <2>1
<1> QED BY <1>5, <1>7, <1>8

(* The positions before one, and that one. *)
LEMMA MaxUpTo ==
  ASSUME NEW n \in Nat
  PROVE  /\ Max(1 .. n + 1) = n + 1 /\ (1 .. n + 1) \ {n + 1} = 1 .. n
         /\ 1 .. n + 1 # {}
<1>1. /\ n + 1 \in Nat /\ n + 1 \in 1 .. n + 1 /\ \A x \in 1 .. n + 1 : x <= n + 1
      /\ 1 .. n + 1 \in SUBSET (1 .. n + 1)
  OBVIOUS
<1>2. 1 .. n + 1 # {} /\ (1 .. n + 1) \ {n + 1} = 1 .. n
  <2>1. 1 .. n + 1 # {}
    BY <1>1
  <2>2. \A x : x \in (1 .. n + 1) \ {n + 1} <=> x \in 1 .. n
    OBVIOUS
  <2> QED BY <2>1, <2>2
<1>3. Max(1 .. n + 1) = n + 1
  BY <1>1, <1>2, MaxOf, Zenon
<1> QED BY <1>2, <1>3

(* A fold of n elements is a function of the positions folded.  There is
   one, for steps that stay within S,                                      *)
IsFold(g, n, base, step) ==
  \A s \in SUBSET (1 .. n) :
    g[s] = IF s = {} THEN base ELSE step[Max(s)][g[s \ {Max(s)}]]

LEMMA FoldExists ==
  ASSUME NEW S, NEW base \in S, NEW n \in Nat, NEW step \in [1 .. n -> [S -> S]]
  PROVE  \E g \in [SUBSET (1 .. n) -> S] : IsFold(g, n, base, step)
<1> DEFINE Fold(k, g) ==
             \A s \in SUBSET (1 .. k) :
               g[s] = IF s = {} THEN base ELSE step[Max(s)][g[s \ {Max(s)}]]
           T == {k \in 0 .. n : \E g \in [SUBSET (1 .. k) -> S] : Fold(k, g)}
<1>1. 0 \in T
  <2> DEFINE g == [s \in SUBSET (1 .. 0) |-> base]
  <2>1. g \in [SUBSET (1 .. 0) -> S]
    OBVIOUS
  <2>2. \A s \in SUBSET (1 .. 0) : s = {}
    OBVIOUS
  <2>3. Fold(0, g)
    BY <2>2
  <2>4. 0 \in 0 .. n
    OBVIOUS
  <2> HIDE DEF g, Fold
  <2> QED BY <2>1, <2>3, <2>4, Zenon
<1>2. ASSUME NEW k \in 0 .. n - 1, k \in T PROVE k + 1 \in T
  <2>1. k + 1 \in 1 .. n /\ k + 1 \in 0 .. n /\ k \in Nat /\ k + 1 \in Nat
    OBVIOUS
  <2>2. PICK g \in [SUBSET (1 .. k) -> S] : Fold(k, g)
    BY <1>2
  <2> DEFINE h == [s \in SUBSET (1 .. k + 1) |->
                     IF k + 1 \in s THEN step[k + 1][g[s \ {k + 1}]] ELSE g[s]]
  <2>3. \A s \in SUBSET (1 .. k + 1) :
          /\ s \ {k + 1} \in SUBSET (1 .. k)
          /\ k + 1 \notin s => s \in SUBSET (1 .. k)
    BY <2>1
  <2>4. h \in [SUBSET (1 .. k + 1) -> S]
    BY <2>1, <2>3
  <2>5. \A s \in SUBSET (1 .. k) : s \in SUBSET (1 .. k + 1) /\ h[s] = g[s]
    BY <2>1
  <2>6. ASSUME NEW s \in SUBSET (1 .. k + 1)
        PROVE  h[s] = IF s = {} THEN base ELSE step[Max(s)][h[s \ {Max(s)}]]
    <3>1. CASE k + 1 \in s
      <4>1. \A x \in s : x <= k + 1
        BY <2>1
      <4>2. Max(s) = k + 1
        BY <2>1, <3>1, <4>1, MaxOf
      <4>3. h[s \ {k + 1}] = g[s \ {k + 1}]
        BY <2>3, <2>5
      <4>4. h[s] = step[k + 1][g[s \ {k + 1}]]
        BY <3>1
      <4> HIDE DEF h
      <4> QED BY <3>1, <4>2, <4>3, <4>4
    <3>2. CASE k + 1 \notin s
      <4>1. s \in SUBSET (1 .. k)
        BY <2>3, <3>2
      <4>2. h[s] = g[s] /\ g[s] = IF s = {} THEN base ELSE step[Max(s)][g[s \ {Max(s)}]]
        BY <2>2, <2>5, <4>1
      <4>3. h[s \ {Max(s)}] = g[s \ {Max(s)}]
        BY <2>5, <4>1
      <4> HIDE DEF h
      <4> QED BY <4>2, <4>3
    <3> QED BY <3>1, <3>2
  <2>7. Fold(k + 1, h)
    BY <2>6
  <2> HIDE DEF h, Fold
  <2> QED BY <2>1, <2>4, <2>7
<1>3. n \in T
  <2> HIDE DEF T
  <2>1. \A k \in 0 .. n : k \in T
    BY <1>1, <1>2, UpTo
  <2> QED BY <2>1
<1> QED BY <1>3 DEF IsFold

(* and two that start alike and go on alike are the same. *)
LEMMA FoldsAgree ==
  ASSUME NEW n \in Nat, NEW g, NEW h, g[{}] = h[{}],
         \A s \in SUBSET (1 .. n) :
           s # {} /\ g[s \ {Max(s)}] = h[s \ {Max(s)}] => g[s] = h[s]
  PROVE  g[1 .. n] = h[1 .. n]
<1> DEFINE T == {k \in 0 .. n : g[1 .. k] = h[1 .. k]}
<1>1. 0 \in T
  <2>1. 1 .. 0 = {}
    OBVIOUS
  <2> QED BY <2>1
<1>2. ASSUME NEW k \in 0 .. n - 1, k \in T PROVE k + 1 \in T
  <2>1. 1 .. k + 1 \in SUBSET (1 .. n) /\ 1 .. k + 1 # {} /\ k + 1 \in 0 .. n
    OBVIOUS
  <2>2. Max(1 .. k + 1) = k + 1
    <3>1. k + 1 \in 1 .. k + 1 /\ \A x \in 1 .. k + 1 : x <= k + 1
      OBVIOUS
    <3> QED BY <2>1, <3>1, MaxOf
  <2>3. (1 .. k + 1) \ {k + 1} = 1 .. k
    OBVIOUS
  <2> QED BY <1>2, <2>1, <2>2, <2>3
<1>3. n \in T
  <2> HIDE DEF T
  <2>1. \A k \in 0 .. n : k \in T
    BY <1>1, <1>2, UpTo
  <2> QED BY <2>1
<1> QED BY <1>3

-----------------------------------------------------------------------------
(* The scans of split_each and of ui_input_cursor over a text. *)
EmptySplit == [rows |-> << >>, row |-> << >>, used |-> 0]
Splits == [rows : Seq(Seq(Chars)), row : Seq(Chars), used : Nat]
Split(t) == FoldLeft(SplitStep, EmptySplit, t)
Position(t) == FoldLeft(Advance, <<0, 0>>, t)

(* What the scan does with a character. *)
LEMMA SplitStepIs ==
  ASSUME NEW a \in Splits, NEW c \in Chars
  PROVE  /\ SplitStep(a, c) \in Splits
         /\ Breaks(a.used, c) =>
              /\ SplitStep(a, c).rows = Append(a.rows, a.row)
              /\ SplitStep(a, c).row = <<c>>
              /\ SplitStep(a, c).used = CharWidth[c]
         /\ ~Breaks(a.used, c) =>
              /\ SplitStep(a, c).rows = a.rows
              /\ SplitStep(a, c).row = Append(a.row, c)
              /\ SplitStep(a, c).used = a.used + CharWidth[c]
<1>1. /\ a.rows \in Seq(Seq(Chars)) /\ a.row \in Seq(Chars) /\ a.used \in Nat
      /\ CharWidth[c] \in Nat /\ <<c>> \in Seq(Chars)
  BY CharAssumption DEF Splits
<1>2. Append(a.rows, a.row) \in Seq(Seq(Chars)) /\ Append(a.row, c) \in Seq(Chars)
  BY <1>1, AppendProperties
<1>3. CASE Breaks(a.used, c)
  <2>1. SplitStep(a, c) = [rows |-> Append(a.rows, a.row), row |-> <<c>>, used |-> CharWidth[c]]
    BY <1>3 DEF SplitStep
  <2> QED BY <1>1, <1>2, <1>3, <2>1 DEF Splits
<1>4. CASE ~Breaks(a.used, c)
  <2> DEFINE x == Append(a.row, c)
             y == a.used + CharWidth[c]
  <2>1. SplitStep(a, c) = [a EXCEPT !.row = x, !.used = y]
    BY <1>4 DEF SplitStep
  <2>2. x \in Seq(Chars) /\ y \in Nat
    BY <1>1, <1>2
  <2> HIDE DEF x, y
  <2>3. [a EXCEPT !.row = x, !.used = y] \in Splits
    BY <2>2 DEF Splits
  <2>4. /\ [a EXCEPT !.row = x, !.used = y].rows = a.rows
        /\ [a EXCEPT !.row = x, !.used = y].row = x
        /\ [a EXCEPT !.row = x, !.used = y].used = y
    BY DEF Splits
  <2> QED BY <1>4, <2>1, <2>3, <2>4 DEF x, y
<1> QED BY <1>3, <1>4

(* The columns of a text. *)
ColumnsFold(t, g) ==
  [s \in SUBSET (DOMAIN t) |->
     IF s = {} THEN 0 ELSE g[s \ {Max(s)}] + CharWidth[t[Max(s)]]]
ColumnsOf(t) == CHOOSE g : g = ColumnsFold(t, g)

(* A text has a number of columns, folded character by character, *)
LEMMA ColumnsDefined ==
  ASSUME NEW t \in Seq(Chars)
  PROVE  /\ ColumnsOf(t) = ColumnsFold(t, ColumnsOf(t))
         /\ Columns(t) = ColumnsOf(t)[1 .. Len(t)] /\ Columns(t) \in Nat
<1>1. Len(t) \in Nat /\ DOMAIN t = 1 .. Len(t) /\ \A i \in 1 .. Len(t) : t[i] \in Chars
  BY LenProperties, ElementOfSeq
<1>2. 0 \in Nat /\ \A a \in Nat, c \in Chars : a + CharWidth[c] \in Nat
  BY CharAssumption
<1> DEFINE step == [i \in 1 .. Len(t) |-> [a \in Nat |-> a + CharWidth[t[i]]]]
<1>3. step \in [1 .. Len(t) -> [Nat -> Nat]]
  BY <1>1, <1>2
<1>4. PICK g \in [SUBSET (1 .. Len(t)) -> Nat] :
        \A s \in SUBSET (1 .. Len(t)) :
          g[s] = IF s = {} THEN 0 ELSE step[Max(s)][g[s \ {Max(s)}]]
  <2> DEFINE n == Len(t)
  <2> HIDE DEF step, n
  <2>1. n \in Nat /\ 0 \in Nat /\ step \in [1 .. n -> [Nat -> Nat]]
    BY <1>1, <1>2, <1>3 DEF n
  <2>2. \E g \in [SUBSET (1 .. n) -> Nat] : IsFold(g, n, 0, step)
    BY <2>1, FoldExists
  <2> QED BY <2>2 DEF n, IsFold
<1>5. ASSUME NEW s \in SUBSET (1 .. Len(t)), s # {}
      PROVE  g[s] = g[s \ {Max(s)}] + CharWidth[t[Max(s)]]
  <2>1. Max(s) \in 1 .. Len(t) /\ s \ {Max(s)} \in SUBSET (1 .. Len(t))
    BY <1>1, <1>5, MaxOf
  <2>2. g[s \ {Max(s)}] \in Nat
    BY <2>1
  <2>3. step[Max(s)][g[s \ {Max(s)}]] = g[s \ {Max(s)}] + CharWidth[t[Max(s)]]
    BY <2>1, <2>2
  <2> QED BY <1>4, <1>5, <2>3
<1>6. g = ColumnsFold(t, g)
  <2> DEFINE r == [s \in SUBSET (1 .. Len(t)) |->
                     IF s = {} THEN 0 ELSE g[s \ {Max(s)}] + CharWidth[t[Max(s)]]]
  <2>1. \A s \in SUBSET (1 .. Len(t)) : g[s] = r[s]
    BY <1>4, <1>5
  <2>2. g = r
    BY <2>1
  <2> QED BY <1>1, <2>2 DEF ColumnsFold
<1>7. ColumnsOf(t) = ColumnsFold(t, ColumnsOf(t))
  BY <1>6, Zenon DEF ColumnsOf
<1>8. Columns(t) = ColumnsOf(t)[DOMAIN t]
  BY Zenon DEF FoldLeft, MapThenFoldSet, Columns, ColumnsOf, ColumnsFold
<1>9. ColumnsOf(t)[1 .. Len(t)] = g[1 .. Len(t)]
  <2> DEFINE h == ColumnsOf(t)
  <2>1. h[{}] = g[{}]
    BY <1>1, <1>4, <1>7 DEF ColumnsFold
  <2>2. ASSUME NEW s \in SUBSET (1 .. Len(t)), s # {}, h[s \ {Max(s)}] = g[s \ {Max(s)}]
        PROVE  h[s] = g[s]
    BY <1>1, <1>5, <1>7, <2>2 DEF ColumnsFold
  <2>3. \A s \in SUBSET (1 .. Len(t)) :
          s # {} /\ h[s \ {Max(s)}] = g[s \ {Max(s)}] => h[s] = g[s]
    BY <2>2
  <2> HIDE DEF h
  <2>4. h[1 .. Len(t)] = g[1 .. Len(t)]
    BY <1>1, <2>1, <2>3, FoldsAgree, Zenon
  <2> QED BY <2>4 DEF h
<1>10. g[1 .. Len(t)] \in Nat
  OBVIOUS
<1> QED BY <1>1, <1>7, <1>8, <1>9, <1>10

(* none when it is empty, *)
LEMMA ColumnsEmpty ==
  Columns(<< >>) = 0
<1>1. << >> \in Seq(Chars) /\ Len(<< >>) = 0 /\ DOMAIN << >> = {} /\ 1 .. 0 = {}
  BY EmptySeq, LenProperties
<1>2. /\ Columns(<< >>) = ColumnsOf(<< >>)[{}]
      /\ ColumnsOf(<< >>) = ColumnsFold(<< >>, ColumnsOf(<< >>))
  BY <1>1, ColumnsDefined
<1> QED BY <1>1, <1>2 DEF ColumnsFold

(* and those of one character more are as many more. *)
LEMMA ColumnsLaws ==
  ASSUME NEW t \in Seq(Chars), NEW c \in Chars
  PROVE  Columns(Append(t, c)) = Columns(t) + CharWidth[c]
<1> DEFINE u == Append(t, c)
           n == Len(t)
<1>1. /\ n \in Nat /\ DOMAIN t = 1 .. n /\ u \in Seq(Chars) /\ Len(u) = n + 1
      /\ DOMAIN u = 1 .. n + 1 /\ u[n + 1] = c /\ \A i \in 1 .. n : u[i] = t[i]
  BY AppendProperties, LenProperties
<1> HIDE DEF u, n
<1> DEFINE g == ColumnsOf(t)
           h == ColumnsOf(u)
<1>3. /\ g = ColumnsFold(t, g) /\ Columns(t) = g[1 .. n]
      /\ h = ColumnsFold(u, h) /\ Columns(u) = h[1 .. n + 1]
  BY <1>1, ColumnsDefined DEF n
<1> HIDE DEF g, h
<1>4. g[1 .. n] = h[1 .. n]
  <2>1. g[{}] = h[{}]
    BY <1>3 DEF ColumnsFold
  <2>2. ASSUME NEW s \in SUBSET (1 .. n), s # {}, g[s \ {Max(s)}] = h[s \ {Max(s)}]
        PROVE  g[s] = h[s]
    <3>1. Max(s) \in 1 .. n /\ s \in SUBSET (1 .. n + 1)
      <4>1. Max(s) \in s
        BY <1>1, <2>2, MaxOf, Zenon
      <4>2. Max(s) \in 1 .. n
        BY <4>1
      <4>3. 1 .. n \subseteq 1 .. n + 1
        BY <1>1
      <4> QED BY <4>2, <4>3
    <3>2. u[Max(s)] = t[Max(s)]
      BY <1>1, <3>1
    <3>3. g[s] = g[s \ {Max(s)}] + CharWidth[t[Max(s)]]
      BY <1>1, <1>3, <2>2 DEF ColumnsFold
    <3>4. h[s] = h[s \ {Max(s)}] + CharWidth[u[Max(s)]]
      BY <1>1, <1>3, <2>2, <3>1 DEF ColumnsFold
    <3> QED BY <2>2, <3>2, <3>3, <3>4
  <2>3. \A s \in SUBSET (1 .. n) :
          s # {} /\ g[s \ {Max(s)}] = h[s \ {Max(s)}] => g[s] = h[s]
    BY <2>2
  <2> QED BY <1>1, <2>1, <2>3, FoldsAgree, Zenon
<1>5. Max(1 .. n + 1) = n + 1 /\ (1 .. n + 1) \ {n + 1} = 1 .. n /\ 1 .. n + 1 # {}
  BY <1>1, MaxUpTo
<1>6. h[1 .. n + 1] = h[1 .. n] + CharWidth[c]
  <2>1. 1 .. n + 1 \in SUBSET (DOMAIN u)
    BY <1>1
  <2>2. h[1 .. n + 1] = h[(1 .. n + 1) \ {Max(1 .. n + 1)}] + CharWidth[u[Max(1 .. n + 1)]]
    BY <1>3, <1>5, <2>1 DEF ColumnsFold
  <2> QED BY <1>1, <1>5, <2>2
<1> QED BY <1>3, <1>4, <1>6 DEF u

(* The scan of split_each. *)
SplitFold(t, g) ==
  [s \in SUBSET (DOMAIN t) |->
     IF s = {} THEN EmptySplit ELSE SplitStep(g[s \ {Max(s)}], t[Max(s)])]
SplitOf(t) == CHOOSE g : g = SplitFold(t, g)

(* split_each scans a text character by character, *)
LEMMA SplitDefined ==
  ASSUME NEW t \in Seq(Chars)
  PROVE  /\ SplitOf(t) = SplitFold(t, SplitOf(t))
         /\ Split(t) = SplitOf(t)[1 .. Len(t)] /\ Split(t) \in Splits
<1>1. Len(t) \in Nat /\ DOMAIN t = 1 .. Len(t) /\ \A i \in 1 .. Len(t) : t[i] \in Chars
  BY LenProperties, ElementOfSeq
<1>2. EmptySplit \in Splits /\ \A a \in Splits, c \in Chars : SplitStep(a, c) \in Splits
  <2>1. EmptySplit \in Splits
    BY EmptySeq DEF EmptySplit, Splits
  <2> QED BY <2>1, SplitStepIs
<1> DEFINE step == [i \in 1 .. Len(t) |-> [a \in Splits |-> SplitStep(a, t[i])]]
<1>3. step \in [1 .. Len(t) -> [Splits -> Splits]]
  BY <1>1, <1>2
<1>4. PICK g \in [SUBSET (1 .. Len(t)) -> Splits] :
        \A s \in SUBSET (1 .. Len(t)) :
          g[s] = IF s = {} THEN EmptySplit ELSE step[Max(s)][g[s \ {Max(s)}]]
  <2> DEFINE n == Len(t)
  <2> HIDE DEF step, n
  <2>1. n \in Nat /\ EmptySplit \in Splits /\ step \in [1 .. n -> [Splits -> Splits]]
    BY <1>1, <1>2, <1>3 DEF n
  <2>2. \E g \in [SUBSET (1 .. n) -> Splits] : IsFold(g, n, EmptySplit, step)
    BY <2>1, FoldExists
  <2> QED BY <2>2 DEF n, IsFold
<1>5. ASSUME NEW s \in SUBSET (1 .. Len(t)), s # {}
      PROVE  g[s] = SplitStep(g[s \ {Max(s)}], t[Max(s)])
  <2>1. Max(s) \in 1 .. Len(t) /\ s \ {Max(s)} \in SUBSET (1 .. Len(t))
    BY <1>1, <1>5, MaxOf
  <2>2. g[s \ {Max(s)}] \in Splits
    BY <2>1
  <2>3. step[Max(s)][g[s \ {Max(s)}]] = SplitStep(g[s \ {Max(s)}], t[Max(s)])
    BY <2>1, <2>2
  <2> QED BY <1>4, <1>5, <2>3
<1>6. g = SplitFold(t, g)
  <2> DEFINE r == [s \in SUBSET (1 .. Len(t)) |->
                     IF s = {} THEN EmptySplit ELSE SplitStep(g[s \ {Max(s)}], t[Max(s)])]
  <2>1. \A s \in SUBSET (1 .. Len(t)) : g[s] = r[s]
    BY <1>4, <1>5
  <2>2. g = r
    BY <2>1
  <2> QED BY <1>1, <2>2 DEF SplitFold
<1>7. SplitOf(t) = SplitFold(t, SplitOf(t))
  BY <1>6, Zenon DEF SplitOf
<1>8. Split(t) = SplitOf(t)[DOMAIN t]
  BY Zenon DEF FoldLeft, MapThenFoldSet, Split, SplitOf, SplitFold
<1>9. SplitOf(t)[1 .. Len(t)] = g[1 .. Len(t)]
  <2> DEFINE h == SplitOf(t)
  <2>1. h[{}] = g[{}]
    BY <1>1, <1>4, <1>7 DEF SplitFold
  <2>2. ASSUME NEW s \in SUBSET (1 .. Len(t)), s # {}, h[s \ {Max(s)}] = g[s \ {Max(s)}]
        PROVE  h[s] = g[s]
    BY <1>1, <1>5, <1>7, <2>2 DEF SplitFold
  <2>3. \A s \in SUBSET (1 .. Len(t)) :
          s # {} /\ h[s \ {Max(s)}] = g[s \ {Max(s)}] => h[s] = g[s]
    BY <2>2
  <2> HIDE DEF h
  <2>4. h[1 .. Len(t)] = g[1 .. Len(t)]
    BY <1>1, <2>1, <2>3, FoldsAgree, Zenon
  <2> QED BY <2>4 DEF h
<1>10. g[1 .. Len(t)] \in Splits
  OBVIOUS
<1> QED BY <1>1, <1>7, <1>8, <1>9, <1>10

(* from no row at all, *)
LEMMA SplitEmpty ==
  Split(<< >>) = EmptySplit
<1>1. << >> \in Seq(Chars) /\ Len(<< >>) = 0 /\ DOMAIN << >> = {} /\ 1 .. 0 = {}
  BY EmptySeq, LenProperties
<1>2. /\ Split(<< >>) = SplitOf(<< >>)[{}]
      /\ SplitOf(<< >>) = SplitFold(<< >>, SplitOf(<< >>))
  BY <1>1, SplitDefined
<1> QED BY <1>1, <1>2 DEF SplitFold

(* and one character more is one step more of the scan. *)
LEMMA SplitLaws ==
  ASSUME NEW t \in Seq(Chars), NEW c \in Chars
  PROVE  Split(Append(t, c)) = SplitStep(Split(t), c)
<1> DEFINE u == Append(t, c)
           n == Len(t)
<1>1. /\ n \in Nat /\ DOMAIN t = 1 .. n /\ u \in Seq(Chars) /\ Len(u) = n + 1
      /\ DOMAIN u = 1 .. n + 1 /\ u[n + 1] = c /\ \A i \in 1 .. n : u[i] = t[i]
  BY AppendProperties, LenProperties
<1> HIDE DEF u, n
<1> DEFINE g == SplitOf(t)
           h == SplitOf(u)
<1>3. /\ g = SplitFold(t, g) /\ Split(t) = g[1 .. n]
      /\ h = SplitFold(u, h) /\ Split(u) = h[1 .. n + 1]
  BY <1>1, SplitDefined DEF n
<1> HIDE DEF g, h
<1>4. g[1 .. n] = h[1 .. n]
  <2>1. g[{}] = h[{}]
    BY <1>3 DEF SplitFold
  <2>2. ASSUME NEW s \in SUBSET (1 .. n), s # {}, g[s \ {Max(s)}] = h[s \ {Max(s)}]
        PROVE  g[s] = h[s]
    <3>1. Max(s) \in 1 .. n /\ s \in SUBSET (1 .. n + 1)
      <4>1. Max(s) \in s
        BY <1>1, <2>2, MaxOf, Zenon
      <4>2. Max(s) \in 1 .. n
        BY <4>1
      <4>3. 1 .. n \subseteq 1 .. n + 1
        BY <1>1
      <4> QED BY <4>2, <4>3
    <3>2. u[Max(s)] = t[Max(s)]
      BY <1>1, <3>1
    <3>3. g[s] = SplitStep(g[s \ {Max(s)}], t[Max(s)])
      BY <1>1, <1>3, <2>2 DEF SplitFold
    <3>4. h[s] = SplitStep(h[s \ {Max(s)}], u[Max(s)])
      BY <1>1, <1>3, <2>2, <3>1 DEF SplitFold
    <3> QED BY <2>2, <3>2, <3>3, <3>4
  <2>3. \A s \in SUBSET (1 .. n) :
          s # {} /\ g[s \ {Max(s)}] = h[s \ {Max(s)}] => g[s] = h[s]
    BY <2>2
  <2> QED BY <1>1, <2>1, <2>3, FoldsAgree, Zenon
<1>5. Max(1 .. n + 1) = n + 1 /\ (1 .. n + 1) \ {n + 1} = 1 .. n /\ 1 .. n + 1 # {}
  BY <1>1, MaxUpTo
<1>6. h[1 .. n + 1] = SplitStep(h[1 .. n], c)
  <2>1. 1 .. n + 1 \in SUBSET (DOMAIN u)
    BY <1>1
  <2>2. h[1 .. n + 1] = SplitStep(h[(1 .. n + 1) \ {Max(1 .. n + 1)}], u[Max(1 .. n + 1)])
    BY <1>3, <1>5, <2>1 DEF SplitFold
  <2> QED BY <1>1, <1>5, <2>2
<1> QED BY <1>3, <1>4, <1>6 DEF u

(* The scan of ui_input_cursor. *)
PositionFold(t, g) ==
  [s \in SUBSET (DOMAIN t) |->
     IF s = {} THEN <<0, 0>> ELSE Advance(g[s \ {Max(s)}], t[Max(s)])]
PositionOf(t) == CHOOSE g : g = PositionFold(t, g)

(* ui_input_cursor goes over the text before the cursor the same way, *)
LEMMA PositionDefined ==
  ASSUME NEW t \in Seq(Chars), width \in Widths
  PROVE  /\ PositionOf(t) = PositionFold(t, PositionOf(t))
         /\ Position(t) = PositionOf(t)[1 .. Len(t)] /\ Position(t) \in (Int \X Int)
<1>1. Len(t) \in Nat /\ DOMAIN t = 1 .. Len(t) /\ \A i \in 1 .. Len(t) : t[i] \in Chars
  BY LenProperties, ElementOfSeq
<1>2. /\ <<0, 0>> \in (Int \X Int)
      /\ \A a \in (Int \X Int), c \in Chars : Advance(a, c) \in (Int \X Int)
  <2>1. ASSUME NEW a \in Int \X Int, NEW c \in Chars PROVE Advance(a, c) \in Int \X Int
    <3>1. a[1] \in Int /\ a[2] \in Int /\ CharWidth[c] \in Int /\ width \in Int
      BY CharAssumption, WidthAssumption
    <3> QED BY <3>1, SMTT(30) DEF Advance, Wrapped
  <2> QED BY <2>1
<1> DEFINE step == [i \in 1 .. Len(t) |-> [a \in (Int \X Int) |-> Advance(a, t[i])]]
<1>3. step \in [1 .. Len(t) -> [(Int \X Int) -> (Int \X Int)]]
  BY <1>1, <1>2
<1>4. PICK g \in [SUBSET (1 .. Len(t)) -> (Int \X Int)] :
        \A s \in SUBSET (1 .. Len(t)) :
          g[s] = IF s = {} THEN <<0, 0>> ELSE step[Max(s)][g[s \ {Max(s)}]]
  <2> DEFINE n == Len(t)
  <2> HIDE DEF step, n
  <2>1. /\ n \in Nat /\ <<0, 0>> \in (Int \X Int)
        /\ step \in [1 .. n -> [(Int \X Int) -> (Int \X Int)]]
    BY <1>1, <1>2, <1>3 DEF n
  <2>2. \E g \in [SUBSET (1 .. n) -> (Int \X Int)] : IsFold(g, n, <<0, 0>>, step)
    BY <2>1, FoldExists
  <2> QED BY <2>2 DEF n, IsFold
<1>5. ASSUME NEW s \in SUBSET (1 .. Len(t)), s # {}
      PROVE  g[s] = Advance(g[s \ {Max(s)}], t[Max(s)])
  <2>1. Max(s) \in 1 .. Len(t) /\ s \ {Max(s)} \in SUBSET (1 .. Len(t))
    BY <1>1, <1>5, MaxOf
  <2>2. g[s \ {Max(s)}] \in (Int \X Int)
    BY <2>1
  <2>3. step[Max(s)][g[s \ {Max(s)}]] = Advance(g[s \ {Max(s)}], t[Max(s)])
    BY <2>1, <2>2
  <2> QED BY <1>4, <1>5, <2>3
<1>6. g = PositionFold(t, g)
  <2> DEFINE r == [s \in SUBSET (1 .. Len(t)) |->
                     IF s = {} THEN <<0, 0>> ELSE Advance(g[s \ {Max(s)}], t[Max(s)])]
  <2>1. \A s \in SUBSET (1 .. Len(t)) : g[s] = r[s]
    BY <1>4, <1>5
  <2>2. g = r
    BY <2>1
  <2> QED BY <1>1, <2>2 DEF PositionFold
<1>7. PositionOf(t) = PositionFold(t, PositionOf(t))
  BY <1>6, Zenon DEF PositionOf
<1>8. Position(t) = PositionOf(t)[DOMAIN t]
  BY Zenon DEF FoldLeft, MapThenFoldSet, Position, PositionOf, PositionFold
<1>9. PositionOf(t)[1 .. Len(t)] = g[1 .. Len(t)]
  <2> DEFINE h == PositionOf(t)
  <2>1. h[{}] = g[{}]
    BY <1>1, <1>4, <1>7 DEF PositionFold
  <2>2. ASSUME NEW s \in SUBSET (1 .. Len(t)), s # {}, h[s \ {Max(s)}] = g[s \ {Max(s)}]
        PROVE  h[s] = g[s]
    BY <1>1, <1>5, <1>7, <2>2 DEF PositionFold
  <2>3. \A s \in SUBSET (1 .. Len(t)) :
          s # {} /\ h[s \ {Max(s)}] = g[s \ {Max(s)}] => h[s] = g[s]
    BY <2>2
  <2> HIDE DEF h
  <2>4. h[1 .. Len(t)] = g[1 .. Len(t)]
    BY <1>1, <2>1, <2>3, FoldsAgree, Zenon
  <2> QED BY <2>4 DEF h
<1>10. g[1 .. Len(t)] \in (Int \X Int)
  OBVIOUS
<1> QED BY <1>1, <1>7, <1>8, <1>9, <1>10

(* from the first cell, *)
LEMMA PositionEmpty ==
  ASSUME width \in Widths
  PROVE  Position(<< >>) = <<0, 0>>
<1>1. << >> \in Seq(Chars) /\ Len(<< >>) = 0 /\ DOMAIN << >> = {} /\ 1 .. 0 = {}
  BY EmptySeq, LenProperties
<1>2. /\ Position(<< >>) = PositionOf(<< >>)[{}]
      /\ PositionOf(<< >>) = PositionFold(<< >>, PositionOf(<< >>))
  BY <1>1, PositionDefined
<1> QED BY <1>1, <1>2 DEF PositionFold

(* and one character more advances it once more. *)
LEMMA PositionLaws ==
  ASSUME NEW t \in Seq(Chars), NEW c \in Chars, width \in Widths
  PROVE  Position(Append(t, c)) = Advance(Position(t), c)
<1> DEFINE u == Append(t, c)
           n == Len(t)
<1>1. /\ n \in Nat /\ DOMAIN t = 1 .. n /\ u \in Seq(Chars) /\ Len(u) = n + 1
      /\ DOMAIN u = 1 .. n + 1 /\ u[n + 1] = c /\ \A i \in 1 .. n : u[i] = t[i]
  BY AppendProperties, LenProperties
<1> HIDE DEF u, n
<1> DEFINE g == PositionOf(t)
           h == PositionOf(u)
<1>3. /\ g = PositionFold(t, g) /\ Position(t) = g[1 .. n]
      /\ h = PositionFold(u, h) /\ Position(u) = h[1 .. n + 1]
  BY <1>1, PositionDefined DEF n
<1> HIDE DEF g, h
<1>4. g[1 .. n] = h[1 .. n]
  <2>1. g[{}] = h[{}]
    BY <1>3 DEF PositionFold
  <2>2. ASSUME NEW s \in SUBSET (1 .. n), s # {}, g[s \ {Max(s)}] = h[s \ {Max(s)}]
        PROVE  g[s] = h[s]
    <3>1. Max(s) \in 1 .. n /\ s \in SUBSET (1 .. n + 1)
      <4>1. Max(s) \in s
        BY <1>1, <2>2, MaxOf, Zenon
      <4>2. Max(s) \in 1 .. n
        BY <4>1
      <4>3. 1 .. n \subseteq 1 .. n + 1
        BY <1>1
      <4> QED BY <4>2, <4>3
    <3>2. u[Max(s)] = t[Max(s)]
      BY <1>1, <3>1
    <3>3. g[s] = Advance(g[s \ {Max(s)}], t[Max(s)])
      BY <1>1, <1>3, <2>2 DEF PositionFold
    <3>4. h[s] = Advance(h[s \ {Max(s)}], u[Max(s)])
      BY <1>1, <1>3, <2>2, <3>1 DEF PositionFold
    <3> QED BY <2>2, <3>2, <3>3, <3>4
  <2>3. \A s \in SUBSET (1 .. n) :
          s # {} /\ g[s \ {Max(s)}] = h[s \ {Max(s)}] => g[s] = h[s]
    BY <2>2
  <2> QED BY <1>1, <2>1, <2>3, FoldsAgree, Zenon
<1>5. Max(1 .. n + 1) = n + 1 /\ (1 .. n + 1) \ {n + 1} = 1 .. n /\ 1 .. n + 1 # {}
  BY <1>1, MaxUpTo
<1>6. h[1 .. n + 1] = Advance(h[1 .. n], c)
  <2>1. 1 .. n + 1 \in SUBSET (DOMAIN u)
    BY <1>1
  <2>2. h[1 .. n + 1] = Advance(h[(1 .. n + 1) \ {Max(1 .. n + 1)}], u[Max(1 .. n + 1)])
    BY <1>3, <1>5, <2>1 DEF PositionFold
  <2> QED BY <1>1, <1>5, <2>2
<1> QED BY <1>3, <1>4, <1>6 DEF u

-----------------------------------------------------------------------------
(* Some sequences put together. *)
FlattenFold(rs, f) ==
  [i \in 1 .. Len(rs) |-> IF i = 1 THEN rs[i] ELSE f[i - 1] \o rs[i]]
FlattenOf(rs) == CHOOSE f : f = FlattenFold(rs, f)

(* Sequences are put together one after the other. *)
LEMMA FlattenDefined ==
  ASSUME NEW S, NEW rs \in Seq(Seq(S))
  PROVE  /\ FlattenOf(rs) = FlattenFold(rs, FlattenOf(rs))
         /\ \A k \in 1 .. Len(rs) : FlattenOf(rs)[k] \in Seq(S)
<1> DEFINE n == Len(rs)
<1>1. n \in Nat /\ \A i \in 1 .. n : rs[i] \in Seq(S)
  BY LenProperties, ElementOfSeq
<1> HIDE DEF n
<1> DEFINE step == [i \in 1 .. n |-> [a \in Seq(S) |-> IF i = 1 THEN rs[i] ELSE a \o rs[i]]]
           base == << >>
<1>2. base \in Seq(S) /\ step \in [1 .. n -> [Seq(S) -> Seq(S)]]
  <2>1. \A i \in 1 .. n, a \in Seq(S) : (IF i = 1 THEN rs[i] ELSE a \o rs[i]) \in Seq(S)
    BY <1>1, ConcatProperties
  <2> QED BY <2>1, EmptySeq
<1>3. PICK g \in [SUBSET (1 .. n) -> Seq(S)] : IsFold(g, n, base, step)
  <2> HIDE DEF step, base
  <2> QED BY <1>1, <1>2, FoldExists
<1> DEFINE f == [i \in 1 .. n |-> g[1 .. i]]
<1>4. ASSUME NEW i \in 1 .. n
      PROVE  f[i] = IF i = 1 THEN rs[i] ELSE f[i - 1] \o rs[i]
  <2>1. PICK j \in 0 .. n - 1 : i = j + 1
    <3>1. i - 1 \in 0 .. n - 1 /\ i = (i - 1) + 1
      BY <1>1
    <3> QED BY <3>1
  <2>2. Max(1 .. i) = i /\ (1 .. i) \ {i} = 1 .. j /\ 1 .. i # {}
    <3>1. j \in Nat
      BY <1>1
    <3>2. Max(1 .. j + 1) = j + 1 /\ (1 .. j + 1) \ {j + 1} = 1 .. j /\ 1 .. j + 1 # {}
      BY <3>1, MaxUpTo
    <3> QED BY <2>1, <3>2, Zenon
  <2>3. 1 .. i \in SUBSET (1 .. n) /\ 1 .. j \in SUBSET (1 .. n)
    BY <1>1, <2>1
  <2>4. g[1 .. i] = step[i][g[1 .. j]]
    <3> HIDE DEF step
    <3> QED BY <1>3, <2>2, <2>3 DEF IsFold
  <2>5. g[1 .. j] \in Seq(S)
    BY <2>3
  <2>6. g[1 .. i] = IF i = 1 THEN rs[i] ELSE g[1 .. j] \o rs[i]
    BY <2>4, <2>5
  <2>7. f[i] = g[1 .. i]
    OBVIOUS
  <2>8. i # 1 => i - 1 \in 1 .. n /\ i - 1 = j
    BY <1>1, <2>1
  <2>9. i # 1 => f[i - 1] = g[1 .. j]
    BY <2>8
  <2> HIDE DEF f, step
  <2> QED BY <2>6, <2>7, <2>9
<1>5. f = FlattenFold(rs, f)
  <2> DEFINE r == [i \in 1 .. n |-> IF i = 1 THEN rs[i] ELSE f[i - 1] \o rs[i]]
  <2>1. f = r
    <3>1. \A i \in 1 .. n : f[i] = r[i]
      BY <1>4
    <3> QED BY <3>1
  <2> QED BY <2>1 DEF FlattenFold, n
<1>6. FlattenOf(rs) = FlattenFold(rs, FlattenOf(rs))
  BY <1>5, Zenon DEF FlattenOf
<1> DEFINE h == FlattenOf(rs)
<1>7. \A i \in 1 .. n : h[i] = IF i = 1 THEN rs[i] ELSE h[i - 1] \o rs[i]
  BY <1>6 DEF FlattenFold, n
<1> HIDE DEF h, f, step, base
<1> DEFINE T == {k \in 0 .. n : k = 0 \/ h[k] \in Seq(S)}
<1>8. 0 \in T
  BY <1>1
<1>9. ASSUME NEW k \in 0 .. n - 1, k \in T PROVE k + 1 \in T
  <2>1. k + 1 \in 1 .. n /\ k + 1 - 1 = k /\ k + 1 \in 0 .. n
    BY <1>1
  <2>2. CASE k = 0
    <3>1. h[k + 1] = rs[k + 1]
      BY <1>7, <2>1, <2>2
    <3> QED BY <1>1, <2>1, <3>1
  <2>3. CASE k # 0
    <3>1. h[k + 1] = h[k] \o rs[k + 1] /\ rs[k + 1] \in Seq(S)
      <4>1. k + 1 # 1
        BY <1>1, <2>3
      <4> DEFINE m == k + 1
      <4>2. m \in 1 .. n /\ m # 1 /\ m - 1 = k
        BY <2>1, <4>1
      <4> HIDE DEF m
      <4>3. h[m] = h[m - 1] \o rs[m] /\ rs[m] \in Seq(S)
        BY <1>1, <1>7, <4>2
      <4> QED BY <4>2, <4>3 DEF m
    <3>3. h[k] \in Seq(S)
      BY <1>9, <2>3
    <3>2. h[k + 1] \in Seq(S)
      BY <3>1, <3>3, ConcatProperties
    <3> QED BY <2>1, <3>2
  <2> QED BY <2>2, <2>3
<1>10. \A k \in 0 .. n : k \in T
  <2> HIDE DEF T
  <2> QED BY <1>1, <1>8, <1>9, UpTo
<1>11. \A k \in 1 .. n : h[k] \in Seq(S)
  <2> SUFFICES ASSUME NEW k \in 1 .. n PROVE h[k] \in Seq(S)
    OBVIOUS
  <2>1. k \in 0 .. n /\ k # 0
    OBVIOUS
  <2> QED BY <1>10, <2>1
<1> QED BY <1>6, <1>11 DEF h, n

(* Appending one puts it at the end. *)
LEMMA FlattenLaws ==
  ASSUME NEW S, NEW rs \in Seq(Seq(S)), NEW r \in Seq(S)
  PROVE  /\ FlattenSeq(<< >>) = << >> /\ FlattenSeq(rs) \in Seq(S)
         /\ FlattenSeq(Append(rs, r)) = FlattenSeq(rs) \o r
<1> DEFINE n == Len(rs)
           us == Append(rs, r)
           f == FlattenOf(rs)
           h == FlattenOf(us)
<1>1. /\ n \in Nat /\ \A i \in 1 .. n : rs[i] \in Seq(S) /\ us[i] = rs[i]
      /\ us \in Seq(Seq(S)) /\ Len(us) = n + 1 /\ us[n + 1] = r
  BY LenProperties, ElementOfSeq, AppendProperties
<1>2. \A ts : FlattenSeq(ts) = IF Len(ts) = 0 THEN ts ELSE FlattenOf(ts)[Len(ts)]
  BY Zenon DEF FlattenSeq, FlattenOf, FlattenFold
<1>3. \A i \in 1 .. n : f[i] = IF i = 1 THEN rs[i] ELSE f[i - 1] \o rs[i]
  <2>1. f = FlattenFold(rs, f)
    BY FlattenDefined DEF f
  <2> HIDE DEF f
  <2> QED BY <2>1 DEF FlattenFold, n
<1>4. \A i \in 1 .. n + 1 : h[i] = IF i = 1 THEN us[i] ELSE h[i - 1] \o us[i]
  <2> HIDE DEF us, n
  <2> QED BY <1>1, FlattenDefined, ZenonT(60) DEF FlattenFold
<1>5. n # 0 => f[n] \in Seq(S)
  BY <1>1, FlattenDefined
<1>6. FlattenSeq(<< >>) = << >>
  BY <1>2, EmptySeq
<1>7. FlattenSeq(rs) = IF n = 0 THEN << >> ELSE f[n]
  <2>1. n = 0 => rs = << >>
    BY EmptySeq
  <2> QED BY <1>2, <2>1
<1>8. FlattenSeq(us) = h[n + 1]
  <2> HIDE DEF us, n
  <2> QED BY <1>1, <1>2 DEF h
<1> HIDE DEF n, us, f, h
<1> DEFINE T == {k \in 0 .. n : k = 0 \/ h[k] = f[k]}
<1>9. 0 \in T
  BY <1>1
<1>10. ASSUME NEW k \in 0 .. n - 1, k \in T PROVE k + 1 \in T
  <2>1. k + 1 \in 1 .. n /\ k + 1 - 1 = k /\ k + 1 \in 0 .. n /\ k + 1 \in 1 .. n + 1
    BY <1>1
  <2>2. us[k + 1] = rs[k + 1] /\ (k = 0 \/ h[k] = f[k])
    BY <1>1, <1>10, <2>1
  <2>3. h[k + 1] = f[k + 1]
    BY <1>3, <1>4, <2>1, <2>2
  <2> QED BY <2>1, <2>3
<1>11. n # 0 => h[n] = f[n]
  <2>1. \A k \in 0 .. n : k \in T
    <3> HIDE DEF T
    <3> QED BY <1>1, <1>9, <1>10, UpTo
  <2>2. n \in 0 .. n
    BY <1>1
  <2> QED BY <2>1, <2>2
<1>12. h[n + 1] = IF n = 0 THEN r ELSE f[n] \o r
  <2>1. n + 1 \in 1 .. n + 1 /\ n + 1 - 1 = n /\ (n + 1 = 1 <=> n = 0)
    BY <1>1
  <2> QED BY <1>1, <1>4, <1>11, <2>1
<1>13. << >> \o r = r /\ << >> \in Seq(S)
  BY ConcatEmptySeq, EmptySeq
<1> QED BY <1>5, <1>6, <1>7, <1>8, <1>12, <1>13 DEF us

-----------------------------------------------------------------------------
(* One character more. *)
LEMMA OneMore ==
  ASSUME NEW S, NEW s \in Seq(S), NEW k \in 0 .. Len(s) - 1
  PROVE  /\ Before(s, k) \in Seq(S) /\ k + 1 \in 1 .. Len(s) /\ s[k + 1] \in S
         /\ Before(s, k + 1) = Append(Before(s, k), s[k + 1])
<1>1. /\ Len(s) \in Nat /\ k + 1 \in 1 .. Len(s) /\ 1 \in 1 .. Len(s) /\ k \in Int
      /\ \A i \in 1 .. Len(s) : s[i] \in S
  BY LenProperties, ElementOfSeq
<1>2. SubSeq(s, 1, k) \in Seq(S)
  <2>1. \A i \in 1 .. k : s[i] \in S
    BY <1>1
  <2> QED BY <1>1, <2>1, SubSeqProperties
<1>3. SubSeq(s, 1, k + 1) = SubSeq(s, 1, k + 1 - 1) \o <<s[k + 1]>>
  <2>1. k + 1 \in 1 .. Len(s)
    BY <1>1
  <2> QED BY <1>1, <2>1, SubSeqRecursiveSecond
<1>4. k + 1 - 1 = k
  BY <1>1
<1>5. Append(SubSeq(s, 1, k), s[k + 1]) = SubSeq(s, 1, k) \o <<s[k + 1]>>
  BY <1>1, <1>2, AppendIsConcat
<1> QED BY <1>1, <1>2, <1>3, <1>4, <1>5 DEF Before

(* What holds of the empty text, and of a longer one if it holds of it
   without its last character, holds of every text.                        *)
LEMMA ByCharacter ==
  ASSUME NEW S, NEW T, << >> \in T,
         \A t \in Seq(S), c \in S : t \in T => Append(t, c) \in T
  PROVE  \A s \in Seq(S) : s \in T
<1> SUFFICES ASSUME NEW s \in Seq(S) PROVE s \in T
  OBVIOUS
<1> DEFINE K == {k \in 0 .. Len(s) : Before(s, k) \in T}
<1>1. Len(s) \in Nat
  BY LenProperties
<1>2. 0 \in K
  <2>1. Before(s, 0) = << >>
    BY SubSeqEmpty DEF Before
  <2>2. 0 \in 0 .. Len(s)
    BY <1>1
  <2> QED BY <2>1, <2>2
<1>3. ASSUME NEW k \in 0 .. Len(s) - 1, k \in K PROVE k + 1 \in K
  <2>1. /\ Before(s, k) \in Seq(S) /\ s[k + 1] \in S
        /\ Before(s, k + 1) = Append(Before(s, k), s[k + 1])
    BY OneMore
  <2>2. k + 1 \in 0 .. Len(s)
    BY <1>1
  <2> QED BY <1>3, <2>1, <2>2
<1>4. Len(s) \in K
  <2> HIDE DEF K
  <2>1. \A k \in 0 .. Len(s) : k \in K
    BY <1>1, <1>2, <1>3, UpTo
  <2> QED BY <1>1, <2>1
<1>5. Before(s, Len(s)) = s
  BY SubSeqFull DEF Before
<1> QED BY <1>4, <1>5

-----------------------------------------------------------------------------
(* A row that the next character does not fit in. *)
Full(row, c) == Columns(row) = width \/ Columns(row) + CharWidth[c] > width

(* What has been scanned is in the rows, each as full as it could be, and the
   cursor after it is behind the last character, or on the next row.       *)
Kept(t, p) == FlattenSeq(p.rows) \o p.row = t
Counted(p) == p.used = Columns(p.row) /\ p.used <= width
Begun(t, p) == IF t = << >> THEN p = EmptySplit ELSE p.row # << >>
Fits(p) ==
  \A r \in 1 .. Len(p.rows) : p.rows[r] # << >> /\ Columns(p.rows[r]) <= width
Greedy(p) ==
  /\ \A r \in 1 .. Len(p.rows) - 1 : Full(p.rows[r], p.rows[r + 1][1])
  /\ Len(p.rows) > 0 => Full(p.rows[Len(p.rows)], p.row[1])
Placed(p, at) ==
  at = IF p.used = width THEN <<0, Len(p.rows) + 1>> ELSE <<p.used, Len(p.rows)>>
Scanned(t, p, at) ==
  Kept(t, p) /\ Counted(p) /\ Begun(t, p) /\ Fits(p) /\ Greedy(p) /\ Placed(p, at)

(* The next character is scanned so if those before it were, *)
LEMMA ScannedStep ==
  ASSUME width \in Widths, NEW t \in Seq(Chars), NEW c \in Chars,
         NEW p \in Splits, NEW at, Scanned(t, p, at)
  PROVE  Scanned(Append(t, c), SplitStep(p, c), Advance(at, c))
<1> DEFINE u == Append(t, c)
           n == Len(p.rows)
<1>1. /\ width \in Nat /\ width >= 3 /\ CharWidth[c] \in 0 .. 2
      /\ u \in Seq(Chars) /\ u # << >> /\ u = t \o <<c>>
  BY CharAssumption, WidthAssumption, AppendProperties, AppendIsConcat
<1> HIDE DEF u
<1>2. PICK q \in Splits : q = SplitStep(p, c)
  BY SplitStepIs
<1>3. /\ p.rows \in Seq(Seq(Chars)) /\ p.row \in Seq(Chars) /\ p.used \in Nat
      /\ q.rows \in Seq(Seq(Chars)) /\ q.row \in Seq(Chars) /\ q.used \in Nat
      /\ n \in Nat
  <2>1. /\ p.rows \in Seq(Seq(Chars)) /\ p.row \in Seq(Chars) /\ p.used \in Nat
        /\ q.rows \in Seq(Seq(Chars)) /\ q.row \in Seq(Chars) /\ q.used \in Nat
    BY DEF Splits
  <2> QED BY <2>1, LenProperties
<1>4. /\ FlattenSeq(p.rows) \o p.row = t
      /\ p.used = Columns(p.row) /\ p.used <= width
      /\ t = << >> => p.used = 0 /\ n = 0
      /\ t # << >> => p.row # << >>
      /\ \A r \in 1 .. n : p.rows[r] # << >> /\ Columns(p.rows[r]) <= width
      /\ \A r \in 1 .. n - 1 : Full(p.rows[r], p.rows[r + 1][1])
      /\ n > 0 => Full(p.rows[n], p.row[1])
      /\ at = IF p.used = width THEN <<0, n + 1>> ELSE <<p.used, n>>
  <2>1. EmptySplit.used = 0 /\ Len(EmptySplit.rows) = 0
    BY EmptySeq DEF EmptySplit
  <2> QED BY <2>1 DEF Scanned, Kept, Counted, Begun, Fits, Greedy, Placed
<1>5. FlattenSeq(p.rows) \in Seq(Chars)
  BY <1>3, FlattenLaws
<1>6. <<c>> \in Seq(Chars) /\ <<c>> # << >> /\ <<c>>[1] = c /\ Columns(<<c>>) = CharWidth[c]
  <2>1. << >> \in Seq(Chars)
    BY EmptySeq
  <2>2. Columns(Append(<< >>, c)) = 0 + CharWidth[c]
    BY <2>1, ColumnsLaws, ColumnsEmpty
  <2>3. <<c>> = Append(<< >>, c)
    OBVIOUS
  <2> QED BY <1>1, <2>2, <2>3
<1> DEFINE w == CharWidth[c]
<1>7. /\ Breaks(p.used, c) =>
           q.rows = Append(p.rows, p.row) /\ q.row = <<c>> /\ q.used = w
      /\ ~Breaks(p.used, c) =>
           q.rows = p.rows /\ q.row = Append(p.row, c) /\ q.used = p.used + w
      /\ Breaks(p.used, c) <=> (p.used # 0 /\ p.used = width) \/ p.used + w > width
  BY <1>2, SplitStepIs DEF Breaks
<1>8. /\ at[1] + w = width => Advance(at, c) = <<0, at[2] + 1>>
      /\ at[1] + w # width /\ at[1] + w > width =>
           Advance(at, c) = <<(at[1] + w) - (width - (w - 1)), at[2] + 1>>
      /\ at[1] + w # width /\ ~(at[1] + w > width) => Advance(at, c) = <<at[1] + w, at[2]>>
      /\ at[1] = IF p.used = width THEN 0 ELSE p.used
      /\ at[2] = IF p.used = width THEN n + 1 ELSE n
  <2>1. /\ at[1] = IF p.used = width THEN 0 ELSE p.used
        /\ at[2] = IF p.used = width THEN n + 1 ELSE n
    BY <1>4
  <2>2. ASSUME at[1] + w = width PROVE Advance(at, c) = <<0, at[2] + 1>>
    BY <2>2 DEF Advance
  <2>3. ASSUME at[1] + w # width, at[1] + w > width
        PROVE  Advance(at, c) = <<(at[1] + w) - (width - (w - 1)), at[2] + 1>>
    <3>1. Advance(at, c) = <<Wrapped(at[1] + w, w), at[2] + 1>>
      BY <2>3 DEF Advance
    <3>2. Wrapped(at[1] + w, w) = (at[1] + w) - (width - (w - 1))
      BY DEF Wrapped
    <3> QED BY <3>1, <3>2
  <2>4. ASSUME at[1] + w # width, ~(at[1] + w > width)
        PROVE  Advance(at, c) = <<at[1] + w, at[2]>>
    BY <2>4 DEF Advance
  <2> HIDE DEF w, n
  <2> QED BY <2>1, <2>2, <2>3, <2>4
<1> HIDE DEF w, n
<1>9. CASE Breaks(p.used, c)
  <2>1. q.rows = Append(p.rows, p.row) /\ q.row = <<c>> /\ q.used = w
    BY <1>7, <1>9
  <2>2. t # << >>
    BY <1>1, <1>4, <1>7, <1>9 DEF w
  <2>3. /\ Len(q.rows) = n + 1 /\ q.rows[n + 1] = p.row
        /\ \A r \in 1 .. n : q.rows[r] = p.rows[r]
    BY <1>3, <2>1, AppendProperties DEF n
  <2>4. FlattenSeq(q.rows) = t
    BY <1>3, <1>4, <2>1, FlattenLaws
  <2>5. Full(p.row, c)
    BY <1>3, <1>4, <1>7, <1>9 DEF Full, w
  <2>6. Kept(u, q) /\ Counted(q) /\ Begun(u, q)
    BY <1>1, <1>6, <2>1, <2>4 DEF Kept, Counted, Begun, w
  <2>7. Fits(q)
    <3>1. \A r \in 1 .. n + 1 : r \in 1 .. n \/ r = n + 1
      BY <1>3
    <3>2. p.row # << >> /\ Columns(p.row) <= width
      BY <1>4, <2>2
    <3>3. \A r \in 1 .. n + 1 : q.rows[r] # << >> /\ Columns(q.rows[r]) <= width
      BY <1>4, <2>3, <3>1, <3>2
    <3> QED BY <2>3, <3>3 DEF Fits
  <2>8. Greedy(q)
    <3>1. ASSUME NEW r \in 1 .. n PROVE Full(q.rows[r], q.rows[r + 1][1])
      <4>1. CASE r = n
        <5>1. n > 0 /\ q.rows[r] = p.rows[n] /\ q.rows[r + 1] = p.row
          BY <1>3, <2>3, <4>1
        <5> QED BY <1>4, <5>1
      <4>2. CASE r # n
        <5>1. r + 1 \in 1 .. n /\ r \in 1 .. n - 1
          BY <1>3, <4>2
        <5>2. q.rows[r] = p.rows[r] /\ q.rows[r + 1] = p.rows[r + 1]
          BY <2>3, <5>1
        <5> QED BY <1>4, <5>1, <5>2
      <4> QED BY <4>1, <4>2
    <3>2. Full(q.rows[n + 1], q.row[1])
      BY <1>6, <2>1, <2>3, <2>5
    <3>3. n + 1 - 1 = n
      BY <1>3
    <3>4. Len(q.rows) - 1 = n
      BY <1>3, <2>3
    <3> QED BY <2>3, <3>1, <3>2, <3>4 DEF Greedy
  <2>9. Placed(q, Advance(at, c))
    <3>1. w # width /\ w < width /\ w \in 0 .. 2
      BY <1>1 DEF w
    <3>2. Advance(at, c) = <<w, n + 1>>
      <4>1. CASE p.used = width
        <5>1. at[1] = 0 /\ at[2] = n + 1
          BY <1>8, <4>1
        <5>2. at[1] + w = w
          BY <3>1, <5>1
        <5>3. ~(w > width)
          BY <1>1, <3>1
        <5> QED BY <1>8, <3>1, <5>1, <5>2, <5>3
      <4>2. CASE p.used # width
        <5>1. p.used = width - 1 /\ w = 2
          <6>1. p.used + w > width /\ p.used <= width
            BY <1>4, <1>7, <1>9, <4>2
          <6>2. width \in Nat /\ p.used \in Nat
            BY <1>1, <1>3
          <6> QED BY <3>1, <4>2, <6>1, <6>2
        <5>2. at[1] = width - 1 /\ at[2] = n
          BY <1>8, <4>2, <5>1
        <5>3. /\ at[1] + w # width /\ at[1] + w > width
              /\ (at[1] + w) - (width - (w - 1)) = w
          BY <1>1, <5>1, <5>2
        <5> QED BY <1>8, <5>2, <5>3
      <4> QED BY <4>1, <4>2
    <3> QED BY <2>1, <2>3, <3>1, <3>2 DEF Placed
  <2> QED BY <1>2, <2>6, <2>7, <2>8, <2>9 DEF Scanned, u
<1>10. CASE ~Breaks(p.used, c)
  <2>1. q.rows = p.rows /\ q.row = Append(p.row, c) /\ q.used = p.used + w
    BY <1>7, <1>10
  <2>2. q.row # << >> /\ q.row = p.row \o <<c>> /\ Columns(q.row) = p.used + w
    <3>1. Columns(Append(p.row, c)) = Columns(p.row) + w
      BY <1>3, ColumnsLaws DEF w
    <3>2. Append(p.row, c) # << >> /\ Append(p.row, c) = p.row \o <<c>>
      BY <1>3, AppendProperties, AppendIsConcat, ZenonT(60)
    <3> QED BY <1>4, <2>1, <3>1, <3>2
  <2>3. p.row # << >> => q.row[1] = p.row[1]
    <3>1. ASSUME p.row # << >> PROVE 1 \in 1 .. Len(p.row)
      BY <1>3, <3>1, EmptySeq
    <3> QED BY <1>3, <2>1, <3>1, AppendProperties
  <2>4. p.used + w <= width /\ p.used # width
    <3>1. w \in Nat
      BY <1>1 DEF w
    <3> QED BY <1>1, <1>3, <1>7, <1>10, <3>1
  <2>5. Kept(u, q)
    <3>1. (FlattenSeq(p.rows) \o p.row) \o <<c>> = FlattenSeq(p.rows) \o (p.row \o <<c>>)
      <4>1. p.row \in Seq(Chars) /\ <<c>> \in Seq(Chars)
        BY <1>3, <1>6
      <4>2. \A x, y, z \in Seq(Chars) : (x \o y) \o z = x \o (y \o z)
        BY ConcatAssociative, SMTT(30)
      <4> QED BY <1>5, <4>1, <4>2
    <3> QED BY <1>1, <1>4, <2>1, <2>2, <3>1 DEF Kept
  <2>6. Counted(q) /\ Begun(u, q) /\ Fits(q)
    BY <1>1, <1>4, <2>1, <2>2, <2>4 DEF Counted, Begun, Fits, n
  <2>7. Greedy(q)
    <3>1. n > 0 => p.row # << >>
      BY <1>4
    <3> QED BY <1>4, <2>1, <2>3, <3>1 DEF Greedy, n
  <2>8. Placed(q, Advance(at, c))
    <3>1. at[1] = p.used /\ at[2] = n
      BY <1>8, <2>4
    <3>2. ~(p.used + w > width)
      BY <1>1, <1>3, <2>4 DEF w
    <3> QED BY <1>8, <2>1, <3>1, <3>2 DEF Placed, n
  <2> QED BY <1>2, <2>5, <2>6, <2>7, <2>8 DEF Scanned, u
<1> QED BY <1>9, <1>10

(* so every text is. *)
LEMMA AllScanned ==
  ASSUME width \in Widths
  PROVE  \A t \in Seq(Chars) : Split(t) \in Splits /\ Scanned(t, Split(t), Position(t))
<1> DEFINE T == {t \in Seq(Chars) : Scanned(t, Split(t), Position(t))}
<1>1. Split(<< >>) = EmptySplit /\ Position(<< >>) = <<0, 0>> /\ << >> \in Seq(Chars)
  BY EmptySeq, SplitEmpty, PositionEmpty
<1>2. Scanned(<< >>, EmptySplit, <<0, 0>>)
  <2>1. /\ Len(<< >>) = 0 /\ << >> \o << >> = << >>
        /\ FlattenSeq(<< >>) = << >> /\ Columns(<< >>) = 0
    BY EmptySeq, ConcatEmptySeq, FlattenLaws, ColumnsEmpty
  <2>2. width \in Nat /\ width >= 3
    BY WidthAssumption
  <2>3. EmptySplit.rows = << >> /\ EmptySplit.row = << >> /\ EmptySplit.used = 0
    BY DEF EmptySplit
  <2>4. Kept(<< >>, EmptySplit) /\ Counted(EmptySplit) /\ Begun(<< >>, EmptySplit)
    BY <2>1, <2>2, <2>3 DEF Kept, Counted, Begun
  <2>5. Fits(EmptySplit) /\ Greedy(EmptySplit)
    BY <2>1, <2>3 DEF Fits, Greedy
  <2>6. Placed(EmptySplit, <<0, 0>>)
    BY <2>1, <2>2, <2>3 DEF Placed
  <2> QED BY <2>4, <2>5, <2>6 DEF Scanned
<1>3. ASSUME NEW t \in Seq(Chars), NEW c \in Chars, t \in T PROVE Append(t, c) \in T
  <2>1. /\ Split(t) \in Splits /\ Append(t, c) \in Seq(Chars)
        /\ Split(Append(t, c)) = SplitStep(Split(t), c)
        /\ Position(Append(t, c)) = Advance(Position(t), c)
    BY SplitDefined, SplitLaws, PositionLaws, AppendProperties
  <2> QED BY <1>3, <2>1, ScannedStep
<1>4. \A t \in Seq(Chars) : t \in T
  <2>1. << >> \in T
    BY <1>1, <1>2
  <2> HIDE DEF T
  <2> QED BY <1>3, <2>1, ByCharacter
<1> QED BY <1>4, SplitDefined

-----------------------------------------------------------------------------
(* split_each: the rows completed and the one begun. *)
Rows(p) == Append(p.rows, p.row)

(* split_each drops the row begun only when there is no text. *)
LEMMA SplitEachIs ==
  ASSUME width \in Widths, NEW t \in Seq(Chars)
  PROVE  SplitEach(t) = IF t = << >> THEN << >> ELSE Rows(Split(t))
<1>1. SplitEach(t) = IF Split(t).row = << >> THEN Split(t).rows ELSE Rows(Split(t))
  BY DEF SplitEach, Split, EmptySplit, Rows
<1>2. Begun(t, Split(t))
  BY AllScanned DEF Scanned
<1>3. EmptySplit.rows = << >> /\ EmptySplit.row = << >>
  BY DEF EmptySplit
<1> QED BY <1>1, <1>2, <1>3 DEF Begun

(* The rows of a scan are those completed and, last, the one begun. *)
LEMMA RowsOf ==
  ASSUME NEW p \in Splits
  PROVE  /\ p.rows \in Seq(Seq(Chars)) /\ p.row \in Seq(Chars) /\ p.used \in Nat
         /\ Len(p.rows) \in Nat /\ Len(p.row) \in Nat
         /\ Rows(p) \in Seq(Seq(Chars)) /\ Len(Rows(p)) = Len(p.rows) + 1
         /\ \A i \in 1 .. Len(p.rows) : Rows(p)[i] = p.rows[i]
         /\ Rows(p)[Len(p.rows) + 1] = p.row
<1>1. p.rows \in Seq(Seq(Chars)) /\ p.row \in Seq(Chars) /\ p.used \in Nat
  BY DEF Splits
<1> QED BY <1>1, AppendProperties, LenProperties DEF Rows

(* What split_each returns is as RowsAreGreedy says. *)
LEMMA RowsGreedy == TypeOK => RowsAreGreedy
<1> SUFFICES ASSUME TypeOK PROVE RowsAreGreedy
  OBVIOUS
<1>1. input \in Seq(Chars) /\ width \in Widths
  BY DEF TypeOK
<1> DEFINE p == Split(input)
           rows == SplitEach(input)
           n == Len(p.rows)
<1>2. p \in Splits /\ Scanned(input, p, Position(input))
  BY <1>1, AllScanned
<1>3. rows = IF input = << >> THEN << >> ELSE Rows(p)
  BY <1>1, SplitEachIs
<1> HIDE DEF p, rows
<1>4. /\ FlattenSeq(rows) = input
      /\ \A r \in DOMAIN rows : rows[r] # << >> /\ Columns(rows[r]) <= width
      /\ \A r \in 1 .. Len(rows) - 1 : Full(rows[r], rows[r + 1][1])
  <2>1. CASE input = << >>
    <3>1. /\ FlattenSeq(<< >>) = << >> /\ Len(<< >>) = 0 /\ DOMAIN << >> = {}
          /\ 1 .. 0 - 1 = {}
      <4>1. << >> \in Seq(Seq(Chars)) /\ Len(<< >>) = 0 /\ << >> \in Seq(Chars)
        BY EmptySeq
      <4>2. DOMAIN << >> = 1 .. 0
        BY <4>1, LenProperties
      <4>3. 1 .. 0 = {} /\ 1 .. 0 - 1 = {}
        OBVIOUS
      <4>4. FlattenSeq(<< >>) = << >>
        BY <4>1, FlattenLaws
      <4> QED BY <4>1, <4>2, <4>3, <4>4, Zenon
    <3> QED BY <1>3, <2>1, <3>1
  <2>2. CASE input # << >>
    <3>1. /\ p.rows \in Seq(Seq(Chars)) /\ p.row \in Seq(Chars) /\ n \in Nat
          /\ rows \in Seq(Seq(Chars)) /\ Len(rows) = n + 1 /\ DOMAIN rows = 1 .. n + 1
          /\ \A i \in 1 .. n : rows[i] = p.rows[i]
          /\ rows[n + 1] = p.row /\ rows = Append(p.rows, p.row)
      BY <1>2, <1>3, <2>2, RowsOf, LenProperties DEF Rows
    <3> HIDE DEF n
    <3>2. /\ FlattenSeq(p.rows) \o p.row = input
          /\ p.row # << >> /\ Columns(p.row) <= width
          /\ \A r \in 1 .. n : p.rows[r] # << >> /\ Columns(p.rows[r]) <= width
          /\ \A r \in 1 .. n - 1 : Full(p.rows[r], p.rows[r + 1][1])
          /\ n > 0 => Full(p.rows[n], p.row[1])
      BY <1>2, <2>2 DEF Scanned, Kept, Counted, Begun, Fits, Greedy, n
    <3>3. FlattenSeq(rows) = input
      BY <3>1, <3>2, FlattenLaws
    <3>4. ASSUME NEW r \in 1 .. n + 1 PROVE rows[r] # << >> /\ Columns(rows[r]) <= width
      <4>1. r \in 1 .. n \/ r = n + 1
        BY <3>1
      <4> QED BY <3>1, <3>2, <4>1
    <3>5. ASSUME NEW r \in 1 .. n PROVE Full(rows[r], rows[r + 1][1])
      <4>1. CASE r = n
        <5>1. n > 0 /\ rows[r] = p.rows[n] /\ rows[r + 1] = p.row
          BY <3>1, <4>1
        <5> QED BY <3>2, <5>1
      <4>2. CASE r # n
        <5>1. r + 1 \in 1 .. n /\ r \in 1 .. n - 1
          BY <3>1, <4>2
        <5>2. rows[r] = p.rows[r] /\ rows[r + 1] = p.rows[r + 1]
          BY <3>1, <5>1
        <5> QED BY <3>2, <5>1, <5>2
      <4> QED BY <4>1, <4>2
    <3>6. Len(rows) - 1 = n
      BY <3>1
    <3> QED BY <3>1, <3>3, <3>4, <3>5, <3>6
  <2> QED BY <2>1, <2>2
<1> QED BY <1>4 DEF RowsAreGreedy, Full, rows

-----------------------------------------------------------------------------
(* Rows that come of some by scanning on: the last one may have become
   longer, and there may be more of them.                                  *)
Later(before, after) ==
  /\ Len(before) <= Len(after)
  /\ \A i \in 1 .. Len(before) - 1 : after[i] = before[i]
  /\ Len(before[Len(before)]) <= Len(after[Len(before)])
  /\ \A j \in 1 .. Len(before[Len(before)]) :
       after[Len(before)][j] = before[Len(before)][j]

(* Rows longer than some, by the number of those before the last. *)
LEMMA LaterIf ==
  ASSUME NEW x, NEW y, NEW n \in Nat, Len(x) = n + 1, n + 1 <= Len(y),
         \A i \in 1 .. n : y[i] = x[i],
         Len(x[n + 1]) <= Len(y[n + 1]),
         \A j \in 1 .. Len(x[n + 1]) : y[n + 1][j] = x[n + 1][j]
  PROVE  Later(x, y)
<1>1. Len(x) - 1 = n
  OBVIOUS
<1>2. \A i \in 1 .. Len(x) - 1 : y[i] = x[i]
  BY <1>1
<1>3. Len(x) <= Len(y) /\ Len(x[Len(x)]) <= Len(y[Len(x)])
  OBVIOUS
<1>4. \A j \in 1 .. Len(x[Len(x)]) : y[Len(x)][j] = x[Len(x)][j]
  OBVIOUS
<1> QED BY <1>2, <1>3, <1>4, Zenon DEF Later

(* The next character makes later rows, *)
LEMMA LaterStep ==
  ASSUME NEW p \in Splits, NEW c \in Chars
  PROVE  Later(Rows(p), Rows(SplitStep(p, c)))
<1> DEFINE n == Len(p.rows)
<1>1. PICK q \in Splits : q = SplitStep(p, c)
  BY SplitStepIs
<1>2. /\ p.rows \in Seq(Seq(Chars)) /\ p.row \in Seq(Chars) /\ n \in Nat
      /\ Len(p.row) \in Nat /\ Rows(p) \in Seq(Seq(Chars)) /\ Len(Rows(p)) = n + 1
      /\ \A i \in 1 .. n : Rows(p)[i] = p.rows[i]
      /\ Rows(p)[n + 1] = p.row
  BY RowsOf
<1>3. /\ Len(Rows(q)) = Len(q.rows) + 1
      /\ \A i \in 1 .. Len(q.rows) : Rows(q)[i] = q.rows[i]
      /\ Rows(q)[Len(q.rows) + 1] = q.row
  BY RowsOf
<1>4. CASE Breaks(p.used, c)
  <2>1. q.rows = Rows(p)
    BY <1>1, <1>4, SplitStepIs DEF Rows
  <2> HIDE DEF n
  <2>2. n + 1 <= Len(Rows(q)) /\ \A i \in 1 .. n + 1 : Rows(q)[i] = Rows(p)[i]
    <3>1. Len(q.rows) = n + 1
      BY <1>2, <2>1
    <3>2. Len(Rows(q)) = n + 1 + 1 /\ \A i \in 1 .. n + 1 : Rows(q)[i] = q.rows[i]
      BY <1>3, <3>1
    <3> QED BY <1>2, <2>1, <3>2
  <2>3. n + 1 \in 1 .. n + 1 /\ n + 1 - 1 = n /\ \A i \in 1 .. n : i \in 1 .. n + 1
    BY <1>2
  <2>4. Later(Rows(p), Rows(q))
    <3> DEFINE x == Rows(p)
               y == Rows(q)
    <3>1. Len(x) = n + 1 /\ Len(x[n + 1]) \in Nat /\ y[n + 1] = x[n + 1]
      BY <1>2, <2>2, <2>3
    <3>2. n + 1 <= Len(y) /\ \A i \in 1 .. n : y[i] = x[i]
      BY <2>2, <2>3
    <3> HIDE DEF x, y
    <3>3. /\ Len(y[n + 1]) = Len(x[n + 1])
          /\ \A j \in 1 .. Len(x[n + 1]) : y[n + 1][j] = x[n + 1][j]
      BY <3>1
    <3>4. Len(x[n + 1]) <= Len(y[n + 1])
      BY <3>1, <3>3
    <3>5. n \in Nat
      BY <1>2
    <3>6. \A j \in 1 .. Len(x[n + 1]) : y[n + 1][j] = x[n + 1][j]
      BY <3>3
    <3>7. Len(x) = n + 1
      BY <3>1
    <3>8. Later(x, y)
      BY <3>2, <3>4, <3>5, <3>6, <3>7, LaterIf, Zenon
    <3> QED BY <3>8 DEF x, y
  <2> QED BY <1>1, <2>4
<1>5. CASE ~Breaks(p.used, c)
  <2>1. q.rows = p.rows /\ q.row = Append(p.row, c)
    BY <1>1, <1>5, SplitStepIs
  <2>2. /\ Len(q.row) = Len(p.row) + 1
        /\ \A j \in 1 .. Len(p.row) : q.row[j] = p.row[j]
    BY <1>2, <2>1, AppendProperties
  <2> HIDE DEF n
  <2>3. /\ Len(Rows(q)) = n + 1 /\ Rows(q)[n + 1] = q.row
        /\ \A i \in 1 .. n : Rows(q)[i] = Rows(p)[i]
    BY <1>2, <1>3, <2>1 DEF n
  <2>4. n + 1 - 1 = n /\ Len(p.row) <= Len(p.row) + 1
    BY <1>2
  <2>5. Later(Rows(p), Rows(q))
    <3> DEFINE x == Rows(p)
               y == Rows(q)
    <3>1. Len(x) = n + 1 /\ Len(y) = n + 1 /\ x[n + 1] = p.row /\ y[n + 1] = q.row
      BY <1>2, <2>3
    <3>2. \A i \in 1 .. n : y[i] = x[i]
      BY <2>3
    <3> HIDE DEF x, y
    <3>3. n + 1 <= n + 1 /\ Len(p.row) <= Len(q.row)
      BY <1>2, <2>2
    <3>4. Len(x[n + 1]) <= Len(y[n + 1]) /\ n + 1 <= Len(y) /\ n \in Nat
      BY <1>2, <3>1, <3>3
    <3>6. \A j \in 1 .. Len(x[n + 1]) : y[n + 1][j] = x[n + 1][j]
      BY <2>2, <3>1
    <3>7. Later(x, y)
      BY <3>1, <3>2, <3>4, <3>6, LaterIf, ZenonT(60)
    <3> QED BY <3>7 DEF x, y
  <2> QED BY <1>1, <2>5
<1> QED BY <1>4, <1>5

(* and those that come later still come later, *)
LEMMA LaterStill ==
  ASSUME NEW r \in Seq(Seq(Chars)), NEW s \in Seq(Seq(Chars)), NEW t \in Seq(Seq(Chars)),
         r # << >>, Later(r, s), Later(s, t)
  PROVE  Later(r, t)
<1> DEFINE l == Len(r)
           m == Len(s)
<1>1. l \in Nat \ {0} /\ m \in Nat /\ Len(t) \in Nat /\ l <= m /\ m <= Len(t)
  BY EmptySeq, LenProperties DEF Later
<1>2. Len(r[l]) \in Nat /\ Len(s[l]) \in Nat /\ Len(t[l]) \in Nat
  <2>1. l \in 1 .. Len(r) /\ l \in 1 .. Len(s) /\ l \in 1 .. Len(t)
    BY <1>1
  <2>2. r[l] \in Seq(Chars) /\ s[l] \in Seq(Chars) /\ t[l] \in Seq(Chars)
    BY <2>1, ElementOfSeq
  <2> QED BY <2>2, LenProperties
<1>3. /\ \A i \in 1 .. l - 1 : s[i] = r[i]
      /\ Len(r[l]) <= Len(s[l]) /\ \A j \in 1 .. Len(r[l]) : s[l][j] = r[l][j]
      /\ \A i \in 1 .. m - 1 : t[i] = s[i]
      /\ Len(s[m]) <= Len(t[m]) /\ \A j \in 1 .. Len(s[m]) : t[m][j] = s[m][j]
  BY DEF Later
<1> HIDE DEF l, m
<1>4. \A i \in 1 .. l - 1 : i \in 1 .. m - 1
  BY <1>1
<1>5. Len(r[l]) <= Len(t[l]) /\ \A j \in 1 .. Len(r[l]) : t[l][j] = r[l][j]
  <2>1. CASE l = m
    <3>1. Len(s[l]) <= Len(t[l]) /\ \A j \in 1 .. Len(s[l]) : t[l][j] = s[l][j]
      BY <1>3, <2>1
    <3> DEFINE x == r[l]
               y == s[l]
               z == t[l]
    <3>2. /\ Len(x) \in Nat /\ Len(y) \in Nat /\ Len(z) \in Nat
          /\ Len(x) <= Len(y) /\ \A j \in 1 .. Len(x) : y[j] = x[j]
          /\ Len(y) <= Len(z) /\ \A j \in 1 .. Len(y) : z[j] = y[j]
      BY <1>2, <1>3, <3>1
    <3> HIDE DEF x, y, z
    <3>3. Len(x) <= Len(z) /\ \A j \in 1 .. Len(x) : j \in 1 .. Len(y)
      BY <3>2
    <3>4. \A j \in 1 .. Len(x) : z[j] = x[j]
      BY <3>2, <3>3
    <3> QED BY <3>3, <3>4 DEF x, y, z
  <2>2. CASE l # m
    <3>1. l \in 1 .. m - 1
      BY <1>1, <2>2
    <3> QED BY <1>3, <3>1
  <2> QED BY <2>1, <2>2
<1>6. l <= Len(t) /\ \A i \in 1 .. l - 1 : t[i] = r[i]
  BY <1>1, <1>3, <1>4, SMTT(30)
<1> QED BY <1>5, <1>6 DEF Later, l

(* so the rows of a text come of those of its beginning. *)
LEMMA Grown ==
  ASSUME NEW s \in Seq(Chars), NEW k \in 0 .. Len(s)
  PROVE  Later(Rows(Split(Before(s, k))), Rows(Split(s)))
<1> DEFINE d == Len(s) - k
           at(j) == Rows(Split(Before(s, k + j)))
           T == {j \in 0 .. d : Later(at(0), at(j))}
<1>1. Len(s) \in Nat /\ d \in Nat /\ k + 0 = k /\ k + d = Len(s) /\ k \in Nat
  <2>1. Len(s) \in Nat
    BY LenProperties
  <2> QED BY <2>1
<1>2. \A j \in 0 .. d : /\ Before(s, k + j) \in Seq(Chars) /\ Split(Before(s, k + j)) \in Splits
                        /\ at(j) \in Seq(Seq(Chars)) /\ at(j) # << >>
  <2> SUFFICES ASSUME NEW j \in 0 .. d
               PROVE  /\ Before(s, k + j) \in Seq(Chars) /\ Split(Before(s, k + j)) \in Splits
                      /\ at(j) \in Seq(Seq(Chars)) /\ at(j) # << >>
    OBVIOUS
  <2>1. k + j \in 0 .. Len(s)
    BY <1>1
  <2>2. Before(s, k + j) \in Seq(Chars)
    BY <2>1, Parts
  <2>3. Split(Before(s, k + j)) \in Splits
    BY <2>2, SplitDefined
  <2> QED BY <2>2, <2>3, RowsOf, EmptySeq
<1>3. 0 \in T
  <2>0. 0 \in 0 .. d
    BY <1>1
  <2> HIDE DEF at, d
  <2>1. at(0) \in Seq(Seq(Chars)) /\ at(0) # << >>
    BY <1>2, <2>0
  <2>2. Len(at(0)) \in Nat /\ Len(at(0)[Len(at(0))]) \in Nat
    <3>1. Len(at(0)) \in 1 .. Len(at(0))
      BY <2>1, EmptySeq, LenProperties
    <3>2. at(0)[Len(at(0))] \in Seq(Chars)
      BY <2>1, <3>1, ElementOfSeq
    <3> QED BY <2>1, <3>2, LenProperties
  <2>3. Later(at(0), at(0))
    BY <2>2 DEF Later
  <2> QED BY <2>0, <2>3
<1>4. ASSUME NEW j \in 0 .. d - 1, j \in T PROVE j + 1 \in T
  <2>1. /\ j \in 0 .. d /\ j + 1 \in 0 .. d /\ k + j \in 0 .. Len(s) - 1
        /\ k + (j + 1) = (k + j) + 1 /\ 0 \in 0 .. d
    BY <1>1
  <2>2. /\ Before(s, (k + j) + 1) = Append(Before(s, k + j), s[(k + j) + 1])
        /\ s[(k + j) + 1] \in Chars
    BY <2>1, OneMore
  <2>3. Split(Before(s, (k + j) + 1)) = SplitStep(Split(Before(s, k + j)), s[(k + j) + 1])
    BY <1>2, <2>1, <2>2, SplitLaws
  <2>4. Later(at(j), at(j + 1))
    BY <1>2, <2>1, <2>2, <2>3, LaterStep
  <2> HIDE DEF at, d
  <2>5. Later(at(0), at(j))
    BY <1>4
  <2>6. Later(at(0), at(j + 1))
    BY <1>2, <2>1, <2>4, <2>5, LaterStill
  <2> QED BY <2>1, <2>6
<1>5. d \in T
  <2> HIDE DEF T, d
  <2>1. \A j \in 0 .. d : j \in T
    BY <1>1, <1>3, <1>4, UpTo
  <2> QED BY <1>1, <2>1
<1>6. Before(s, Len(s)) = s
  BY SubSeqFull DEF Before
<1> QED BY <1>1, <1>5, <1>6

-----------------------------------------------------------------------------
(* Where a character is, given the row that holds it: no other does. *)
LEMMA CellIs ==
  ASSUME NEW rows \in Seq(Seq(Chars)), SplitEach(input) = rows,
         NEW m \in 1 .. Len(rows), NEW k \in Nat, NEW b \in Nat,
         b = Len(FlattenSeq(SubSeq(rows, 1, m - 1))), b < k, k <= b + Len(rows[m])
  PROVE  CellOf(k) = <<Columns(SubSeq(rows[m], 1, (k - b) - 1)), m - 1>>
<1> DEFINE n == Len(rows)
           behind(r) == Len(FlattenSeq(Before(rows, r)))
<1>1. n \in Nat /\ DOMAIN rows = 1 .. n /\ m \in 1 .. n
  BY LenProperties
<1>2. ASSUME NEW r \in 0 .. n - 1
      PROVE  /\ behind(r) \in Nat /\ behind(r + 1) \in Nat /\ Len(rows[r + 1]) \in Nat
             /\ behind(r + 1) = behind(r) + Len(rows[r + 1])
  <2>1. /\ Before(rows, r) \in Seq(Seq(Chars)) /\ rows[r + 1] \in Seq(Chars)
        /\ Before(rows, r + 1) = Append(Before(rows, r), rows[r + 1])
    BY OneMore
  <2>2. /\ FlattenSeq(Before(rows, r)) \in Seq(Chars)
        /\ FlattenSeq(Before(rows, r + 1)) = FlattenSeq(Before(rows, r)) \o rows[r + 1]
    BY <2>1, FlattenLaws
  <2> QED BY <2>1, <2>2, ConcatProperties, LenProperties, SMTT(30)
<1> HIDE DEF behind, n
<1>3. \A i, j \in 0 .. n : i <= j => behind(i) <= behind(j)
  <2> SUFFICES ASSUME NEW i \in 0 .. n, NEW j \in 0 .. n, i <= j PROVE behind(i) <= behind(j)
    OBVIOUS
  <2>0. \A r \in 0 .. n : behind(r) \in Nat
    <3> SUFFICES ASSUME NEW r \in 0 .. n PROVE behind(r) \in Nat
      OBVIOUS
    <3>1. CASE r = n /\ r # 0
      <4>1. r - 1 \in 0 .. n - 1 /\ (r - 1) + 1 = r
        BY <1>1, <3>1
      <4> QED BY <1>2, <4>1
    <3>2. CASE r # n
      <4>1. r \in 0 .. n - 1
        BY <1>1, <3>2
      <4> QED BY <1>2, <4>1
    <3>3. CASE n = 0
      BY <1>1, <3>3
    <3> QED BY <3>1, <3>2, <3>3
  <2> DEFINE T == {e \in 0 .. j - i : behind(i) <= behind(i + e)}
  <2>1. 0 \in T
    BY <1>1, <2>0
  <2>2. ASSUME NEW e \in 0 .. j - i - 1, e \in T PROVE e + 1 \in T
    <3>1. i + e \in 0 .. n - 1 /\ i + (e + 1) = (i + e) + 1 /\ e + 1 \in 0 .. j - i
      BY <1>1, <2>2
    <3>2. behind(i) <= behind(i + e)
      BY <2>2
    <3>3. /\ behind((i + e) + 1) = behind(i + e) + Len(rows[(i + e) + 1])
          /\ Len(rows[(i + e) + 1]) \in Nat
          /\ behind(i + e) \in Nat
      BY <1>2, <3>1
    <3>4. behind(i) \in Nat
      BY <2>0
    <3>5. behind(i) <= behind((i + e) + 1)
      <4> DEFINE x == behind(i)
                 y == behind(i + e)
                 z == behind((i + e) + 1)
                 l == Len(rows[(i + e) + 1])
      <4>1. x \in Nat /\ y \in Nat /\ l \in Nat /\ x <= y /\ z = y + l
        BY <3>2, <3>3, <3>4
      <4> HIDE DEF x, y, z, l
      <4>2. x <= z
        BY <4>1
      <4> QED BY <4>2 DEF x, z
    <3>6. e + 1 \in 0 .. j - i /\ behind(i) <= behind(i + (e + 1))
      BY <3>1, <3>5
    <3> QED BY <3>6
  <2>3. j - i \in T
    <3>1. j - i \in Nat
      BY <1>1
    <3> HIDE DEF T
    <3>2. \A e \in 0 .. j - i : e \in T
      BY <2>1, <2>2, <3>1, UpTo
    <3> QED BY <3>1, <3>2
  <2> QED BY <1>1, <2>3
<1>4. behind(m - 1) = b
  BY DEF behind, Before
<1>5. ASSUME NEW r \in 1 .. n
      PROVE  /\ r - 1 \in 0 .. n /\ behind(r - 1) \in Nat /\ behind(r) \in Nat
             /\ Len(rows[r]) \in Nat /\ behind(r) = behind(r - 1) + Len(rows[r])
  <2>1. r - 1 \in 0 .. n - 1 /\ (r - 1) + 1 = r /\ r - 1 \in 0 .. n
    BY <1>1
  <2> QED BY <1>2, <2>1
<1>6. ASSUME NEW r \in 1 .. n, behind(r - 1) < k, k <= behind(r - 1) + Len(rows[r])
      PROVE  r = m
  <2>1. CASE r < m
    <3>1. r \in 0 .. n /\ m - 1 \in 0 .. n /\ r <= m - 1
      BY <1>1, <2>1
    <3>2. behind(r) <= b
      BY <1>3, <1>4, <3>1
    <3>3. behind(r) \in Nat /\ k <= behind(r)
      BY <1>5, <1>6
    <3> QED BY <3>2, <3>3
  <2>2. CASE m < r
    <3>1. m \in 0 .. n /\ r - 1 \in 0 .. n /\ m <= r - 1
      BY <1>1, <2>2
    <3>2. behind(m) <= behind(r - 1)
      BY <1>3, <3>1
    <3>3. behind(m) \in Nat /\ behind(r - 1) \in Nat /\ k <= behind(m)
      BY <1>1, <1>4, <1>5
    <3> QED BY <1>6, <3>2, <3>3
  <2> QED BY <1>1, <2>1, <2>2
<1> DEFINE In(r) == Len(FlattenSeq(SubSeq(rows, 1, r - 1)))
           row == CHOOSE r \in DOMAIN rows : In(r) < k /\ k <= In(r) + Len(rows[r])
<1>7. \A r : In(r) = behind(r - 1)
  BY DEF behind, Before
<1>8. row = m
  <2> HIDE DEF In
  <2>1. In(m) < k /\ k <= In(m) + Len(rows[m])
    BY <1>4, <1>7
  <2>2. \A r \in 1 .. n : In(r) < k /\ k <= In(r) + Len(rows[r]) => r = m
    BY <1>6, <1>7
  <2> QED BY <1>1, <2>1, <2>2
<1>9. In(m) = b
  OBVIOUS
<1>10. CellOf(k) = <<Columns(SubSeq(rows[row], 1, (k - In(row)) - 1)), row - 1>>
  BY Zenon DEF CellOf
<1> HIDE DEF row, In
<1> QED BY <1>8, <1>9, <1>10

-----------------------------------------------------------------------------
(* Texts that agree up to a place have the same beginning. *)
LEMMA SameBeginning ==
  ASSUME NEW S, NEW s \in Seq(S), NEW t \in Seq(S), NEW k \in Nat,
         k <= Len(s), k <= Len(t), \A i \in 1 .. k : s[i] = t[i]
  PROVE  Before(s, k) = Before(t, k)
<1>1. k \in 0 .. Len(s) /\ k \in 0 .. Len(t)
  BY LenProperties
<1>2. /\ Before(s, k) \in Seq(S) /\ Len(Before(s, k)) = k
      /\ \A i \in 1 .. k : Before(s, k)[i] = s[i]
  BY <1>1, Parts
<1>3. /\ Before(t, k) \in Seq(S) /\ Len(Before(t, k)) = k
      /\ \A i \in 1 .. k : Before(t, k)[i] = t[i]
  BY <1>1, Parts
<1>4. \A i \in 1 .. k : Before(s, k)[i] = Before(t, k)[i]
  BY <1>2, <1>3
<1> QED BY <1>2, <1>3, <1>4, SeqEqual

(* The cell of the character after a beginning of the line is told by the
   scan of that beginning, whatever follows.                               *)
LEMMA CellAfter ==
  ASSUME input \in Seq(Chars), width \in Widths, NEW k \in 0 .. Len(input) - 1,
         NEW p, p = Split(Before(input, k))
  PROVE  CellOf(k + 1) = IF Breaks(p.used, input[k + 1]) THEN <<0, Len(p.rows) + 1>>
                         ELSE <<p.used, Len(p.rows)>>
<1> DEFINE t == Before(input, k)
           u == Before(input, k + 1)
           c == input[k + 1]
           rows == SplitEach(input)
<1>1. /\ Len(input) \in Nat /\ k \in Nat /\ k + 1 \in 0 .. Len(input) /\ k \in 0 .. Len(input)
      /\ t \in Seq(Chars) /\ c \in Chars /\ u = Append(t, c)
      /\ u \in Seq(Chars) /\ Len(u) = k + 1 /\ u # << >> /\ input # << >>
  <2>1. Len(input) \in Nat
    BY LenProperties
  <2>2. k \in Nat /\ k + 1 \in 0 .. Len(input) /\ k \in 0 .. Len(input) /\ Len(input) # 0
    BY <2>1
  <2>3. t \in Seq(Chars) /\ c \in Chars /\ u = Append(t, c)
    BY OneMore
  <2>4. u \in Seq(Chars) /\ Len(u) = k + 1
    BY <2>2, Parts
  <2>5. u # << >> /\ input # << >>
    BY <2>2, <2>3, <2>4, EmptySeq, AppendProperties
  <2> QED BY <2>1, <2>2, <2>3, <2>4, <2>5
<1>2. p \in Splits /\ Counted(p)
  BY <1>1, AllScanned DEF Scanned
<1>3. PICK q \in Splits : q = SplitStep(p, c)
  BY <1>1, <1>2, SplitStepIs
<1>4. Split(u) = q
  BY <1>1, <1>3, SplitLaws
<1>5. FlattenSeq(q.rows) \o q.row = u /\ q.row # << >>
  <2>1. Scanned(u, q, Position(u))
    BY <1>1, <1>4, AllScanned
  <2> QED BY <1>1, <2>1 DEF Scanned, Kept, Begun
<1> DEFINE m == Len(q.rows) + 1
           b == Len(FlattenSeq(q.rows))
           l == Len(q.row)
<1>6. /\ q.rows \in Seq(Seq(Chars)) /\ q.row \in Seq(Chars) /\ Len(q.rows) \in Nat
      /\ Rows(q) \in Seq(Seq(Chars)) /\ Len(Rows(q)) = m /\ m \in Nat
      /\ \A i \in 1 .. Len(q.rows) : Rows(q)[i] = q.rows[i]
      /\ Rows(q)[m] = q.row
  BY RowsOf
<1>7. b \in Nat /\ l \in Nat \ {0} /\ b + l = k + 1
  <2>1. FlattenSeq(q.rows) \in Seq(Chars)
    BY <1>6, FlattenLaws
  <2>2. b \in Nat /\ l \in Nat /\ l # 0
    BY <1>5, <1>6, <2>1, LenProperties, EmptySeq
  <2>3. Len(FlattenSeq(q.rows) \o q.row) = b + l
    BY <1>6, <2>1, ConcatProperties
  <2> QED BY <1>1, <1>5, <2>2, <2>3
<1>8. rows = Rows(Split(input)) /\ rows \in Seq(Seq(Chars))
  <2>1. rows = Rows(Split(input))
    BY <1>1, SplitEachIs
  <2>2. Split(input) \in Splits
    BY SplitDefined
  <2> QED BY <2>1, <2>2, RowsOf
<1>9. Later(Rows(q), rows)
  <2>1. Later(Rows(Split(u)), Rows(Split(input)))
    BY <1>1, Grown
  <2> QED BY <1>4, <1>8, <2>1
<1> HIDE DEF rows
<1>10. /\ m <= Len(rows) /\ \A i \in 1 .. m - 1 : rows[i] = Rows(q)[i]
       /\ l <= Len(rows[m]) /\ \A j \in 1 .. l : rows[m][j] = q.row[j]
  BY <1>6, <1>9, Zenon DEF Later
<1> HIDE DEF m, b, l
<1>11. /\ m \in 1 .. Len(rows) /\ rows[m] \in Seq(Chars)
       /\ m - 1 = Len(q.rows) /\ Len(rows) \in Nat
  <2>1. m \in 1 .. Len(rows) /\ m - 1 = Len(q.rows) /\ Len(rows) \in Nat
    BY <1>6, <1>8, <1>10, LenProperties DEF m
  <2> QED BY <1>8, <2>1, ElementOfSeq
<1>12. SubSeq(rows, 1, m - 1) = q.rows
  <2>1. Len(q.rows) <= Len(rows) /\ Len(q.rows) <= Len(q.rows)
    BY <1>6, <1>11
  <2>2. \A i \in 1 .. Len(q.rows) : rows[i] = q.rows[i]
    BY <1>6, <1>10, <1>11
  <2>3. Before(rows, Len(q.rows)) = Before(q.rows, Len(q.rows))
    BY <1>6, <1>8, <2>1, <2>2, SameBeginning
  <2>4. Before(q.rows, Len(q.rows)) = q.rows
    BY <1>6, SubSeqFull DEF Before
  <2> QED BY <1>11, <2>3, <2>4 DEF Before
<1>13. CellOf(k + 1) = <<Columns(SubSeq(rows[m], 1, ((k + 1) - b) - 1)), m - 1>>
  <2>1. b = Len(FlattenSeq(SubSeq(rows, 1, m - 1)))
    BY <1>12 DEF b
  <2>2. Len(rows[m]) \in Nat
    BY <1>11, LenProperties
  <2>3. b < k + 1 /\ k + 1 <= b + Len(rows[m]) /\ k + 1 \in Nat
    BY <1>1, <1>7, <1>10, <2>2
  <2>4. SplitEach(input) = rows
    BY DEF rows
  <2> QED BY <1>7, <1>8, <1>11, <2>1, <2>3, <2>4, CellIs, ZenonT(60)
<1>14. SubSeq(rows[m], 1, ((k + 1) - b) - 1) = Before(q.row, l - 1)
  <2>1. ((k + 1) - b) - 1 = l - 1 /\ l - 1 \in Nat
    BY <1>1, <1>7
  <2>2. Len(rows[m]) \in Nat /\ Len(q.row) = l
    BY <1>11, LenProperties DEF l
  <2>3. l - 1 <= Len(rows[m]) /\ l - 1 <= Len(q.row) /\ \A j \in 1 .. l - 1 : j \in 1 .. l
    BY <1>7, <1>10, <2>2
  <2>4. Before(rows[m], l - 1) = Before(q.row, l - 1)
    BY <1>6, <1>10, <1>11, <2>1, <2>3, SameBeginning, ZenonT(60)
  <2> QED BY <2>1, <2>4 DEF Before
<1>15. CellOf(k + 1) = <<Columns(Before(q.row, l - 1)), Len(q.rows)>>
  BY <1>11, <1>13, <1>14
<1>16. p.row \in Seq(Chars) /\ p.rows \in Seq(Seq(Chars)) /\ p.used = Columns(p.row)
  BY <1>2, RowsOf DEF Counted
<1>17. CASE Breaks(p.used, c)
  <2>1. q.rows = Append(p.rows, p.row) /\ q.row = <<c>>
    BY <1>1, <1>2, <1>3, <1>17, SplitStepIs
  <2>2. l = 1 /\ Len(q.rows) = Len(p.rows) + 1
    BY <1>16, <2>1, AppendProperties DEF l
  <2>3. Before(q.row, 1 - 1) = << >>
    BY SubSeqEmpty DEF Before
  <2> QED BY <1>15, <1>17, <2>2, <2>3, ColumnsEmpty
<1>18. CASE ~Breaks(p.used, c)
  <2>1. q.rows = p.rows /\ q.row = Append(p.row, c)
    BY <1>1, <1>2, <1>3, <1>18, SplitStepIs
  <2>2. /\ l = Len(p.row) + 1 /\ Len(p.row) \in Nat
        /\ \A j \in 1 .. Len(p.row) : q.row[j] = p.row[j]
    BY <1>1, <1>16, <2>1, AppendProperties, LenProperties DEF l
  <2>3. l - 1 = Len(p.row) /\ Len(p.row) <= Len(q.row) /\ Len(p.row) <= Len(p.row)
    BY <2>2 DEF l
  <2>4. Before(q.row, Len(p.row)) = Before(p.row, Len(p.row))
    BY <1>6, <1>16, <2>2, <2>3, SameBeginning
  <2>5. Before(p.row, Len(p.row)) = p.row
    BY <1>16, SubSeqFull DEF Before
  <2> QED BY <1>15, <1>16, <1>18, <2>1, <2>3, <2>4, <2>5
<1> QED BY <1>17, <1>18

(* The cursor leaves the first row when the text before it is as wide as the
   panel, and does not come back to it.                                    *)
LEMMA LeavesFirstRow ==
  ASSUME width \in Widths
  PROVE  \A t \in Seq(Chars) :
           IF Columns(t) < width THEN Position(t) = <<Columns(t), 0>>
                                 ELSE Position(t)[2] >= PanelRows
<1> DEFINE Where(t) ==
             \E x \in 0 .. width - 1, y \in Nat :
               /\ Position(t) = <<x, y>> /\ Columns(t) \in Nat
               /\ Columns(t) < width => x = Columns(t) /\ y = 0
               /\ ~(Columns(t) < width) => y >= 1
           T == {t \in Seq(Chars) : Where(t)}
<1>0. width \in Nat /\ width >= 3
  BY WidthAssumption
<1>1. << >> \in T
  <2>1. << >> \in Seq(Chars) /\ 0 \in 0 .. width - 1
    BY <1>0, EmptySeq
  <2> QED BY <1>0, <2>1, ColumnsEmpty, PositionEmpty
<1>2. ASSUME NEW t \in Seq(Chars), NEW c \in Chars, t \in T PROVE Append(t, c) \in T
  <2> DEFINE w == CharWidth[c]
             n == Columns(t)
             m == Columns(Append(t, c))
  <2>1. /\ Append(t, c) \in Seq(Chars) /\ m = n + w
        /\ Position(Append(t, c)) = Advance(Position(t), c)
    BY ColumnsLaws, PositionLaws, AppendProperties
  <2>2. w \in 0 .. 2
    BY CharAssumption
  <2>3. PICK x \in 0 .. width - 1, y \in Nat :
           /\ Position(t) = <<x, y>> /\ n \in Nat
           /\ n < width => x = n /\ y = 0
           /\ ~(n < width) => y >= 1
    BY <1>2
  <2> DEFINE x2 == IF x + w = width THEN 0
                   ELSE IF x + w > width THEN (x + w) - (width - (w - 1)) ELSE x + w
             y2 == IF x + w >= width THEN y + 1 ELSE y
  <2>4. Position(Append(t, c)) = <<x2, y2>>
    <3>1. <<x, y>>[1] = x /\ <<x, y>>[2] = y
      OBVIOUS
    <3>2. Advance(<<x, y>>, c)
            = IF x + w = width THEN <<0, y + 1>>
              ELSE IF x + w > width THEN <<(x + w) - (width - (w - 1)), y + 1>>
              ELSE <<x + w, y>>
      BY <3>1 DEF Advance, Wrapped
    <3> QED BY <1>0, <2>1, <2>2, <2>3, <3>2
  <2> HIDE DEF w, n, m
  <2>5. x2 \in 0 .. width - 1 /\ y2 \in Nat /\ m \in Nat
    BY <1>0, <2>1, <2>2, <2>3
  <2>6. (m < width => x2 = m /\ y2 = 0) /\ (~(m < width) => y2 >= 1)
    BY <1>0, <2>1, <2>2, <2>3
  <2> QED BY <2>1, <2>4, <2>5, <2>6 DEF m
<1>3. \A t \in Seq(Chars) : t \in T
  <2> HIDE DEF T
  <2> QED BY <1>1, <1>2, ByCharacter
<1> QED BY <1>3 DEF PanelRows

(* What ui_input_cursor computes is as CursorFollowsRows says. *)
LEMMA CursorPlaced == TypeOK => CursorFollowsRows
<1> SUFFICES ASSUME TypeOK PROVE CursorFollowsRows
  OBVIOUS
<1> DEFINE t == Before(input, cursor)
           p == Split(t)
           at == UiInputCursor
           n == Len(p.rows)
<1>1. /\ input \in Seq(Chars) /\ Len(input) \in Nat /\ cursor \in 0 .. Len(input)
      /\ width \in Widths /\ width \in Nat /\ width >= 3
  BY WidthAssumption, LenProperties DEF TypeOK
<1>2. t \in Seq(Chars) /\ at = Position(t)
  BY <1>1, Parts DEF UiInputCursor, Position, Before
<1>3. p \in Splits /\ Scanned(t, p, at)
  BY <1>1, <1>2, AllScanned
<1> HIDE DEF t, at
<1>4. /\ p.used \in Nat /\ n \in Nat /\ p.used <= width
      /\ at = IF p.used = width THEN <<0, n + 1>> ELSE <<p.used, n>>
  BY <1>3, RowsOf DEF Scanned, Counted, Placed
<1>5. at[1] \in 0 .. width - 1
  BY <1>1, <1>4
<1>6. ASSUME cursor < Len(input)
      PROVE  \/ at = CellOf(cursor + 1)
             \/ /\ CharWidth[input[cursor + 1]] = 2
                /\ CellOf(cursor + 1)[1] = 0
                /\ at = <<width - 1, CellOf(cursor + 1)[2] - 1>>
  <2> DEFINE c == input[cursor + 1]
             w == CharWidth[c]
             cell == CellOf(cursor + 1)
  <2>1. cursor \in 0 .. Len(input) - 1 /\ c \in Chars /\ w \in 0 .. 2
    <3>1. cursor \in 0 .. Len(input) - 1
      BY <1>1, <1>6
    <3>2. c \in Chars
      BY <1>1, <3>1, OneMore
    <3> QED BY <3>1, <3>2, CharAssumption
  <2>2. cell = IF Breaks(p.used, c) THEN <<0, n + 1>> ELSE <<p.used, n>>
    BY <1>1, <2>1, CellAfter DEF t
  <2>3. Breaks(p.used, c) <=> (p.used # 0 /\ p.used = width) \/ p.used + w > width
    BY DEF Breaks
  <2> HIDE DEF p, n, c, w, cell
  <2>4. CASE p.used = width
    <3>1. Breaks(p.used, c)
      BY <1>1, <2>3, <2>4
    <3> QED BY <1>4, <2>2, <2>4, <3>1 DEF cell
  <2>5. CASE p.used # width /\ ~Breaks(p.used, c)
    BY <1>4, <2>2, <2>5 DEF cell
  <2>6. CASE p.used # width /\ Breaks(p.used, c)
    <3>1. p.used = width - 1 /\ w = 2
      BY <1>1, <1>4, <2>1, <2>3, <2>6
    <3>2. cell[1] = 0 /\ cell[2] = n + 1 /\ n + 1 - 1 = n
      BY <1>4, <2>2, <2>6
    <3>3. at = <<width - 1, cell[2] - 1>>
      BY <1>4, <2>6, <3>1, <3>2
    <3> QED BY <3>1, <3>2, <3>3 DEF cell, w, c
  <2> QED BY <2>4, <2>5, <2>6
<1>7. IF Columns(t) < width THEN at = <<Columns(t), 0>> ELSE at[2] >= PanelRows
  BY <1>1, <1>2, LeavesFirstRow
<1> QED BY <1>5, <1>6, <1>7 DEF CursorFollowsRows, at, t, Before

-----------------------------------------------------------------------------
(* The cursor never leaves the line: input_write, input_remove,
   input_remove_previous and the drain of clear_input_to_cursor never index
   outside it, whatever keys are pressed in whatever order.                *)
THEOREM CursorWithinLine == Spec => []TypeOK
<1>1. TypeOK /\ [Next]_vars => TypeOK'
  BY StepEdits, StutterEdits
<1> QED BY InitType, <1>1, PTL DEF Spec

(* A line and an index into it behave like the text on the two sides of a
   cursor: every key edits where the cursor stands, and Enter hands over
   the line whole.                                                         *)
THEOREM EditsAtCursor == Spec => ImplementsLineEditor
<1>1. TypeOK /\ [Next]_vars => [Editor!Next]_Editor!vars
  BY StepEdits, StutterEdits
<1> QED BY InitEdits, CursorWithinLine, <1>1, PTL DEF Spec, ImplementsLineEditor, Editor!Spec

(* split_each returns the line whole, in rows that are never empty, never
   too wide and never left while the next character still fits.            *)
THEOREM RowsBrokenLate == Spec => []RowsAreGreedy
BY CursorWithinLine, RowsGreedy, PTL

(* ui_input_cursor, which sees only what precedes the cursor, gives it the
   cell that split_each, which sees the whole line, gives the character at
   it, or the column left empty before a wide one; and that cell is in the
   panel's one row exactly while the text before it is narrower.           *)
THEOREM CursorWithRows == Spec => []CursorFollowsRows
BY CursorWithinLine, CursorPlaced, PTL

=============================================================================
