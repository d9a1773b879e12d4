------------------------------ MODULE LineEditor ------------------------------
(***************************************************************************)
(* What a one-line editor promises: the text to the left and to the right  *)
(* of the cursor, and a line handed over whole when it is submitted.       *)
(***************************************************************************)
EXTENDS Integers, Sequences

CONSTANTS Chars

VARIABLES
  left,     \* text before the cursor
  right,    \* text from the cursor on
  submitted \* the line handed over by the last step, if it was a submission

vars == <<left, right, submitted>>

NoLine == << >>

Init == left = << >> /\ right = << >> /\ submitted = NoLine

Type(c) == left' = Append(left, c) /\ right' = right /\ submitted' = NoLine

Delete ==
  /\ right # << >>
  /\ left' = left /\ right' = Tail(right) /\ submitted' = NoLine

Backspace ==
  /\ left # << >>
  /\ left' = SubSeq(left, 1, Len(left) - 1) /\ right' = right
  /\ submitted' = NoLine

(* The cursor goes anywhere in the text, which stays as it is. *)
Move ==
  /\ \E k \in 0 .. Len(left \o right) :
       /\ left' = SubSeq(left \o right, 1, k)
       /\ right' = SubSeq(left \o right, k + 1, Len(left \o right))
  /\ submitted' = NoLine

Clear == left' = << >> /\ right' = right /\ submitted' = NoLine

Submit ==
  /\ left \o right # << >>
  /\ submitted' = left \o right
  /\ left' = << >> /\ right' = << >>

Next == (\E c \in Chars : Type(c)) \/ Delete \/ Backspace \/ Move \/ Clear \/ Submit

Spec == Init /\ [][Next]_vars

=============================================================================
