------------------------------ MODULE InputLine ------------------------------
(***************************************************************************)
(* The input line of the user interface: UI::input with UI::input_cursor,  *)
(* edited key by key, and its rendering: split_each breaks the line into   *)
(* rows of the panel's width and ui_input_cursor says, independently of    *)
(* it, on which cell of which row the cursor stands.  The panel has one    *)
(* row and does not scroll: of the rows computed the first is seen, and a  *)
(* cursor on a later one is set below the panel.  Characters take no       *)
(* column (combining), one, or two (wide).                                 *)
(***************************************************************************)
EXTENDS Integers, Sequences, SequencesExt

CONSTANTS
  Chars,     \* characters
  CharWidth, \* UnicodeWidthChar::width, 0 for None
  Widths,    \* inner widths of the input panel
  MaxLen     \* bound: characters in the line

ASSUME CharAssumption == CharWidth \in [Chars -> 0 .. 2]
(* On an inner width of 2 a wide character that did not fit leaves the cursor
   one past the last column; on 1, ui_input_cursor underflows, and narrower
   still chunk.width - 2 does or split_each divides by zero.               *)
ASSUME WidthAssumption == \A w \in Widths : w \in Nat /\ w >= 3
ASSUME LengthAssumption == MaxLen \in Nat

VARIABLES
  input,     \* UI::input
  cursor,    \* UI::input_cursor: characters before the cursor
  width,     \* inner width of the input panel at the next draw
  submitted  \* what reset_input returned in the last step

vars == <<input, cursor, width, submitted>>

NoLine == << >>

-----------------------------------------------------------------------------
(* input_write: Vec::insert at the cursor *)
InputWrite(c) ==
  /\ Len(input) < MaxLen
  /\ input' = InsertAt(input, cursor + 1, c)
  /\ cursor' = cursor + 1
  /\ submitted' = NoLine
  /\ UNCHANGED width

(* input_remove *)
InputRemove ==
  /\ input' = IF cursor < Len(input) THEN RemoveAt(input, cursor + 1) ELSE input
  /\ submitted' = NoLine
  /\ UNCHANGED <<cursor, width>>

(* Faulty variant: the character at the cursor goes, not the one before. *)
RemovedByBackspace(k) == k + 1
(* The cursor is moved first; the character then at it goes. *)
RemovedAt(k) == k

(* input_remove_previous *)
InputRemovePrevious ==
  /\ IF cursor > 0
     THEN /\ cursor' = cursor - 1
          /\ input' = RemoveAt(input, RemovedAt(cursor))
     ELSE UNCHANGED <<input, cursor>>
  /\ submitted' = NoLine
  /\ UNCHANGED width

(* input_move_cursor: Left, Right, Start, End *)
InputMoveCursor ==
  /\ \/ cursor' = IF cursor > 0 THEN cursor - 1 ELSE cursor
     \/ cursor' = IF cursor < Len(input) THEN cursor + 1 ELSE cursor
     \/ cursor' = 0
     \/ cursor' = Len(input)
  /\ submitted' = NoLine
  /\ UNCHANGED <<input, width>>

(* clear_input_to_cursor: Ctrl-U *)
ClearInputToCursor ==
  /\ IF input # << >>
     THEN input' = SubSeq(input, cursor + 1, Len(input)) /\ cursor' = 0
     ELSE UNCHANGED <<input, cursor>>
  /\ submitted' = NoLine
  /\ UNCHANGED width

(* Faulty variant: the cursor stays where it was. *)
CursorKept == cursor
(* The cursor after the line has been taken. *)
CursorAfterReset == 0

(* Enter: reset_input *)
Enter ==
  /\ IF input # << >>
     THEN submitted' = input /\ input' = << >> /\ cursor' = CursorAfterReset
     ELSE submitted' = NoLine /\ UNCHANGED <<input, cursor>>
  /\ UNCHANGED width

(* The terminal is resized: the next draw uses another width. *)
Resize ==
  /\ width' \in Widths
  /\ submitted' = NoLine
  /\ UNCHANGED <<input, cursor>>

Init ==
  /\ input = << >>
  /\ cursor = 0
  /\ width \in Widths
  /\ submitted = NoLine

Next ==
  \/ \E c \in Chars : InputWrite(c)
  \/ InputRemove \/ InputRemovePrevious \/ InputMoveCursor \/ ClearInputToCursor
  \/ Enter \/ Resize

Spec == Init /\ [][Next]_vars

-----------------------------------------------------------------------------
(* Rendering. *)

(* Faulty variant: a row is left only by a character that takes columns. *)
BreaksIfWider(used, c) == used + CharWidth[c] > width
(* Faulty variant: a row is left only when it is full. *)
BreaksWhenFull(used, c) == used = width
(* The character starts a new row: this one is full, or too full for it. *)
Breaks(used, c) == (used # 0 /\ used = width) \/ used + CharWidth[c] > width

(* split_each: the rows completed, the row being filled and its columns *)
SplitStep(split, c) ==
  IF Breaks(split.used, c)
  THEN [rows |-> Append(split.rows, split.row), row |-> <<c>>, used |-> CharWidth[c]]
  ELSE [split EXCEPT !.row = Append(@, c), !.used = @ + CharWidth[c]]

SplitEach(text) ==
  LET split == FoldLeft(SplitStep, [rows |-> << >>, row |-> << >>, used |-> 0], text)
  IN  IF split.row = << >> THEN split.rows ELSE Append(split.rows, split.row)

(* Faulty variant: the column left empty by a wide character is not counted. *)
WrappedShort(x, w) == x - width
(* position.0 -= width - (char_width - 1) *)
Wrapped(x, w) == x - (width - (w - 1))

Advance(position, c) ==
  LET x == position[1] + CharWidth[c]
  IN  IF x = width THEN <<0, position[2] + 1>>
      ELSE IF x > width THEN <<Wrapped(x, CharWidth[c]), position[2] + 1>>
      ELSE <<x, position[2]>>

(* ui_input_cursor: <<column, row>> *)
UiInputCursor == FoldLeft(Advance, <<0, 0>>, SubSeq(input, 1, cursor))

(* Constraint::Length(1): draw_input_panel renders the rows from the first,
   without a scroll offset, into a panel of this height.                   *)
PanelRows == 1

-----------------------------------------------------------------------------
(* The cursor never leaves the text, so that no insert, remove or drain is
   out of bounds; the other variables stay in their ranges.                *)
TypeOK ==
  /\ input \in Seq(Chars) /\ Len(input) <= MaxLen
  /\ cursor \in 0 .. Len(input)
  /\ width \in Widths
  /\ submitted \in Seq(Chars)

Columns(text) == FoldLeft(LAMBDA n, c : n + CharWidth[c], 0, text)

(* The rows split_each returns hold the line, no character lost or repeated;
   each fits the panel's width, none is empty, and none is left while the
   next character still fits.  The panel shows the first of them.          *)
RowsAreGreedy ==
  LET rows == SplitEach(input)
  IN  /\ FlattenSeq(rows) = input
      /\ \A r \in DOMAIN rows : rows[r] # << >> /\ Columns(rows[r]) <= width
      /\ \A r \in 1 .. Len(rows) - 1 :
           LET used == Columns(rows[r])
           IN  used = width \/ used + CharWidth[rows[r + 1][1]] > width

(* The cell of the k-th character by the rows split_each returns. *)
CellOf(k) ==
  LET rows == SplitEach(input)
      Before(r) == Len(FlattenSeq(SubSeq(rows, 1, r - 1)))
      row == CHOOSE r \in DOMAIN rows : Before(r) < k /\ k <= Before(r) + Len(rows[r])
  IN  <<Columns(SubSeq(rows[row], 1, k - Before(row) - 1)), row - 1>>

(* The cursor's row and column are those split_each's rows, drawn or not,
   give the character it stands before, though the rows depend on the whole
   line and the cursor on what precedes it; only before a wide character
   that did not fit it stands on the column left empty.  It never leaves the
   panel's columns.  It is in the panel, behind the text before it, exactly
   while that text is narrower than the panel; after that it is set below,
   where no character of the line is drawn.                                *)
CursorFollowsRows ==
  /\ UiInputCursor[1] \in 0 .. width - 1
  /\ LET before == Columns(SubSeq(input, 1, cursor))
     IN  IF before < width THEN UiInputCursor = <<before, 0>>
                           ELSE UiInputCursor[2] >= PanelRows
  /\ cursor < Len(input) =>
       LET cell == CellOf(cursor + 1)
       IN  \/ UiInputCursor = cell
           \/ /\ CharWidth[input[cursor + 1]] = 2
              /\ cell[1] = 0
              /\ UiInputCursor = <<width - 1, cell[2] - 1>>

Editor == INSTANCE LineEditor WITH
            left <- SubSeq(input, 1, cursor),
            right <- SubSeq(input, cursor + 1, Len(input))

(* The line and an index into it behave like the text on both sides of a
   cursor: every key edits where the user sees the cursor, and Enter hands
   over the line whole.                                                    *)
ImplementsLineEditor == Editor!Spec

=============================================================================
