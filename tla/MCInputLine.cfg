CONSTANTS
  Chars <- MCChars
  CharWidth <- MCCharWidth
  Widths = {3, 4, 5}
  MaxLen = 7
SPECIFICATION Spec
INVARIANTS TypeOK RowsAreGreedy CursorFollowsRows
PROPERTY ImplementsLineEditor
