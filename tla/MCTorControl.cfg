SPECIFICATION Spec
CONSTANTS
  MaxCommands = 3
  MaxEvents = 2
INVARIANTS
  TypeOK
  LagIsStrays
  SuccessIsWhole
  RepliesInOrder
PROPERTY CommandReturns
\* No command is sent past the bound.
CHECK_DEADLOCK FALSE
