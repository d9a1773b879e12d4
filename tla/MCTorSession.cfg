SPECIFICATION SessionSpec
CONSTANTS
  MaxCommands = 6
  MaxEvents = 0
INVARIANT SessionTypeOK
PROPERTY ImplementsOnionCreation
\* No creation begins past the bound.
CHECK_DEADLOCK FALSE
