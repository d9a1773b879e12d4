SPECIFICATION Spec
CONSTANTS
  None = None
  topic = topic
  Values <- MCValues
  MaxCommands = 1
  CommandLines <- MCCommandLines
INVARIANTS
  TypeOK
  LoopMeansDone
  RefusedWithoutRendezvous
  MethodsShownArePresent
\* Start-up ends in the event loop or with the program.
CHECK_DEADLOCK FALSE
