SPECIFICATION FairSpec
CONSTANTS
  Messages <- MCMessages
  DataSize = 10
  Chunk = 2
  LineRoom = 16
  Times = 2
  MaxSends = 2
  MaxNoise = 1
CHECK_DEADLOCK FALSE
INVARIANTS
  TypeOK
  FramesAreRuns
  CleanLineDelivers
PROPERTY MessagesArrive
