SPECIFICATION Spec
CONSTANTS
  FifoWords = 2
  FifoRoom = 2
  Pram <- PramUsed
  NoTail <- SkipTail
  EepWords = {0, 1, 2, 3, 4, 5}
  Commands <- SomeCommands
  Moves <- SomeMoves
  MaxRequests = 1
  MaxRestarts = 1
INVARIANTS
  PramIsWhole
  Answered
PROPERTIES
  
  ProcessReturns
  CommandAnswered
