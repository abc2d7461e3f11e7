SPECIFICATION Spec
CONSTANTS
  OutBuffers = 2
  ListFrags = 3
  Loops = {"poll"}
  Kinds = {"list"}
  MaxOpen = 1
  ReplyLosses = {"back"}
  MaxRequests = 1
  MaxLosses = 1
  MaxRestarts = 0
PROPERTIES
  RepliesArrive
