SPECIFICATION FairSpec
CONSTANTS
  OutBuffers = 2
  ListFrags = 2
  Loops = {"poll", "dc"}
  Kinds = {"service", "foreign", "hold", "refused", "info", "list"}
  MaxOpen = 2
  ReplyLosses = {}
  MaxRequests = 3
  MaxLosses = 0
  MaxRestarts = 1
PROPERTIES
  RepliesArrive
  EveryRequestAnswered
