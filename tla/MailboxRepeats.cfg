SPECIFICATION FairSpec
CONSTANTS
  OutBuffers = 2
  ListFrags = 2
  Loops = {"poll"}
  Kinds = {"badheader", "foreign", "short", "service", "other", "hold", "refused", "info", "list", "unmatched"}
  MaxOpen = 2
  ReplyLosses = {"back", "there"}
  MaxRequests = 2
  MaxLosses = 2
  MaxRestarts = 1
INVARIANTS
  BufferAccounting
PROPERTIES
  RepliesInOrder
  AnswersOpenRequest
  RepeatAcknowledged
