SPECIFICATION FairSpec
CONSTANTS
  Requests = {r1, r2}
  Bodies <- MixedBodies
  Pins <- MCPins
  Wired <- MCWired
  Times = {0, 1}
  Epoch = 0
  Duties = {1}
  LedPins = {2}
  OutputPins = {2}
  HeapBlocks = 5
  MaxBoots = 1
  NoBody = NoBody
  NoReq = NoReq
PROPERTIES Settled AnsweredUnlessLinkLost Resubscribed
