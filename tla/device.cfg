SPECIFICATION Spec
CONSTANTS
  Requests = {r1, r2, r3}
  Bodies <- DeviceBodies
  Pins <- MCPins
  Wired <- MCWired
  Times = {0, 1, 2}
  Epoch = 0
  Duties = {1, 2}
  LedPins = {2, 34}
  OutputPins = {2}
  HeapBlocks = 6
  MaxBoots = 1
  NoBody = NoBody
  NoReq = NoReq
SYMMETRY RequestSymmetry
INVARIANTS TypeOK AtMostOnce HandlerOwnsMessage IInv
           ReadYourWrite LedAsAnswered DriverReady
PROPERTIES ImplementsService
