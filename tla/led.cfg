SPECIFICATION Spec
CONSTANTS
  Requests = {r1, r2}
  Bodies <- AckBodies
  Pins <- MCPins
  Wired <- MCWired
  Times = {0, 1}
  Epoch = 0
  Duties = {1}
  LedPins = {2, 34}
  OutputPins = {2}
  HeapBlocks = 8
  MaxBoots = 0
  NoBody = NoBody
  NoReq = NoReq
SYMMETRY RequestSymmetry
INVARIANTS LedAchieved
