CONSTANTS
  h1 = h1
  Hashes = {h1}
  ZeroHash = ZeroHash
  NilEvent = NilEvent
  StartRound = 1
  MaxRound = 2
  MaxStep = 2
  MaxVotes = 2

SPECIFICATION Spec
PROPERTY SelectionReduced
