CONSTANTS
  StartHeight = 0
  BidExpiries = {1, 2}
  RegenRounds = {1, 2}
  MaxBlocks = 2
  MaxRegens = 2
  MaxBids = 1
  MaxWinning = 1

SPECIFICATION Spec
INVARIANT TypeOK
