CONSTANTS
  MinimumStake = 100
  Thresholds = {0, 1, 2, 4, 5}
  Stakes = {99, 100, 200}
  TotalStakes = {0, 4}
  Levels = {61, 151, 251}
  MaxPos = 201
SPECIFICATION FairSpec
INVARIANT TypeOK
INVARIANT VotesMatchReference
PROPERTY ReturnsInRange
CHECK_DEADLOCK FALSE
