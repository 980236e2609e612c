CONSTANTS
  StartRound = 1
  AgreementSteps = {1, 2}
  Membership <- MCMembership
  CollectedCap = 1
  MaxRound = 2
  MaxResults = 3

SPECIFICATION Spec
INVARIANT StepFollowsResults
