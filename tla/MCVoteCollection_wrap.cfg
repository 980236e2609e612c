CONSTANTS
  k1 = k1
  k2 = k2
  k3 = k3
  h1 = h1
  h2 = h2
  Keys = {k1, k2, k3}
  Committee <- MCHeavyCommittee
  Threshold = 250
  Hashes = {h1, h2}
  ZeroHash = ZeroHash
  NilHash = NilHash
  Rounds = {1}
  Steps = {1}
  InputCap = 2
  MaxSent = 2

SPECIFICATION Spec
CHECK_DEADLOCK FALSE
INVARIANT QuorumDecided
