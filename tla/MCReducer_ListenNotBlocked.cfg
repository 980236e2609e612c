CONSTANTS
  k1 = k1
  k2 = k2
  k3 = k3
  h1 = h1
  Keys = {k1, k2, k3}
  Me = k1
  Committee <- MCCommittee
  Threshold = 2
  Hashes = {h1}
  ZeroHash = ZeroHash
  NilHash = NilHash
  Rounds = {1}
  Steps = {1, 2}
  NetMsgs <- MCNetMsgs
  InputCap = 1
  MaxNet = 3
  MaxSelections = 0
  MaxWinning = 0

SPECIFICATION FairSpec
PROPERTY ListenNotBlocked
CHECK_DEADLOCK FALSE
