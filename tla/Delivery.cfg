SPECIFICATION FairSpec
CONSTANTS
  Cards = {1, 2}
  Moderators = {m}
  Digest = Digest
  None = None
  Important = {1, 2}
  ClusterOf <- PairAndSingle
  Limit = 1
  MaxPosts = 2
  MaxFaults = 2
INVARIANTS
  MarkedMeansSent
  DuplicateNeedsFault
PROPERTIES
  DigestReaches
