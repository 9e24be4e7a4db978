\* Two streams and no impulse response, and three writes for the race of stat, open and read.
SPECIFICATION FairSpec
CONSTANTS
  Instances = {a1, a2}
  None = None
  kMaxOwners = 2
  Rates = {r1}
  Irs = {}
  Refused = {}
  MaxWrites = 3
PROPERTIES
  ParamsReachStreams
  ReleaseReturns
