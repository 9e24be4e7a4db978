SPECIFICATION Spec
CONSTANTS
  Ours = ours
  Free = free
  Absent = absent
  Others = {other}
  audiosrv = audiosrv
  realtek = realtek
  aarsvc = aarsvc
  Audiosrv = audiosrv
  Dependents = {realtek, aarsvc}
  Needs <- MCNeeds
  MaxHelpers = 2
  MaxTimeouts = 1
  MaxWrites = 1
  MaxOps = 2
  MaxFaults = 1
INVARIANTS
  
  LeftAsSaid
PROPERTIES
  OthersAreLeftAlone
  AudioReturns
CHECK_DEADLOCK FALSE
