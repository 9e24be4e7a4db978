CONSTANTS
  Conv = conv
  width = width
  delay = delay
  matrix = matrix
  Stages = {delay, matrix, conv}
  Stage0 = delay
  UnknownBit = unknownBit
  NaN = nan
  DefaultOrder <- MCOrder
  RawOrders <- MCRawOrders
  Least <- MCLeast
  Most <- MCMost
  Fallback <- MCMost
  Initial <- MCInitial
  Limit <- MCLimit
  RawValues <- MCRawValues
  Keeps = {conv}
  Zeroes = {delay}
  RateLimited = {}
  Rates = {1}
  Delaying = {delay}
SPECIFICATION Spec
INVARIANT InstallsWhatItIsGiven
