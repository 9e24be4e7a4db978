CONSTANTS
  Conv = conv
  width = width
  delay = delay
  matrix = matrix
  Stages = {delay, width, conv}
  Stage0 = delay
  UnknownBit = unknownBit
  NaN = nan
  DefaultOrder <- MCOrder
  RawOrders <- MCRawOrders
  Least <- MCLeast
  Most <- MCMost
  Fallback <- MCMost
  Initial <- MCInitial
  Limit <- MCLimit
  RawValues <- MCRawValues
  Keeps = {width, conv}
  Zeroes = {delay}
  RateLimited = {width}
  Rates = {1}
  Delaying = {delay, width}
SPECIFICATION Spec
INVARIANTS
  Safety
  EnabledRunsLatest
PROPERTIES
  QuietWhenUnchanged
