SPECIFICATION SignalSpec
CONSTANTS
  NaN = NaN
  Lanes = {1, 2}
  Frames <- MCFrames
  LimiterParams <- MCLimiterParams
  kMaxLookahead = 3
  IntMax = 3
  Unity = 16
  MaxFrames = 6
  MaxTurns = 1
  Wires = {1, 2}
  Inputs <- MCInputs
  Matrices <- MCMatrices
  Delays <- MCDelays
  kMaxDelay = 3
  BlockSizes = {1, 2}
  MaxSamples = 5
  MaxSwitches = 1
  Programmes <- MCProgrammes
  Lufs <- MCLufs
  LevellerParams <- MCLevellerParams
  BlockBuffers = 2
  WindowBlocks = 2
  Enough = 18
  NightParams <- MCNightParams
  NightLevels <- MCNightLevels
  Retained <- MCRetained
  EnoughTicks = 8
  EqBands <- MCEqBands
  kMaxEqBands = 2
  SampleRates = {8, 16}
  Requests <- MCRequests
  ConvSamples <- MCConvSamples
  NoResponse = NoResponse
  ConvBlock = 2
  Depth = 3
  MaxFed = 8
  MaxSwaps = 2
  Hits <- MCHits
  Silent = Silent
  Quieter = 24
  TransientParams <- MCTransientParams
  Rates <- MCRates
  MaxStepDb = 8
  kMaxGainDb = 18
  Relative = 60
  kHardFloorDb <- MCHardFloorDb
  MaxHits = 5
  MaxKnobs = 1
  MaxHeld = 2
INVARIANTS
  LimiterKeepsItsWord
  
  GainsAreFollowed
  FiltersAreCurrent
  ConvolvesExactly
  LevelIndependent
  PointersAreGood
CHECK_DEADLOCK FALSE
