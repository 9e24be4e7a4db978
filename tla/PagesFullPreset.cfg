SPECIFICATION PagesSpec
CONSTANTS
  OldFiles <- MCOldFiles
  NoFile = noFile
  NoFullPreset = noFullPreset
  Volumes <- MCVolumes
  Pages <- MCPages
  Rows = {1, 10, 20}
  MaxEdits = 2
  MaxStarts = 2
  kMaxBands = 3
  DefaultFrequencies <- MCDefaultFrequencies
  FixedFrequencies <- MCFixedFrequencies
  FileNames <- MCNames
  Typed <- MCTyped
  Noise = "Last Configuration"
  NoName = "none"
  NoPreset = noPreset
  PeaceFiles <- MCPeaceFiles
  PeaceStarts <- MCPeaceStarts
  Database <- MCDatabase
  Values <- MCValues
  MaxChanges = 3
  OwnFile = "dreamdsp.txt"
  OtherTexts <- MCOtherTexts
  kAttempts = 8
  MaxWrites = 4
PROPERTIES
  FullPresetKeeps
CHECK_DEADLOCK FALSE
