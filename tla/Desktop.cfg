SPECIFICATION DesktopSpec
CONSTANTS
  Devices = {d1, d2}
  All = all
  NoCurve = noCurve
  Careful = TRUE
  MaxEdits = 2
  MaxStarts = 2
  MaxPlugs = 1
  Version <- MCVersion
  Releases <- MCReleases
  NoRelease = noRelease
  MaxAnswers = 5
  Outputs = {o1, o2}
  MaxEvents = 3
  MaxSwitches = 4
  Actions = {bypass, show}
  Combos = {k1, k2}
  NoKey = noKey
  Nobody = nobody
  Another = another
  MaxBinds = 4
  Processes = {p1, p2, p3}
  MaxCloses = 3
INVARIANTS
  OneRelease
  ShownIsWhatFires
PROPERTIES
  
  GoesDark
  QuitEnds
  SecondStartShows
CHECK_DEADLOCK FALSE
