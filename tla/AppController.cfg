SPECIFICATION Spec
CONSTANTS
  Impulses = {ir1}
  NoImpulse = noImpulse
  NoFile = noFile
  Bodies <- MCBodies
  MaxOps = 2
  MaxStarts = 2
  MaxFaults = 1
INVARIANTS
  AppliedOnce
  NamedBlobExists
  
PROPERTIES
  NothingLostOnQuit
  ChangesReachTheObject
CHECK_DEADLOCK FALSE
