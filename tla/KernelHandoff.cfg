\* Three kernels, so that one can be in use while two more are on their way, two stream
\* geometries, and a crossfade with one step strictly between dry and wet.
SPECIFICATION FairSpec
CONSTANTS
  Kernels = {k1, k2, k3}
  NoKernel = NoKernel
  Geometries = {g1, g2}
  FadeSteps = 2
INVARIANTS
  HandoffInv
PROPERTIES
  
  TakenIsInstalled
