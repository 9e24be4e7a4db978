\* Three streams and a table of two, so that one of them finds it full.
SPECIFICATION Spec
CONSTANTS
  Instances = {a1, a2, a3}
  None = None
  kMaxOwners = 2
  Rates = {r1}
  Irs = {ir1, ir2}
  Refused = {ir2}
  MaxWrites = 1
SYMMETRY Symmetry
INVARIANTS
  ChannelInv
  SingleWriter
