\* Five publications over three slots, so that the slot a reader is in is overwritten
\* under it, and one read sees it come round again.
SPECIFICATION FairSpec
CONSTANTS
  kSlots = 3
  StampMod = 16
  Words = {w1, w2}
  MaxPublish = 5
INVARIANTS
  SlotInv
PROPERTIES
  ImplementsRegister
  Delivery
