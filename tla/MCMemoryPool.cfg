\* Slots aligned more strictly than operator new aligns: a block starts at either
\* of two offsets, and has three slots.
CONSTANTS
  BlockSize = 144
  SlotSize = 32
  Align = 32
  PtrSize = 8
  NewAlign = 16
  MaxBlocks = 2
  Null = Null
  Contents = {d, e}
  Chunks = {b1, b2, b3}
  Sizes = {1, 2}
  Units = 2
  root = root
SPECIFICATION MCSpec
INVARIANTS SlotsInv GrowthBounded StackInv LeakInv
PROPERTIES ImplementsStack EverythingReleased
\* Nothing is left to do once the pool has been destroyed.
CHECK_DEADLOCK FALSE
