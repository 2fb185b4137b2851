SPECIFICATION FairSpec
CONSTANTS
  Conns = {c1, c2}
  Keys = {k1, k2}
  Operators = {o1}
  MaxSlots = 1
  Window = 2
  MaxTime = 3
INVARIANTS CapBoundsResources BridgeInv
PROPERTIES NoQuickReturn 
CHECK_DEADLOCK FALSE
