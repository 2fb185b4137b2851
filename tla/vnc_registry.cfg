SPECIFICATION Spec
CONSTANTS
  Names = {a, b, c}
  Addrs = {x, y}
  NoTarget = NoTarget
  NoRoute = NoRoute
  NoOp = NoOp
INVARIANTS RoutesInLockstep RegistryInv
PROPERTIES StrangersKept StoredIsServed
SYMMETRY Symmetry
