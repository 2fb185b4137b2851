--------------------------- MODULE MCVncRegistry ---------------------------
EXTENDS VncRegistry, TLC

Symmetry == Permutations(Names) \cup Permutations(Addrs)
=============================================================================
