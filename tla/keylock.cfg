SPECIFICATION FairSpec
CONSTANTS
  Procs = {g1, g2, g3}
  Keys = {k1, k2}
  Entries = {e1, e2, e3, e4}
  Nobody = Nobody
  NoKey = NoKey
  Nil = Nil
INVARIANTS MutualExclusion EntriesInUse
PROPERTIES ImplementsKeyMutex CallerGetsLock
