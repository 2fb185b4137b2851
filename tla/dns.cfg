SPECIFICATION FairSpec
CONSTANTS
  Reqs = {r1, r2}
  Releases = {s1, s2}
  Edits = {e}
  Vals = {v}
  Default = Default
  MaxFaults = 2
  NoFile = NoFile
  Torn = Torn
  NoHash = NoHash
  Nobody = Nobody
INVARIANTS
  TypeOK
  NoSilentStale
  HostsServed
PROPERTIES
  EditsSurvive
  UpdateReaches
CHECK_DEADLOCK FALSE
