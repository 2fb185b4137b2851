SPECIFICATION FairSpec
CONSTANTS
  Reqs = {r1, r2}
  Keys = {k1, k2}
  Passwords = {p1, p2}
  EnvHashes = {NoHash}
  Ops = {"unlock", "setup"}
  MayReset = TRUE
  MaxFailures = 1
  LockoutBase = 1
  LockoutMax = 3
  FailureCap = 3
  MaxVerifies = 1
  Inodes = {i1}
  MaxTime = 0
  MaxTokens = 2
  NoHash = NoHash
  Malformed = Malformed
  Nobody = Nobody
  NoFile = NoFile
INVARIANTS TokenSingleUse SlotsConserved
PROPERTIES EveryRequestAnswered
