SPECIFICATION Spec
CONSTANTS
  Reqs = {r1, r2}
  Keys = {k1}
  Passwords = {p1, p2}
  EnvHashes = {NoHash, Malformed, p1}
  Ops = {"unlock", "change", "setup", "status"}
  MayReset = FALSE
  MaxFailures = 2
  LockoutBase = 1
  LockoutMax = 2
  FailureCap = 4
  MaxVerifies = 1
  Inodes = {i1, i2, i3}
  MaxTime = 2
  MaxTokens = 3
  NoHash = NoHash
  Malformed = Malformed
  Nobody = Nobody
  NoFile = NoFile
SYMMETRY ReqSymmetry
INVARIANTS   GateInv NoGuessUnderLockout
PROPERTIES SetupNeverOverwrites Throttled
