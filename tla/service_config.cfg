SPECIFICATION Spec
CONSTANTS
  Reqs = {r1, r2}
  Names = {n1}
  Vals = {v1}
  Lists = {"global", "forwards", "publish", "users"}
  Apart = {"tinyauth"}
  MayFail = TRUE
  Absent = Absent
  Legacy = Legacy
  Whole = Whole
  Unread = Unread
  Nobody = Nobody
INVARIANTS ServiceInv  EnvIsStored
PROPERTIES EditsKept
SYMMETRY ReqSymmetry
