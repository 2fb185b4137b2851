SPECIFICATION Spec
CONSTANTS
  Reqs = {r1, r2}
  Names = {a}
  Texts = {v1, v2}
  Bad = Bad
  Stale = Stale
  Missing = Missing
  NoName = NoName
  Ops = {"create", "update", "raw", "delete"}
  MaxAtWork = 2
  Boot = FALSE
  Distinct = FALSE
  MayCrash = FALSE
  MayTear = FALSE
INVARIANTS TreeAdapts
