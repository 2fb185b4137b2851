SPECIFICATION Spec
CONSTANTS
  Reqs = {r1}
  Names = {a, b}
  Texts = {v1, v2}
  Bad = Bad
  Stale = Stale
  Missing = Missing
  NoName = NoName
  Ops = {"create", "update", "raw", "delete"}
  MaxAtWork = 1
  Boot = TRUE
  Distinct = TRUE
  MayCrash = TRUE
  MayTear = TRUE
INVARIANTS  RenameKeepsApp
