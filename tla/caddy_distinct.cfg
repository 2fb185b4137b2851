SPECIFICATION Spec
CONSTANTS
  Reqs = {r1, r2}
  Names = {a, b, c}
  Texts = {v1}
  Bad = Bad
  Stale = Stale
  Missing = Missing
  NoName = NoName
  Ops = {"create", "update", "raw", "delete"}
  MaxAtWork = 2
  Boot = FALSE
  Distinct = TRUE
  MayCrash = FALSE
  MayTear = FALSE
INVARIANTS TreeAdapts AnswersMatchDisk
SYMMETRY Symmetry
