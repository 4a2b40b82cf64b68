SPECIFICATION Spec
CONSTANTS
  NumKeys = 1
  Depth = 3
  Cells <- MCCells
  Above <- MCAbove
  Level <- MCLevel
  RootLevel = 3
  Trees = {t1, t2}
  Accessors = {a1, a2}
  CacheLevels <- OuterLevels
  None = None
SYMMETRY Symmetry
INVARIANT NoDanglingCache
