SPECIFICATION IterSpec
CONSTANTS
  Cells <- MCCells
  Above <- MCAbove
  Level <- MCLevel
  RootLevel = 3
  Offset <- MCOffset
  Values = {0}
  Background = 0
  Child = Child
  Root = Root
  End = End
  Trees <- MCTrees
  GrainSize = 3
  MaxChanges = 1
  Regions <- NoRegions
  ModifyOps <- MCOps
  StateOps <- NoStateOps
PROPERTY KeepsTraversalContract
CHECK_DEADLOCK FALSE
