SPECIFICATION MergeSpec
CONSTANTS
  Cells <- MCCells
  Above <- MCAbove
  Level <- MCLevel
  RootLevel = 2
  Values <- Bands
  Background = 1
  Child = Child
  Regions <- NoFunctions
  ModifyOps <- NoFunctions
  StateOps <- NoFunctions
  Starts <- FewStarts
  CombineOps <- MCOps
  CopyValues <- Bands
  Thirds <- NoThirds
  Offset <- MCOffset
  MaxCalls = 1
  Tolerances <- NoTolerances
INVARIANT MergeFollowsBackground
