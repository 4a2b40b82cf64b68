SPECIFICATION MergeSpec
CONSTANTS
  Cells <- MCCells
  Above <- MCAbove
  Level <- MCLevel
  RootLevel = 2
  Values <- MCValues
  Background = 1
  Child = Child
  Regions <- NoFunctions
  ModifyOps <- NoFunctions
  StateOps <- NoFunctions
  Starts <- MCStarts
  CombineOps <- MCOps
  CopyValues <- Sides
  Thirds <- MCThirds
  Offset <- MCOffset
  MaxCalls = 1
  Tolerances <- NoTolerances
INVARIANTS
  PairTypeOK TopologyMeetsContract MergeMeetsContract CombineMeetsContract
  MergeToolsMeetContract
CHECK_DEADLOCK FALSE
