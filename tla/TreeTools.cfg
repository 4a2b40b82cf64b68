SPECIFICATION ToolsSpec
CONSTANTS
  NumKeys = 3
  Cells <- MCCells
  Above <- MCAbove
  Level <- MCLevel
  RootLevel = 2
  Offset <- MCOffset
  Before <- MCBefore
  Neighbours <- MCNeighbours
  Edge <- MCEdge
  Values <- MCValues
  Background = 1
  Child = Child
  Tolerances = {0, 1}
  Widths <- MCWidths
  Trees <- MCTrees
  MaxCalls = 1
  Regions <- NoFunctions
  ModifyOps <- NoFunctions
  StateOps <- NoFunctions
INVARIANTS PruneMeetsContract LevelSetToolsMeetContract
CHECK_DEADLOCK FALSE
