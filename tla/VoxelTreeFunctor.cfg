SPECIFICATION Spec
CONSTANTS
  NumKeys = 1
  Depth = 3
  Cells <- MCCells
  Above <- MCAbove
  Level <- MCLevel
  RootLevel <- MCRootLevel
  Values <- Sides
  Background = 1
  Child = Child
  Regions <- MCRegions
  ModifyOps <- Negations
  StateOps <- MCStateOps
INVARIANT FunctorApplied
