SPECIFICATION Spec
CONSTANTS
  NumKeys = 1
  Depth = 3
  Cells <- MCCells
  Above <- MCAbove
  Level <- MCLevel
  RootLevel <- MCRootLevel
  Values <- Sides
  Background = 1
  Child = Child
  Regions <- MCRegions
  ModifyOps <- Negations
  StateOps <- MCStateOps
INVARIANTS
  TypeOK VoxelOpsMeetContract FunctorSkippedByGuessOnly RegionOpsMeetContract
  StorageIsTransparent
PROPERTIES KeepsPromise BackgroundMeetsContract
