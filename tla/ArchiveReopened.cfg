SPECIFICATION ArchiveSpec
CONSTANTS
  Files = {f, g}
  Lists <- NamedLists
  Rewrites <- NamedLists
  Alphabet <- MCAlphabet
  Anonymous <- None
  Queries <- MCQueries
  MaxWrites = 1
  MaxStale = 2
  Whole = Whole
  Nothing = Nothing
SYMMETRY MCSymmetry
INVARIANT NamedOnce
