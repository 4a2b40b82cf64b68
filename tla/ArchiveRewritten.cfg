SPECIFICATION ArchiveSpec
CONSTANTS
  Files = {f, g}
  Lists <- SharedThenOwn
  Rewrites <- SharedThenOwn
  Alphabet <- MCAlphabet
  Anonymous <- None
  Queries <- MCQueries
  MaxWrites = 2
  MaxStale = 2
  Whole = Whole
  Nothing = Nothing
SYMMETRY MCSymmetry
INVARIANT OpenFileComplete
