SPECIFICATION ArchiveSpec
CONSTANTS
  Files = {f, g}
  Lists <- NumberedLists
  Rewrites <- NumberedLists
  Alphabet <- MCAlphabet
  Anonymous <- None
  Queries <- MCQueries
  MaxWrites = 1
  MaxStale = 0
  Whole = Whole
  Nothing = Nothing
SYMMETRY MCSymmetry
INVARIANT NumberedFound
