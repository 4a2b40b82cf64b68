SPECIFICATION ArchiveSpec
CONSTANTS
  Files = {f, g}
  Lists <- MCLists
  Rewrites <- Again
  Alphabet <- MCAlphabet
  Anonymous <- None
  Queries <- MCQueries
  MaxWrites = 2
  MaxStale = 2
  Whole = Whole
  Nothing = Nothing
SYMMETRY MCSymmetry
INVARIANTS ArchiveTypeOK GridsMeetContract SharingMeetsContract
