SPECIFICATION FairSpec
CONSTANTS
  Kind <- MCKind
  Target <- MCTarget
  Root <- top
  IndexFiles <- MCIndexFiles
  DotNames = {".h"}
  MaxLinks = 1
  Missing = Missing
  Trees <- MCTrees
  Requests <- MCRequests
  OptionSets <- MCOptions
  Volatile <- MCVolatile
  MaxChanges = 1
CHECK_DEADLOCK FALSE
INVARIANTS
  ListingAgrees IndexInOrder ArchiveFaithful
PROPERTIES
  TaskEnds
