SPECIFICATION FairSpec
CONSTANTS
  c1 = c1
  c2 = c2
  Conns = {c1, c2}
  CompressionStatic = TRUE
  MemoryCache = TRUE
  MaxFileSize = 2
  BlockSize = 2
  Mtime <- MCMtime
  Lengths <- MCLengths
  Asks <- MCAsks
  Keepers = {c1}
  MaxFiles = 2
  Word = 8
  Absent = Absent
  None = None
INVARIANTS
  TypeOK FreshLabel NotModifiedFresh CacheAuthentic
PROPERTIES
  Settles
