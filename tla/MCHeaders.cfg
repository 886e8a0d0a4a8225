SPECIFICATION Spec
CONSTANTS
  Word = 8
  MaxLen = 5
  Absent = Absent
  Available = {"deflate", "gzip", "br"}
  Unparsable = Unparsable
  Truncated = {251, 253, 502, 506, 511}
  NoCoding = NoCoding
  Tokens = {"*", "gzip", "deflate", "BROTLI", "zstd"}
  Weights <- MCWeights
  MaxOffers = 3
CHECK_DEADLOCK FALSE
INVARIANTS
  RangeExact
  RangeHonoured
  
  
