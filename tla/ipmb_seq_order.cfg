SPECIFICATION OrderSpec
CONSTANTS
  SEQ_NUM_MAX = 4
  Handler = {h1, h2, h3}
  MaxReq = 1
  NULL = NULL
  MaxTokens = 1
CONSTRAINT TokenBound
SYMMETRY Symmetry
INVARIANTS
  ReuseDistance
