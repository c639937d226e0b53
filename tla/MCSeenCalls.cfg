\* Three workers, a cache of two entries and three hashes: eviction, expiry
\* and every interleaving of Get and Add.
CONSTANTS
  Workers = {w1, w2, w3}
  p1 = p1
  p2 = p2
  p3 = p3
  k1 = k1
  k2 = k2
  k3 = k3
  Payloads = {p1, p2, p3}
  Keys = {k1, k2, k3}
  Fnv <- MCFnv
  None = None
  Size = 2
  Window = 2
  MaxTime = 3
  MaxCalls = 4
SPECIFICATION Spec
SYMMETRY Symmetry
INVARIANTS DedupTypeOK SuppressionJustified
PROPERTY DuplicateRecognised
CHECK_DEADLOCK FALSE
