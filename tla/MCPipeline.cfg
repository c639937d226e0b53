CONSTANTS
  Workers = {w1, w2}
  p1 = p1
  p2 = p2
  q = q
  k1 = k1
  k2 = k2
  kq = kq
  A = A
  B = B
  x = x
  y = y
  z = z
  Payloads = {p1, q}
  Keys = {k1, kq}
  Fnv <- MCFnv
  None = None
  Size = 2
  Window = 1
  MaxTime = 1
  Malformed = {q}
  RuleSets = {A, B}
  Entries = {x, y, z}
  Plan <- MCPlan
  Cap = 1
  MaxReads = 2
SPECIFICATION Spec
INVARIANTS TypeOK NoSendOnClosed ExactlyOnce DrainedAtReturn DuplicateHasTwin FreshSnapshot DispatchComplete
PROPERTIES ShutdownCompletes EventuallyHandled Delivers
