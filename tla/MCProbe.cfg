\* Three calls on two CPUs, two hooks at once on a CPU.
CONSTANTS
  d = d
  CPUs = {c1, c2}
  Tasks = {t1, t2}
  Sockets <- MCSockets
  Datagrams = {d}
  Blank = Blank
  SizeOf <- MCSizeOf
  BufLen = 3
  MAX_PAYLOAD = 2
  RingCap = 1
  MaxDepth = 2
  MaxCalls = 3
SPECIFICATION ProbeSpec
SYMMETRY Symmetry
CHECK_DEADLOCK FALSE
INVARIANTS RecordIntact 
