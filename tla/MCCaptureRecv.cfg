\* One task that receives from an upstream resolver, on one CPU.
CONSTANTS
  d = d
  CPUs = {c1}
  Tasks = {t1}
  Sockets <- Upstream
  Datagrams = {d}
  Blank = Blank
  SizeOf <- MCSizeOf
  BufLen = 3
  MAX_PAYLOAD = 2
  RingCap = 1
  MaxDepth = 1
  MaxCalls = 1
  MaxConns = 0
SPECIFICATION Safety
PROPERTY ReplyCaptured
