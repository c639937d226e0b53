\* Three calls of two tasks, a ring buffer for two records.  The buffers of
\* udp_recvmsg are larger than a record has room for.
CONSTANTS
  d = d
  CPUs = {c1}
  Tasks = {t1, t2}
  Sockets <- Server
  Datagrams = {d}
  Blank = Blank
  SizeOf <- MCSizeOf
  BufLen = 3
  MAX_PAYLOAD = 2
  RingCap = 2
  MaxDepth = 1
  MaxCalls = 3
  MaxConns = 1
SPECIFICATION Spec
INVARIANTS TypeOK DeliveredInOrder NewAllOrNothing ClosedAfterUse
PROPERTIES SignalStops EventuallyDelivered
