CONSTANTS
  Names    <- MCNames
  Root     = ""
  Normal   <- MCNormal
  IPs      = {"ip1", "ip6"}
  TTLs     = {0, 90, 300}
  Messages <- ChainMessages
  Rules    = {"r1", "r2"}
  NoRule   = "none"
  Match    <- MCMatch
  Sets     = {"s4", "s6", "t4"}
  NoSet    = "none"
  SetOf    <- MCSetOf
  Flags    <- MCFlags
  MaxAnswers = 3
  Owners   = {"a", "b", "C"}
  Targets  = {"b", "c"}
SPECIFICATION Spec
INVARIANT
  ChainLookedUp
