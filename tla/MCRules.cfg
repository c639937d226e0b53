CONSTANTS
  Labels  <- MCLabels
  Lower   <- MCLower
  Sets    = {"s4", "s6"}
  NoSet   = "none"
  Null    = Null
  Files   <- MCFiles
  Queries <- MCQueries
  MaxRules = 3
SPECIFICATION Spec
INVARIANTS
  TypeOK
  LookupExact
  WarningsExact
