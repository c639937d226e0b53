CONSTANTS
  a = a
  b = b
  broken = broken
  Contents = {a, b, broken}
  Valid = {a, b}
  NRules <- MCNRules
  Absent = Absent
  Others = {}
  QCap = 4
  MaxChanges = 2
  MaxHups = 1
SPECIFICATION Spec
PROPERTY Converges
