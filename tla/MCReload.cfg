\* Both reloaders: a SIGHUP while another is buffered or being served, a file
\* that breaks and is mended, and a queue that overflows.
CONSTANTS
  a = a
  b = b
  broken = broken
  Contents = {a, b, broken}
  Valid = {a, b}
  NRules <- MCNRules
  Absent = Absent
  Others = {"tmp"}
  QCap = 1
  MaxChanges = 2
  MaxHups = 2
SPECIFICATION Spec
INVARIANTS TypeOK StoreValid GaugeAgrees
PROPERTIES NeverRegresses WatcherConverges HupServed
