\* Two workers meet two sets that come and go; the clock passes the minute.
CONSTANTS
  s = s
  t = t
  enoent = enoent
  named = named
  busy = busy
  Workers = {w1, w2}
  Sets = {s, t}
  InName <- MCInName
  NotFound = {enoent, named}
  Failures = {busy}
  InText <- MCInText
  NilIP = NilIP
  NoError = NoError
  NoOne = NoOne
  Never = Never
  Minute = 2
  MaxTime = 2
  MaxCalls = 3
SPECIFICATION Spec
INVARIANTS TypeOK LogSpacing MissReported Accounted
PROPERTY CallsReturn
