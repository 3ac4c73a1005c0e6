SPECIFICATION Spec
CONSTANTS
  c1 = c1
  c2 = c2
  c3 = c3
  k1 = k1
  k2 = k2
  s1 = s1
  s2 = s2
  s3 = s3
  p1 = p1
  p2 = p2
  Callers = {c1, c2, c3}
  Codes = {k1, k2}
  Specs = {s1, s2, s3}
  Resolvable = {s1, s2}
  Runnable = {s1}
  Sources = {p1, p2}
  Documents <- FiveDocuments
  MaxFaults <- UnevenFaults
  None = None
INVARIANTS
  TypeOK
  FailuresLeaveNoHalfRun
  ResultsAreReproducible
PROPERTIES
  CallsReturn
CHECK_DEADLOCK FALSE
