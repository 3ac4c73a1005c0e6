SPECIFICATION Spec
CONSTANTS
  c1 = c1
  c2 = c2
  c3 = c3
  r1 = r1
  r2 = r2
  r3 = r3
  Callers = {c1, c2, c3}
  Requests = {r1, r2, r3}
  References = 3
  Provider = 2
  Manifests <- AllManifests
  Documents <- MixedDocuments
  MaxFaults <- OneFaulty
  None = None
INVARIANTS
  TypeOK
  HistoriesAreChains
  SucceededIsStored
PROPERTIES
  OnlySucceededWrites
  HistoryIsAppendOnly
  SuccessMeansResolvable
  BatchesEnd
CHECK_DEADLOCK FALSE
