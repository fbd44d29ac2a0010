\* Liveness: one source, one ticket project, crashes, shutdowns, failing writes.
CONSTANTS
  k1 = k1
  k2 = k2
  k3 = k3
  Sources = {"src"}
  Projects = {"P"}
  Calls = {k1, k2}
  MaxTag = 3
  MaxEpoch = 0
  MaxStops = 1
  Retractions = FALSE
  MidRunEdits = FALSE
SPECIFICATION FairSpec
PROPERTIES
  EventuallySettledOrReported
  KeepsLedger
