\* A release is withdrawn and published again.
CONSTANTS
  k1 = k1
  k2 = k2
  k3 = k3
  Sources = {src}
  Projects = {P}
  Calls = {k1, k2, k3}
  MaxTag = 3
  MaxEpoch = 0
  MaxStops = 0
  Retractions = TRUE
  MidRunEdits = FALSE
SPECIFICATION Spec
PROPERTY UnclearNeverRepeated
