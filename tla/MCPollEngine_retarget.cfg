\* The target changes between two polls; releases may be withdrawn and published again.
CONSTANTS
  k1 = k1
  k2 = k2
  k3 = k3
  Sources = {srcA, srcB}
  Projects = {P, Q}
  Calls = {k1, k2}
  MaxTag = 2
  MaxEpoch = 1
  MaxStops = 0
  Retractions = TRUE
  MidRunEdits = FALSE
SPECIFICATION Spec
SYMMETRY IdentitySymmetry
INVARIANT OpenTicketInProject
PROPERTIES
  NoTicketBeforeBaseline
  KnownOnlyWhenHandled
