\* One source with releases only ever added; the ticket project may change at any moment.
CONSTANTS
  k1 = k1
  k2 = k2
  k3 = k3
  Sources = {src}
  Projects = {P, Q}
  Calls = {k1, k2, k3}
  MaxTag = 4
  MaxEpoch = 1
  MaxStops = 1
  Retractions = FALSE
  MidRunEdits = TRUE
SPECIFICATION Spec
SYMMETRY IdentitySymmetry
INVARIANTS
  OneRequestPerRelease
  NoTicketForgotten
  NoOrphanedSupersede
