\* A changed ticket project is undone by the poll in progress.
CONSTANTS
  k1 = k1
  k2 = k2
  k3 = k3
  Sources = {src}
  Projects = {P, Q}
  Calls = {k1, k2}
  MaxTag = 2
  MaxEpoch = 1
  MaxStops = 0
  Retractions = FALSE
  MidRunEdits = TRUE
SPECIFICATION Spec
INVARIANT OpenTicketInProject
