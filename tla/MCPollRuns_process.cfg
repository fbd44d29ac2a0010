\* A cron job and two requests compete for two rows across two stops of the process.
CONSTANTS
  r1 = r1
  r2 = r2
  n1 = n1
  n2 = n2
  q1 = q1
  q2 = q2
  Repos = {r1}
  Jobs = {"cron"}
  Requests = {q1, q2}
  Runs = {n1, n2}
  Parts = {"runs"}
  Intervals = {6}
  Invites = {1}
  Resets = {5}
  FirstSettings <- MCSettings
  MaxStops = 2
SPECIFICATION MCSpec
SYMMETRY StarterSymmetry
INVARIANTS OneRunAtATime RunningRowsExplained
PROPERTIES FinishedStays CleanStop
