\* Two repos and one run, cut short at any step by a crash or a shutdown, under
\* the fairness of the scheduler and the restarts; the settings with few values. No
\* symmetry, for the liveness.
CONSTANTS
  r1 = r1
  r2 = r2
  n1 = n1
  n2 = n2
  q1 = q1
  q2 = q2
  Repos = {r1, r2}
  Jobs = {"cron"}
  Requests = {q1}
  Runs = {n1}
  Parts = {"runs", "settings"}
  Intervals = {4, 6}
  Invites = {1}
  Resets = {5}
  FirstSettings <- MCSettings
  MaxStops = 1
SPECIFICATION MCFairSpec
INVARIANTS StatusTellsTheTruth FinishedRunAddsUp
PROPERTIES PollingEnds EveryRunFinishes ScheduleFollows
