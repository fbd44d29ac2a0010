\* Both roadmaps; two runs of the import of a small one; five commits on main.
CONSTANTS
  Epics <- MCEpics
  Leaves <- MCLeaves
  Plans <- MCPlans
  Foreign = 1
  LooseSearch = FALSE
  MaxRuns = 2
  Versions <- MCVersions
  MaxCommits = 5
SPECIFICATION MCSpec
CHECK_DEADLOCK FALSE
INVARIANTS
  PlanCanBeFinished
  OneTaskPerId 
  NotesCoverCommits
PROPERTIES
  ReleasesIncrease
