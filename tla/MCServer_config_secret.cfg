\* A PATCH that moves an integration and one that keeps its secret overlap.
CONSTANTS
  Parts = {"configuration"}
  Requests = {}
  Operations = {}
  Addresses = {}
  FirstUsers <- MCUsers
  FirstSessions <- MCSessions
  FirstTokens <- MCTokens
  Edits = {"d1", "d2"}
  Hosts = {"u", "v"}
  FirstIntegrations <- MCIntegrations
  FirstProjects <- MCProjects
  FirstRepos <- MCRepos
  Intervals = {6}
  Invites = {2}
  Resets = {5}
  FirstSettings <- MCSettings
  Keys = {"login", "reset"}
  Limit <- MCLimit
  Window <- MCWindow
  SweepInterval = 2
  Callers = {"g1", "g2"}
  MaxTime = 6
  Systems = {"jira", "linear", "kaneo"}
  Targets = {"n1", "n2"}
  Subscriptions = {{"create"}, {"create", "error"}}
  ActionLists <- MCActionLists
SPECIFICATION MCSpec
CHECK_DEADLOCK FALSE
INVARIANT SecretSentToItsHost
