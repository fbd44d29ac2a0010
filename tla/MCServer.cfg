\* Two requests at a time on the accounts, the configuration and the settings, whose
\* interval is refused in MCPollRuns_content.cfg;
\* two racing requests at the limiter; one create call; one repo's polls.
CONSTANTS
  Parts = {"accounts", "configuration", "settings", "limiter", "calls", "notifications"}
  Requests = {"q1", "q2"}
  Operations = {"login", "logout", "accept", "confirm", "forgot", "reset", "remove",
                "askEmail", "change", "invite", "resend", "unlist"}
  Addresses = {"e1", "e3"}
  FirstUsers <- MCUsers
  FirstSessions <- MCSessions
  FirstTokens <- MCTokens
  Edits = {"d1", "d2"}
  Hosts = {"u", "v"}
  FirstIntegrations <- MCIntegrations
  FirstProjects <- MCProjects
  FirstRepos <- MCRepos
  Intervals = {6}
  Invites = {2, 721}
  Resets = {5}
  FirstSettings <- MCSettings
  Keys = {"login", "reset"}
  Limit <- MCLimit
  Window <- MCWindow
  SweepInterval = 2
  Callers = {"g1", "g2"}
  MaxTime = 5
  Systems = {"jira", "linear", "kaneo"}
  Targets = {"n1", "n2"}
  Subscriptions = {{"create"}, {"create", "error"}}
  ActionLists <- MCActionLists
SPECIFICATION MCSpec
CHECK_DEADLOCK FALSE
INVARIANTS
  TokenSpentOnce SuccessSignsOutOthers InvitationKeepsALink
  SecretMovedByOverlap FailureNeedsOverlap
  OnlyChosenTargets
PROPERTIES
  UnnamedFieldsKept OnlyOverlapLoses DecidesByWindow KeepsContract
