\* Two tabs and two users; each editing page with one row, two saves or changes
\* by others; each page with a delete dialog, two rows.
CONSTANTS
  t1 = t1
  t2 = t2
  Users = {"u1", "u2"}
  Tabs = {t1, t2}
  Owner = "u1"
  Views = {"repos", "integrations", "projects", "notifications"}
  Integrations <- MCIntegrations
  Passing = {"gh"}
  Projects <- MCProjects
  Rows <- MCRows
  Kinds <- MCKinds
  Addresses = {"", "u", "v"}
  Home <- MCHome
  NewId = "new"
  MaxRequests = 2
  Pages = {"repos", "integrations", "projects", "notifications", "users", "invitations"}
  Listable = {"a", "b"}
  Self = "a"
  MaxOpenings = 2
  MaxAttempts = 3
SPECIFICATION MCSpec
SYMMETRY TabSymmetry
CHECK_DEADLOCK FALSE
INVARIANTS
  ShownUserIsSignedIn
   CredentialOfItsKind CredentialKept 
PROPERTIES
    LateAnswerTouchesNothing
