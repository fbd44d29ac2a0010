---------------------------- MODULE Configuration ----------------------------
(***************************************************************************)
(* Integrations, ticket projects and monitored repos as the API edits      *)
(* them.  A handler reads rows in one statement, decides, and writes in a  *)
(* later one; there is one database connection, so statements and          *)
(* transactions are atomic, and other requests run between them.  The      *)
(* database enforces the references and one default integration per kind.  *)
(***************************************************************************)
EXTENDS Naturals, FiniteSets

CONSTANTS Edits,
          Hosts,             \* base URLs, normalized
          FirstIntegrations, \* set of [id, kind, url, secretFor, isDefault]
          FirstProjects,     \* set of [id, integration, templates]
          FirstRepos         \* set of [id, integration, project]

VARIABLES integrations, projects, repos, task

configVars == <<integrations, projects, repos, task>>

NoTask == [op |-> "none"]
NoUrl == "nourl"
Keep == "keep"                               \* a field that a PATCH leaves out
TemplateKeys == {"title", "description", "supersedeComment"}

SourceKinds == {"github", "gitlab"}
NeedsUrl(kind) == kind \in {"gitlab", "kaneo"}

\* Mutant: ticket projects are not counted.
ReposOfIntegration(id) == {r \in repos : r.integration = id}

\* The rows that refer to an integration, and to a ticket project.
UsersOfIntegration(id) ==
  {r \in repos : r.integration = id} \cup {p \in projects : p.integration = id}
UsersOfProject(id) == {r \in repos : r.project = id}

IntegrationRow(id) == {i \in integrations : i.id = id}
ProjectRow(id) == {p \in projects : p.id = id}

(***************************************************************************)
(* What the API can be asked.  `secret' is a flag: the host that a secret  *)
(* is entered for is the one that the same request names, or the one that  *)
(* its author saw.                                                         *)
(***************************************************************************)
BaseTask(op, id) ==
  [op |-> op, id |-> id, step |-> "read", overtaken |-> FALSE, answer |-> "none",
   url |-> Keep, secret |-> FALSE, isDefault |-> Keep, keys |-> {}, copy |-> "nothing",
   integration |-> "none", project |-> "none"]

IntegrationTask(op, id, url, secret, isDefault) ==
  [BaseTask(op, id) EXCEPT !.url = url, !.secret = secret, !.isDefault = isDefault]
RepoTask(op, id, integration, project) ==
  [BaseTask(op, id) EXCEPT !.integration = integration, !.project = project]

NewIntegration(kind, url, isDefault) ==
  IntegrationTask("createIntegration", kind, url, TRUE, isDefault)

IntegrationTasks ==
  {NewIntegration(k, u, d) :
     k \in SourceKinds \cup {"kaneo"}, u \in Hosts \cup {NoUrl}, d \in {"yes", "no"}}
  \cup {IntegrationTask("patchIntegration", i.id, u, s, d) :
     i \in integrations, u \in Hosts \cup {Keep}, s \in BOOLEAN, d \in {"yes", "no", Keep}}
  \cup {BaseTask("deleteIntegration", i.id) : i \in integrations}

ProjectTasks ==
  {[BaseTask("createProject", "new") EXCEPT !.integration = i.id] : i \in integrations}
  \cup {[BaseTask("patchProject", p.id) EXCEPT !.keys = k] :
     p \in projects, k \in SUBSET TemplateKeys}
  \cup {BaseTask("deleteProject", p.id) : p \in projects}

RepoTasks ==
  {RepoTask("createRepo", "new", i, p.id) :
     i \in {j.id : j \in integrations} \cup {"none"}, p \in projects}
  \cup {RepoTask("patchRepo", r.id, i.id, r.project) :
     r \in repos, i \in integrations}
  \cup {BaseTask("deleteRepo", r.id) : r \in repos}

\* The unique index over the defaults of a kind.
OneDefault(rows) ==
  \A i, j \in rows : i.isDefault /\ j.isDefault /\ i.kind = j.kind => i = j

(***************************************************************************)
(* What the instance starts from: rows that the database accepts, with     *)
(* every secret beside the host it was entered for.  Ids are unique in a   *)
(* table, and those that the requests give out are new.                    *)
(***************************************************************************)
ASSUME EditsAssumption == Edits \subseteq STRING /\ Hosts \subseteq STRING
ASSUME StoredRowsAssumption ==
  /\ FirstIntegrations \subseteq
       [id : STRING, kind : SourceKinds \cup {"kaneo"}, url : STRING, secretFor : STRING,
        isDefault : BOOLEAN]
  /\ FirstProjects \subseteq
       [id : STRING, integration : STRING, templates : [TemplateKeys -> STRING]]
  /\ FirstRepos \subseteq [id : STRING, integration : STRING, project : STRING]
ASSUME StoredIdsAssumption ==
  /\ \A i \in FirstIntegrations \cup FirstProjects : i.id \notin Edits
  /\ \A i, j \in FirstIntegrations : i.id = j.id => i = j
  /\ \A p, r \in FirstProjects : p.id = r.id => p = r
ASSUME StoredStateAssumption ==
  /\ \A i \in FirstIntegrations : i.secretFor = i.url
  /\ OneDefault(FirstIntegrations)
  /\ \A r \in FirstRepos : \E p \in FirstProjects : p.id = r.project

-----------------------------------------------------------------------------
ConfigInit ==
  /\ integrations = FirstIntegrations
  /\ projects = FirstProjects
  /\ repos = FirstRepos
  /\ task = [q \in Edits |-> NoTask]

InStep(q, op, step) ==
  task[q] # NoTask /\ task[q].op = op /\ task[q].step = step /\ task[q].answer = "none"

\* Request q stored something: every other request in flight may now be wrong
\* about what it has read or asked for.
Stored(q, t) ==
  task' = [p \in Edits |->
    IF p = q THEN t
    ELSE IF task[p] # NoTask /\ task[p].answer = "none"
         THEN [task[p] EXCEPT !.overtaken = TRUE]
         ELSE task[p]]

\* The task as it is once it has been answered.
Answered(q, answer) == [task[q] EXCEPT !.answer = answer]
AnswerTask(q, answer) == task' = [task EXCEPT ![q] = Answered(q, answer)]
NextStep(q, t) == task' = [task EXCEPT ![q] = t]

AskTask(q) ==
  /\ task[q] = NoTask
  /\ \E t \in IntegrationTasks \cup ProjectTasks \cup RepoTasks :
       task' = [task EXCEPT ![q] = t]
  /\ UNCHANGED <<integrations, projects, repos>>

(***************************************************************************)
(* Integrations.                                                           *)
(***************************************************************************)
ValidUrl(kind, url) == NeedsUrl(kind) <=> url # NoUrl
ValidDefault(kind, isDefault) == isDefault = "yes" => kind \in SourceKinds

\* ClearDefaultIntegrationForKind, in the transaction of the row that becomes
\* the default.
DefaultCleared(kind, id) ==
  {IF i.kind = kind /\ i.id # id THEN [i EXCEPT !.isDefault = FALSE] ELSE i : i \in integrations}

\* A transaction that would leave the integrations as rows.
StoreIntegrations(q, rows) ==
  IF OneDefault(rows)
  THEN integrations' = rows /\ Stored(q, Answered(q, "ok"))
  ELSE AnswerTask(q, "failed") /\ UNCHANGED integrations

CreateIntegration(q) ==
  /\ InStep(q, "createIntegration", "read")
  /\ LET t == task[q]
         row == [id |-> q, kind |-> t.id, url |-> t.url, secretFor |-> t.url,
                 isDefault |-> t.isDefault = "yes"]
     IN  IF ~ValidUrl(t.id, t.url) \/ ~ValidDefault(t.id, t.isDefault)
         THEN AnswerTask(q, "refused") /\ UNCHANGED integrations
         ELSE StoreIntegrations(q,
                (IF row.isDefault THEN DefaultCleared(t.id, q) ELSE integrations) \cup {row})
  /\ UNCHANGED <<projects, repos>>

\* Mutant: a new URL may keep the old secret.
ReadIntegrationOnly(q) ==
  /\ InStep(q, "patchIntegration", "read")
  /\ \E row \in IntegrationRow(task[q].id) :
       NextStep(q, [task[q] EXCEPT !.step = "write",
                                   !.copy = IF task[q].url = Keep THEN row.url ELSE task[q].url])
  /\ UNCHANGED <<integrations, projects, repos>>

\* IntegrationHandlers.Patch up to its write: the checks use the row it read.
ReadIntegration(q) ==
  /\ InStep(q, "patchIntegration", "read")
  /\ LET t == task[q]
     IN  \/ IntegrationRow(t.id) = {} /\ AnswerTask(q, "missing")
         \/ \E row \in IntegrationRow(t.id) :
              LET url == IF t.url = Keep THEN row.url ELSE t.url
              IN  IF \/ ~ValidUrl(row.kind, url)
                     \/ ~ValidDefault(row.kind, t.isDefault)
                     \/ ~t.secret /\ url # row.url
                  THEN AnswerTask(q, "refused")
                  ELSE NextStep(q, [t EXCEPT !.step = "write", !.copy = url])
  /\ UNCHANGED <<integrations, projects, repos>>

\* The transaction of store.Update: the secret and the flag that the request
\* leaves out come from the row as it is now, the URL from the handler's copy.
WriteIntegration(q) ==
  /\ InStep(q, "patchIntegration", "write")
  /\ LET t == task[q]
     IN  \/ /\ IntegrationRow(t.id) = {}
            /\ AnswerTask(q, "missing")
            /\ UNCHANGED integrations
         \/ \E row \in IntegrationRow(t.id) :
              LET new == [row EXCEPT
                            !.url = t.copy,
                            !.secretFor = IF t.secret THEN t.copy ELSE row.secretFor,
                            !.isDefault = IF t.isDefault = Keep THEN row.isDefault
                                          ELSE t.isDefault = "yes"]
                  rest == IF new.isDefault THEN DefaultCleared(row.kind, row.id)
                          ELSE integrations
              IN  StoreIntegrations(q, (rest \ {row}) \cup {new})
  /\ UNCHANGED <<projects, repos>>

CountReferences(q) ==
  /\ InStep(q, "deleteIntegration", "read")
  /\ IF IntegrationRow(task[q].id) = {} THEN AnswerTask(q, "missing")
     ELSE IF UsersOfIntegration(task[q].id) # {} THEN AnswerTask(q, "conflict")
     ELSE NextStep(q, [task[q] EXCEPT !.step = "write"])
  /\ UNCHANGED <<integrations, projects, repos>>

DeleteIntegration(q) ==
  /\ InStep(q, "deleteIntegration", "write")
  /\ IF \E r \in repos \cup projects : r.integration = task[q].id
     THEN AnswerTask(q, "failed") /\ UNCHANGED integrations
     ELSE /\ integrations' = integrations \ IntegrationRow(task[q].id)
          /\ Stored(q, Answered(q, "ok"))
  /\ UNCHANGED <<projects, repos>>

(***************************************************************************)
(* Ticket projects and repos.                                              *)
(***************************************************************************)
CreateProject(q) ==
  /\ InStep(q, "createProject", "read")
  /\ IF IntegrationRow(task[q].integration) = {}
     THEN AnswerTask(q, "failed") /\ UNCHANGED projects
     ELSE /\ projects' = projects \cup
               {[id |-> q, integration |-> task[q].integration,
                 templates |-> [k \in TemplateKeys |-> q]]}
          /\ Stored(q, Answered(q, "ok"))
  /\ UNCHANGED <<integrations, repos>>

\* Mutant: the keys that are left out go back to the defaults.
MergedOverDefaults(templates, keys, q) == [k \in TemplateKeys |-> IF k \in keys THEN q ELSE "default"]

\* mergeContentTemplates, over the templates that were read.
Merged(templates, keys, q) == [k \in TemplateKeys |-> IF k \in keys THEN q ELSE templates[k]]

ReadProject(q) ==
  /\ InStep(q, "patchProject", "read")
  /\ LET t == task[q]
     IN  \/ ProjectRow(t.id) = {} /\ AnswerTask(q, "missing")
         \/ \E row \in ProjectRow(t.id) :
              NextStep(q, [t EXCEPT !.step = "write", !.copy = Merged(row.templates, t.keys, q)])
  /\ UNCHANGED <<integrations, projects, repos>>

WriteProject(q) ==
  /\ InStep(q, "patchProject", "write")
  /\ LET t == task[q]
     IN  IF ProjectRow(t.id) = {}
         THEN AnswerTask(q, "missing") /\ UNCHANGED projects
         ELSE /\ projects' = {IF p.id = t.id THEN [p EXCEPT !.templates = t.copy] ELSE p :
                                p \in projects}
              /\ Stored(q, Answered(q, "ok"))
  /\ UNCHANGED <<integrations, repos>>

CountMonitoredRepos(q) ==
  /\ InStep(q, "deleteProject", "read")
  /\ IF ProjectRow(task[q].id) = {} THEN AnswerTask(q, "missing")
     ELSE IF UsersOfProject(task[q].id) # {} THEN AnswerTask(q, "conflict")
     ELSE NextStep(q, [task[q] EXCEPT !.step = "write"])
  /\ UNCHANGED <<integrations, projects, repos>>

DeleteProject(q) ==
  /\ InStep(q, "deleteProject", "write")
  /\ IF \E r \in repos : r.project = task[q].id
     THEN AnswerTask(q, "failed") /\ UNCHANGED projects
     ELSE /\ projects' = projects \ ProjectRow(task[q].id)
          /\ Stored(q, Answered(q, "ok"))
  /\ UNCHANGED <<integrations, repos>>

\* The rows that task t refers to exist.  A repo of a kind that works without a
\* token may name no integration.
Referable(t) ==
  /\ ProjectRow(t.project) # {}
  /\ t.integration = "none" \/ IntegrationRow(t.integration) # {}

CreateRepo(q) ==
  /\ InStep(q, "createRepo", "read")
  /\ LET t == task[q]
     IN  IF ~Referable(t) THEN AnswerTask(q, "failed") /\ UNCHANGED repos
         ELSE /\ repos' = repos \cup {[id |-> q, integration |-> t.integration, project |-> t.project]}
              /\ Stored(q, Answered(q, "ok"))
  /\ UNCHANGED <<integrations, projects>>

\* The row with the references that the request asks for.
Repointed(r, t) == [r EXCEPT !.integration = t.integration, !.project = t.project]

\* Also turns an unknown repo down, in the handler and in the transaction alike.
UpdateRepo(q) ==
  /\ InStep(q, "patchRepo", "read")
  /\ LET t == task[q]
         row == {r \in repos : r.id = t.id}
     IN  IF row = {} THEN AnswerTask(q, "missing") /\ UNCHANGED repos
         ELSE IF ~Referable(t) THEN AnswerTask(q, "failed") /\ UNCHANGED repos
         ELSE /\ repos' = (repos \ row) \cup {Repointed(r, t) : r \in row}
              /\ Stored(q, Answered(q, "ok"))
  /\ UNCHANGED <<integrations, projects>>

DeleteRepo(q) ==
  /\ InStep(q, "deleteRepo", "read")
  /\ LET row == {r \in repos : r.id = task[q].id}
     IN  IF row = {} THEN AnswerTask(q, "missing") /\ UNCHANGED repos
         ELSE repos' = repos \ row /\ Stored(q, Answered(q, "ok"))
  /\ UNCHANGED <<integrations, projects>>

ConfigNext ==
  \E q \in Edits :
    \/ AskTask(q) \/ CreateIntegration(q) \/ ReadIntegration(q) \/ WriteIntegration(q)
    \/ CountReferences(q) \/ DeleteIntegration(q)
    \/ CreateProject(q) \/ ReadProject(q) \/ WriteProject(q)
    \/ CountMonitoredRepos(q) \/ DeleteProject(q)
    \/ CreateRepo(q) \/ UpdateRepo(q) \/ DeleteRepo(q)

ConfigSpec == ConfigInit /\ [][ConfigNext]_configVars

-----------------------------------------------------------------------------
(* Properties *)

\* "The stored secret may only be sent to the host it was entered for"
\* (handlers/integrations.go:205).
SecretSentToItsHost == \A i \in integrations : i.secretFor = i.url

\* A secret stands beside a host it was not entered for only after a PATCH that
\* kept the secret was overtaken, between its check and its write, by another
\* request (integrations.go:179-236).
SecretMovedByOverlap ==
  ~SecretSentToItsHost =>
    \E q \in Edits : task[q] # NoTask /\ task[q].op = "patchIntegration" /\ task[q].overtaken

\* The database turns a request that names existing rows down (the client sees
\* an internal error) only if another request ran in between: on its own, the
\* handlers' counts and the clearing of the old default make every constraint
\* hold beforehand (integrations.go:273, ticket_projects.go:253,
\* store/integrations.go:160).
FailureNeedsOverlap ==
  \A q \in Edits : task[q] # NoTask /\ task[q].answer = "failed" => task[q].overtaken

\* A PATCH changes a field that it does not name only if it was overtaken after
\* reading it: the templates are merged over the stored ones, the default flag
\* and the secret are taken from the row itself.
UnnamedFieldsKept ==
  [][\A q \in Edits :
       /\ task[q] # NoTask /\ task[q].answer = "none" /\ ~task[q].overtaken
       /\ task'[q].answer = "ok"
       =>
         /\ task[q].op = "patchProject" =>
              \A p \in projects, r \in projects' : \A k \in TemplateKeys \ task[q].keys :
                p.id = r.id => r.templates[k] = p.templates[k]
         /\ task[q].op = "patchIntegration" =>
              \A i \in integrations, j \in integrations' : i.id = j.id =>
                /\ i.id = task[q].id /\ task[q].isDefault = Keep => j.isDefault = i.isDefault
                /\ j.secretFor # i.secretFor => i.id = task[q].id /\ task[q].secret]_configVars

=============================================================================
