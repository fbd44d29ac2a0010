---------------------------- MODULE ConsoleForms ----------------------------
(***************************************************************************)
(* The four editing dialogs of the web console: repositories,              *)
(* integrations, ticket projects and notification targets.  For each one:  *)
(* what the form holds when the dialog opens, which controls it offers,    *)
(* what its effects change after an edit, what it refuses to save and what *)
(* it sends; and, beside it, what the API accepts.  Console runs them.     *)
(*                                                                         *)
(* "" is an empty field.  A value that a dialog only carries from the row  *)
(* to the request is part of `other`.  The rows and lists of the page are  *)
(* parameters: `integrations` and `projects` are sets of rows, each with   *)
(* its place `at' in the API's listing.                                    *)
(***************************************************************************)
EXTENDS Naturals

BaseUrlKinds == {"gitlab", "gitea", "forgejo", "kaneo", "jira"}
TokenOptionalKinds == {"github", "gitea", "forgejo", "codeberg"}
TicketKinds == {"kaneo", "jira", "linear"}
SourceKinds == {"github", "gitlab", "gitea", "forgejo", "codeberg"}
KindsRequiringIntegration == {"gitlab", "gitea", "forgejo"}

FirstId(list) ==
    IF list = {} THEN "" ELSE (CHOOSE r \in list : \A q \in list : r.at <= q.at).id
Listed(list, id) == \E r \in list : r.id = id

-----------------------------------------------------------------------------
(* Repositories *)

RepoBlank(projects) ==
    [kind |-> "github", path |-> "", project |-> FirstId(projects),
     integration |-> "", chosen |-> FALSE, other |-> "default"]

RepoLoaded(row) ==
    [kind |-> row.kind, path |-> row.path, project |-> row.project,
     integration |-> row.integration, chosen |-> FALSE, other |-> row.other]

IntegrationsOfKind(integrations, kind) == {i \in integrations : i.kind = kind}

DefaultIntegration(integrations, kind) ==
    FirstId({i \in IntegrationsOfKind(integrations, kind) : i.isDefault})

\* Mutant: a credential of another kind is kept.
RepoSettledKeeps(form, mode, integrations) ==
    IF mode = "create" /\ ~form.chosen /\ form.integration = ""
    THEN [form EXCEPT !.integration = DefaultIntegration(integrations, form.kind)]
    ELSE form

\* Mutant: the default is preselected in a row that exists, too.
RepoSettledAnyMode(form, mode, integrations) ==
    [form EXCEPT !.integration =
        IF form.chosen THEN form.integration ELSE DefaultIntegration(integrations, form.kind)]

\* The two effects that follow an edit or a fetch: a credential that the kind's
\* list does not hold is dropped; while adding a repo, the kind's default is
\* preselected until the administrator picks one.
RepoSettled(form, mode, integrations) ==
    LET offered == IntegrationsOfKind(integrations, form.kind)
        kept    == IF Listed(offered, form.integration) THEN form.integration ELSE ""
        preset  == DefaultIntegration(integrations, form.kind)
    IN  [form EXCEPT !.integration =
            IF mode = "create" /\ ~form.chosen THEN preset ELSE kept]

\* The controls of the dialog and the values each of them offers: the list of
\* credentials only where there are some, with "None" for the kinds that work
\* without one.
RepoControls(form, projects, integrations, kinds, paths) ==
    LET offered == IntegrationsOfKind(integrations, form.kind)
        ids(list) == {r.id : r \in list}
    IN  [kind        |-> kinds,
         path        |-> paths,
         project     |-> ids(projects),
         integration |-> IF offered = {} THEN {}
                         ELSE IF form.kind \in KindsRequiringIntegration THEN ids(offered)
                         ELSE ids(offered) \cup {""},
         other       |-> {"typed"}]

RepoEdited(form, control, value) ==
    CASE control = "kind"        -> [form EXCEPT !.kind = value, !.chosen = FALSE]
      [] control = "integration" -> [form EXCEPT !.integration = value, !.chosen = TRUE]
      [] OTHER                   -> [form EXCEPT ![control] = value]

RepoRefused(form) ==
    \/ form.path = ""
    \/ form.project = ""
    \/ form.kind \in KindsRequiringIntegration /\ form.integration = ""

RepoPayload(form) ==
    [kind |-> form.kind, path |-> form.path, project |-> form.project,
     integration |-> form.integration, other |-> form.other]

\* The handlers check that a credential is there when the kind needs one, not
\* that it is of that kind; a path is unique within its kind.
RepoAccepted(payload, id, rows) ==
    /\ payload.path # "" /\ payload.project # ""
    /\ payload.kind \in KindsRequiringIntegration => payload.integration # ""
    /\ \A r \in rows : r.id # id => <<r.kind, r.path>> # <<payload.kind, payload.path>>

-----------------------------------------------------------------------------
(* Integrations *)

IntegrationBlank ==
    [kind |-> "github", name |-> "", url |-> "", email |-> "", secret |-> "",
     isDefault |-> FALSE]

IntegrationLoaded(row) ==
    [kind |-> row.kind, name |-> row.name, url |-> row.url, email |-> "",
     secret |-> "", isDefault |-> row.isDefault]

\* The kind is fixed once the integration exists; the address, the Jira account
\* and the default switch are shown for the kinds that have them.
IntegrationControls(form, mode, kinds, urls) ==
    [kind      |-> IF mode = "create" THEN kinds ELSE {},
     name      |-> {"n"},
     url       |-> IF form.kind \in BaseUrlKinds THEN urls ELSE {},
     email     |-> IF form.kind = "jira" THEN {"e"} ELSE {},
     secret    |-> {"", "s"},
     isDefault |-> IF form.kind \in SourceKinds THEN BOOLEAN ELSE {}]

SecretRequired(form, mode, row) ==
    form.kind \notin TokenOptionalKinds /\ (mode = "create" \/ ~row.hasSecret)

\* Mutant: a new address does not ask for the secret again.
IntegrationIncomplete(form, mode, row) ==
    \/ form.name = "" \/ (form.kind \in BaseUrlKinds /\ form.url = "")
    \/ form.kind = "jira" /\ form.email = "" /\ (mode = "create" \/ form.secret # "")
    \/ SecretRequired(form, mode, row) /\ form.secret = ""

IntegrationRefused(form, mode, row) ==
    \/ form.name = ""
    \/ form.kind \in BaseUrlKinds /\ form.url = ""
    \/ form.kind = "jira" /\ form.email = "" /\ (mode = "create" \/ form.secret # "")
    \/ SecretRequired(form, mode, row) /\ form.secret = ""
    \/ mode = "edit" /\ form.kind \in BaseUrlKinds /\ form.secret = "" /\ form.url # row.url

\* secret "" is a request that leaves the stored secret alone; on create, one
\* without any.  The Jira account travels inside the secret.
IntegrationPayload(form) ==
    [kind      |-> form.kind,
     name      |-> form.name,
     url       |-> IF form.kind \in BaseUrlKinds THEN form.url ELSE "",
     secret    |-> form.secret,
     email     |-> IF form.kind = "jira" /\ form.secret # "" THEN form.email ELSE "",
     isDefault |-> form.kind \in SourceKinds /\ form.isDefault]

ValidBaseUrl(kind, url) == kind \in BaseUrlKinds <=> url # ""

ValidSecret(payload) ==
    payload.kind = "jira" => payload.email # "" /\ payload.secret # ""

ValidDefaultFlag(payload) == payload.isDefault => payload.kind \in SourceKinds

IntegrationCreateAccepted(payload) ==
    /\ payload.name # ""
    /\ payload.secret = "" => payload.kind \in TokenOptionalKinds
    /\ ValidBaseUrl(payload.kind, payload.url)
    /\ ValidSecret(payload)
    /\ ValidDefaultFlag(payload)

\* Mutant: the API takes a new address without the secret.
PatchAcceptedAnywhere(payload, row) ==
    LET url == IF payload.url = "" THEN row.url ELSE payload.url
    IN  payload.name # "" /\ ValidBaseUrl(row.kind, url) /\ ValidDefaultFlag(payload)

\* A PATCH that brings no address keeps the stored one.
IntegrationPatchAccepted(payload, row) ==
    LET url == IF payload.url = "" THEN row.url ELSE payload.url
    IN  /\ payload.name # ""
        /\ ValidBaseUrl(row.kind, url)
        /\ ValidDefaultFlag(payload)
        /\ payload.secret = "" => url = row.url
        /\ payload.secret # "" => ValidSecret(payload)

-----------------------------------------------------------------------------
(* Ticket projects.  A config is named by the kind whose shape it has, by     *)
(* whether the required fields of that kind are filled in and by the          *)
(* workspace it stores; a status mapping by the external project its columns  *)
(* were picked from ("" while one of the lists is empty).                     *)

TicketIntegrations(integrations) == {i \in integrations : i.kind \in TicketKinds}

KindOf(integrations, id) ==
    IF Listed(integrations, id) THEN (CHOOSE i \in integrations : i.id = id).kind ELSE ""

DefaultConfig(kind) ==
    [kind |-> kind, filled |-> kind \in {"kaneo", "jira"}, space |-> ""]

ConfigLoaded(kind, config) == IF kind = "" THEN config ELSE [config EXCEPT !.kind = kind]

ConfigSent(kind, config, space) ==
    IF kind = "kaneo" /\ space # "" THEN [config EXCEPT !.kind = kind, !.space = space]
    ELSE [config EXCEPT !.kind = kind]

ProjectBlank(integrations) ==
    LET first == FirstId(TicketIntegrations(integrations))
    IN  [integration |-> first, space |-> "", project |-> "", name |-> "",
         config |-> DefaultConfig(KindOf(integrations, first)), mapping |-> "",
         other |-> "default"]

ProjectLoaded(row, integrations) ==
    [integration |-> row.integration, space |-> "", project |-> row.project,
     name |-> row.name,
     config |-> ConfigLoaded(KindOf(integrations, row.integration), row.config),
     mapping |-> row.mapping, other |-> row.other]

ActiveKind(form, mode, integrations) ==
    KindOf(IF mode = "edit" THEN integrations ELSE TicketIntegrations(integrations),
           form.integration)

\* Mutant: another external project leaves the columns picked from the old one.
ProjectSettledKeeps(form, before, mode, kind) ==
    IF mode = "create" /\ kind # "" /\ form.integration # before.integration
    THEN [form EXCEPT !.space = "", !.project = "", !.config = DefaultConfig(kind),
                      !.mapping = ""]
    ELSE form

\* While adding a project: another integration empties everything that was
\* picked from the old one, another external project the columns picked from
\* the old one.
ProjectSettled(form, before, mode, kind) ==
    IF mode # "create" \/ kind = "" THEN form
    ELSE IF form.integration # before.integration
    THEN [form EXCEPT !.space = "", !.project = "", !.config = DefaultConfig(kind),
                      !.mapping = ""]
    ELSE IF form.project # before.project
    THEN [form EXCEPT !.config = DefaultConfig(kind), !.mapping = ""]
    ELSE form

\* What a metadata select offers: nothing while it is disabled, and a stored
\* value that the tracker no longer lists only where the dialog asks for it.
SelectItems(items, disabled) == IF disabled THEN {} ELSE items

\* The tabs that edit the create config and the status mapping offer the
\* metadata of the external project; without one they offer nothing.
ConfigControls(form, kind) ==
    IF form.integration = "" \/ form.project = "" \/ kind = "" THEN {}
    ELSE {[form.config EXCEPT !.filled = TRUE]}

MappingControls(form) ==
    IF form.integration = "" \/ form.project = "" THEN {} ELSE {form.project, ""}

\* home[p] is the workspace of external project p.
ProjectControls(form, mode, kind, integrations, home) ==
    LET ids == {i.id : i \in TicketIntegrations(integrations)}
        inSpace == {p \in DOMAIN home : home[p] = form.space}
    IN  [integration |-> IF mode = "create" THEN ids ELSE {},
         space       |-> IF mode = "create" /\ kind = "kaneo"
                         THEN {home[p] : p \in DOMAIN home} ELSE {},
         project     |-> SelectItems(IF kind = "kaneo" THEN inSpace ELSE DOMAIN home,
                                     mode = "edit" \/ form.integration = ""),
         name        |-> {"n"},
         other       |-> {"typed"},
         config      |-> ConfigControls(form, kind),
         mapping     |-> MappingControls(form)]

InvalidTabs(form, mode, kind) ==
    {tab \in {"general", "createConfig", "statusMapping"} :
        \/ /\ tab = "general"
           /\ \/ form.name = "" \/ form.project = "" \/ form.integration = "" \/ kind = ""
              \/ mode = "create" /\ kind = "kaneo" /\ form.space = ""
        \/ tab = "createConfig" /\ kind # "" /\ ~form.config.filled
        \/ tab = "statusMapping" /\ form.mapping = ""}

ProjectPayload(form, mode, kind) ==
    [integration |-> form.integration, project |-> form.project, name |-> form.name,
     config |-> ConfigSent(kind, form.config, IF mode = "create" THEN form.space ELSE ""),
     mapping |-> form.mapping, other |-> form.other]

ProjectCreateAccepted(payload, rows) ==
    /\ payload.integration # "" /\ payload.project # "" /\ payload.name # ""
    /\ \A r \in rows : <<r.integration, r.project>> # <<payload.integration, payload.project>>

ProjectPatchAccepted(payload) == payload.name # ""

-----------------------------------------------------------------------------
(* Notification targets *)

NotificationBlank ==
    [name |-> "", url |-> "", events |-> {"create", "error", "supersede"}, other |-> "default"]

NotificationLoaded(row) ==
    [name |-> row.name, url |-> "",
     events |-> row.events \cap {"create", "error", "supersede"}, other |-> row.other]

NotificationControls ==
    [name |-> {"n"}, url |-> {"", "u"}, events |-> {{}, {"error"}}, other |-> {"typed"}]

NotificationRefused(form, mode, row) ==
    \/ form.name = ""
    \/ (mode = "create" \/ ~row.hasSecret) /\ form.url = ""
    \/ form.events = {}

NotificationPayload(form) ==
    [name |-> form.name, url |-> form.url, events |-> form.events, other |-> form.other]

=============================================================================
