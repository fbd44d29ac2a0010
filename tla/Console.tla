------------------------------ MODULE Console ------------------------------
(***************************************************************************)
(* One page of the web console with its editing dialog, the API behind it  *)
(* and the other administrators who use the API at the same time.          *)
(*                                                                         *)
(* A page shows what its queries last fetched; a list that was never       *)
(* fetched, or whose query failed, counts as empty.  A dialog edits a copy *)
(* of the row it was opened with.  Its effects run before the next event.  *)
(* A save is served and answered in two steps, between which the dialog    *)
(* can be closed and another one opened; only one save is under way at a   *)
(* time, because the save button is busy meanwhile.                        *)
(***************************************************************************)
EXTENDS ConsoleForms

CONSTANTS Views,            \* the pages of this instance
          Integrations,     \* every integration that can exist
          Passing,          \* the integrations other administrators delete and add
          Projects,         \* every ticket project
          Rows,             \* Rows[v]: the rows page v starts with
          Kinds,            \* Kinds[v]: what the dialog of page v can select
          Addresses,        \* what an administrator types
          Home,             \* external project -> workspace
          NewId,            \* the id of the one row a create may add
          MaxRequests       \* bound on the saves and on the others' changes

VARIABLES view, server, seen, dialog, saving, requests

consoleVars == <<view, server, seen, dialog, saving, requests>>

\* Ids are the database's; the listing gives every integration its place.
ASSUME ListAssumption ==
    /\ \A i \in Integrations : i.at \in Nat
    /\ \A i, j \in Integrations : i.id = j.id => i = j

\* The rows a page starts with: ids do not repeat, and they were stored as the
\* properties below say, an integration's address as the API checks it.
ASSUME RowsAssumption ==
    /\ \A v \in Views : \A r, s \in Rows[v] : r.id = s.id => r = s
    /\ "integrations" \in Views => \A r \in Rows["integrations"] :
          /\ {"id", "kind", "url", "hasSecret", "isDefault", "secretFor"} \subseteq DOMAIN r
          /\ ValidBaseUrl(r.kind, r.url) /\ r.secretFor \in {"", r.url}
    /\ "repos" \in Views => \A r \in Rows["repos"] :
          r.integration # "" => KindOf(Integrations, r.integration) = r.kind
    /\ "projects" \in Views => \A r \in Rows["projects"] :
          /\ "kind" \in DOMAIN r.config /\ r.mapping = r.project
          /\ r.config.kind = KindOf(Integrations, r.integration)

NoRow == [id |-> "none"]
Closed == [mode |-> "closed"]
NoSave == [mode |-> "none"]
IsOpen == dialog # Closed
IsSaving == saving # NoSave

\* seen is what the page has fetched, seen.fetched the lists among it: an
\* unfetched list is empty, `const { data: list = [] } = useQuery(...)`.

\* The lists a dialog's reset effect depends on, besides the dialog itself.
ResetLists ==
    CASE view = "repos"    -> {"projects"}
      [] view = "projects" -> {"integrations"}
      [] OTHER             -> {}

Blank(s) ==
    CASE view = "repos"        -> RepoBlank(s.projects)
      [] view = "integrations" -> IntegrationBlank
      [] view = "projects"     -> ProjectBlank(s.integrations)
      [] OTHER                 -> NotificationBlank

Loaded(s, row) ==
    CASE view = "repos"        -> RepoLoaded(row)
      [] view = "integrations" -> IntegrationLoaded(row)
      [] view = "projects"     -> ProjectLoaded(row, s.integrations)
      [] OTHER                 -> NotificationLoaded(row)

Fresh(s, mode, row) == IF mode = "edit" THEN Loaded(s, row) ELSE Blank(s)

\* History, for CredentialKept: the page does not hold the credential of the row
\* that is edited.
Unlisted(s, mode, row) ==
    /\ view = "repos" /\ mode = "edit" /\ row.integration # ""
    /\ ~Listed(IntegrationsOfKind(s.integrations, row.kind), row.integration)

TicketKind(s, form, mode) == ActiveKind(form, mode, s.integrations)

Settled(s, form, before, mode) ==
    CASE view = "repos"    -> RepoSettled(form, mode, s.integrations)
      [] view = "projects" -> ProjectSettled(form, before, mode, TicketKind(s, form, mode))
      [] OTHER             -> form

Controls ==
    LET form == dialog.form IN
    CASE view = "repos" ->
            RepoControls(form, seen.projects, seen.integrations, Kinds[view], {"p"})
      [] view = "integrations" -> IntegrationControls(form, dialog.mode, Kinds[view], Addresses)
      [] view = "projects" ->
            ProjectControls(form, dialog.mode, TicketKind(seen, form, dialog.mode),
                            seen.integrations, Home)
      [] OTHER -> NotificationControls

Edited(control, value) ==
    IF view = "repos" THEN RepoEdited(dialog.form, control, value)
    ELSE [dialog.form EXCEPT ![control] = value]

Refused ==
    LET form == dialog.form IN
    CASE view = "repos"        -> RepoRefused(form)
      [] view = "integrations" -> IntegrationRefused(form, dialog.mode, dialog.row)
      [] view = "projects" ->
            InvalidTabs(form, dialog.mode, TicketKind(seen, form, dialog.mode)) # {}
      [] OTHER                 -> NotificationRefused(form, dialog.mode, dialog.row)

Payload ==
    LET form == dialog.form IN
    CASE view = "repos"        -> RepoPayload(form)
      [] view = "integrations" -> IntegrationPayload(form)
      [] view = "projects" ->
            ProjectPayload(form, dialog.mode, TicketKind(seen, form, dialog.mode))
      [] OTHER                 -> NotificationPayload(form)

\* The button is disabled without a ticket project to send releases to, and
\* without an integration to create a ticket project in.
CanSubmit ==
    /\ ~IsSaving
    /\ view = "repos" => seen.projects # {}
    /\ view = "projects" /\ dialog.mode = "create"
            => TicketIntegrations(seen.integrations) # {}

-----------------------------------------------------------------------------
(* The API. *)

Stored(id) == {r \in server.own : r.id = id}

Accepted(save) ==
    LET payload == save.payload
        rows == Stored(save.row.id)
    IN  IF save.mode = "create"
        THEN CASE view = "repos"        -> RepoAccepted(payload, NewId, server.own)
               [] view = "integrations" -> IntegrationCreateAccepted(payload)
               [] view = "projects"     -> ProjectCreateAccepted(payload, server.own)
               [] OTHER                 -> TRUE
        ELSE /\ rows # {}
             /\ CASE view = "repos" -> RepoAccepted(payload, save.row.id, server.own)
                  [] view = "integrations" ->
                        \A row \in rows : IntegrationPatchAccepted(payload, row)
                  [] view = "projects" -> ProjectPatchAccepted(payload)
                  [] OTHER -> TRUE

\* secretFor is the address the stored secret was entered for.
IntegrationRow(save, old) ==
    LET payload == save.payload
        url == IF payload.url = "" THEN old.url ELSE payload.url
    IN  [id |-> old.id, kind |-> old.kind, name |-> payload.name, url |-> url,
         hasSecret |-> payload.secret # "" \/ old.hasSecret,
         isDefault |-> payload.isDefault,
         secretFor |-> IF payload.secret # "" THEN url ELSE old.secretFor]

Identified(payload, id) ==
    [f \in DOMAIN payload \cup {"id"} |-> IF f = "id" THEN id ELSE payload[f]]

NewRow(save) ==
    LET payload == save.payload IN
    CASE view = "integrations" ->
            IntegrationRow(save, [id |-> NewId, kind |-> payload.kind, url |-> "",
                                  hasSecret |-> FALSE, secretFor |-> ""])
      [] view = "notifications" ->
            [id |-> NewId, name |-> payload.name, hasSecret |-> TRUE,
             events |-> payload.events, other |-> payload.other]
      [] OTHER -> Identified(payload, NewId)

PatchedRow(save, old) ==
    CASE view = "integrations"  -> IntegrationRow(save, old)
      [] view = "notifications" ->
            [old EXCEPT !.name = save.payload.name, !.events = save.payload.events,
                        !.other = save.payload.other]
      [] view = "projects" ->
            [Identified(save.payload, old.id) EXCEPT !.integration = old.integration,
                                                     !.project = old.project]
      [] OTHER -> Identified(save.payload, old.id)

\* At most one default per kind: storing one clears the others.
WithRow(rows, row) ==
    {IF view = "integrations" /\ row.isDefault /\ r.kind = row.kind
     THEN [r EXCEPT !.isDefault = FALSE] ELSE r : r \in {q \in rows : q.id # row.id}}
        \cup {row}

-----------------------------------------------------------------------------
ConsoleInit ==
    /\ view \in Views
    /\ server = [own          |-> Rows[view],
                 integrations |-> IF view \in {"repos", "projects"} THEN Integrations ELSE {},
                 projects     |-> IF view = "repos" THEN Projects ELSE {}]
    /\ seen = [own |-> {}, integrations |-> {}, projects |-> {}, fetched |-> {}]
    /\ dialog = Closed
    /\ saving = NoSave
    /\ requests = 0

Request ==
    /\ requests < MaxRequests
    /\ requests' = requests + 1

PageLists ==
    {"own"} \cup (CASE view = "repos"    -> {"integrations", "projects"}
                    [] view = "projects" -> {"integrations"}
                    [] OTHER             -> {})

\* Mutant: the dialog starts again from the row after every fetch.
FetchResets(list) ==
    /\ list \notin seen.fetched \/ seen[list] # server[list]
    /\ seen' = [seen EXCEPT ![list] = server[list], !.fetched = @ \cup {list}]
    /\ LET form == Fresh(seen', dialog.mode, dialog.row)
       IN  dialog' = IF ~IsOpen THEN dialog
                     ELSE [dialog EXCEPT !.form = Settled(seen', form, form, dialog.mode)]
    /\ UNCHANGED <<view, server, saving, requests>>

\* A fetch renders the page again.  The open dialog is reset when a list its
\* effect depends on is another one than before; a list that is still unread
\* is a new empty array at every render.
Fetch(list) ==
    /\ list \notin seen.fetched \/ seen[list] # server[list]
    /\ seen' = [seen EXCEPT ![list] = server[list], !.fetched = @ \cup {list}]
    /\ LET reset == \E l \in ResetLists : l \notin seen.fetched \/ seen'[l] # seen[l]
           form  == IF reset THEN Fresh(seen', dialog.mode, dialog.row) ELSE dialog.form
       IN  dialog' = IF ~IsOpen THEN dialog
                     ELSE [dialog EXCEPT
                             !.form = Settled(seen', form, form, dialog.mode),
                             !.excused = (@ /\ ~reset) \/ Unlisted(seen', dialog.mode, dialog.row)]
    /\ UNCHANGED <<view, server, saving, requests>>

Open(mode, row) ==
    LET form == Fresh(seen, mode, row) IN
    /\ ~IsOpen
    /\ dialog' = [mode |-> mode, row |-> row, form |-> Settled(seen, form, form, mode),
                  excused |-> Unlisted(seen, mode, row)]
    /\ UNCHANGED <<view, server, seen, saving, requests>>

OpenCreate == Open("create", NoRow)

OpenEdit == \E row \in seen.own : Open("edit", row)

Edit(control) ==
    /\ IsOpen
    /\ control \in DOMAIN Controls
    /\ \E value \in Controls[control] :
        /\ dialog.form[control] # value
        /\ dialog' = [dialog EXCEPT
                        !.form = Settled(seen, Edited(control, value), dialog.form, dialog.mode),
                        !.excused = @ \/ (view = "repos" /\ control \in {"kind", "integration"})]
    /\ UNCHANGED <<view, server, seen, saving, requests>>

Cancel ==
    /\ IsOpen
    /\ dialog' = Closed
    /\ UNCHANGED <<view, server, seen, saving, requests>>

\* What the dialog refuses it answers with a message, which is left out.
Submit ==
    /\ IsOpen /\ CanSubmit
    /\ ~Refused
    /\ saving' = [mode |-> dialog.mode, row |-> dialog.row, payload |-> Payload,
                  excused |-> dialog.excused, served |-> "no"]
    /\ Request
    /\ UNCHANGED <<view, server, seen, dialog>>

Serve ==
    /\ IsSaving /\ saving.served = "no"
    /\ saving.mode = "create" => Stored(NewId) = {}
    /\ IF Accepted(saving)
       THEN /\ \E row \in IF saving.mode = "create" THEN {NewRow(saving)}
                          ELSE {PatchedRow(saving, r) : r \in Stored(saving.row.id)} :
                    server' = [server EXCEPT !.own = WithRow(@, row)]
            /\ saving' = [saving EXCEPT !.served = "yes"]
       ELSE /\ saving' = [saving EXCEPT !.served = "refused"]
            /\ UNCHANGED server
    /\ UNCHANGED <<view, seen, dialog, requests>>

\* `await onUpdate(...); onOpenChange(false)`: whatever dialog is open closes.
Saved ==
    /\ IsSaving /\ saving.served = "yes"
    /\ saving' = NoSave
    /\ dialog' = Closed
    /\ UNCHANGED <<view, server, seen, requests>>

\* The API's refusal, or a call that failed on its way there or back: the
\* dialog stays open, with a message.
SaveFailed ==
    /\ IsSaving
    /\ saving' = NoSave
    /\ UNCHANGED <<view, server, seen, dialog, requests>>

\* Other administrators.  The API refuses to delete what a row refers to.
Referred == {r.integration : r \in server.own}

OtherListChange ==
    /\ view \in {"repos", "projects"}
    /\ \E gone \in SUBSET Passing :
        LET list == {i \in Integrations : i.id \notin gone}
        IN  /\ list # server.integrations
            /\ gone \cap Referred = {}
            /\ server' = [server EXCEPT !.integrations = list]
    /\ Request
    /\ UNCHANGED <<view, seen, dialog, saving>>

\* Another administrator creates a ticket project, or deletes an unused one.
OtherProjectChange ==
    /\ view = "repos"
    /\ \E list \in IF server.projects = Projects THEN {Projects \ {p} : p \in Projects}
                   ELSE {Projects} :
           /\ \A r \in server.own : Listed(list, r.project)
           /\ server' = [server EXCEPT !.projects = list]
    /\ Request
    /\ UNCHANGED <<view, seen, dialog, saving>>

OtherMovesIntegration ==
    /\ view = "integrations"
    /\ \E r \in server.own, url \in Addresses \ {""} :
        /\ r.kind \in BaseUrlKinds /\ url # r.url
        /\ server' = [server EXCEPT !.own = WithRow(@,
                        [r EXCEPT !.url = url, !.secretFor = url, !.hasSecret = TRUE])]
    /\ Request
    /\ UNCHANGED <<view, seen, dialog, saving>>

OtherDeletes ==
    /\ \E r \in server.own :
        /\ r.id # NewId
        /\ server' = [server EXCEPT !.own = @ \ {r}]
    /\ Request
    /\ UNCHANGED <<view, seen, dialog, saving>>

ConsoleNext ==
    \/ \E list \in PageLists : Fetch(list)
    \/ OpenCreate \/ OpenEdit \/ Cancel \/ Submit \/ Serve \/ Saved \/ SaveFailed
    \/ \E control \in {"kind", "path", "project", "integration", "other", "name", "url",
                       "email", "secret", "isDefault", "space", "config", "mapping", "events"} :
            Edit(control)
    \/ OtherListChange \/ OtherProjectChange \/ OtherMovesIntegration \/ OtherDeletes

ConsoleSpec == ConsoleInit /\ [][ConsoleNext]_consoleVars

-----------------------------------------------------------------------------
(* Properties *)

\* A stored credential is only ever used with the address it was entered for,
\* although the form decides whether to ask for it again from the row it was
\* opened with, which may be out of date by the time the API sees the request
\* (integration-drawer.tsx:174, internal/api/handlers/integrations.go:207).
SecretKeepsItsAddress ==
    view = "integrations" => \A r \in server.own : r.secretFor \in {"", r.url}

\* The API never refuses what the integration and the notification dialog let
\* pass, unless the edited row was changed or deleted meanwhile: the checks in
\* TypeScript imply the checks in Go.
RefusedOnlyWhenOvertaken ==
    [][/\ IsSaving /\ saving' # NoSave /\ saving'.served = "refused"
       /\ saving.served = "no" /\ view \in {"integrations", "notifications"}
       => saving.mode = "edit" /\ saving.row \notin server.own]_consoleVars

\* A repository's credential is one of its own kind of source.  Only the dialog
\* sees to that, across changes of the kind and of the list; the API does not.
CredentialOfItsKind ==
    view = "repos" => \A r \in server.own :
        r.integration # "" => KindOf(Integrations, r.integration) = r.kind

\* The status mapping and the create config of a saved ticket project were
\* picked for its own external project and for the kind of its integration,
\* whatever was selected in between.
MappingOfItsProject ==
    view = "projects" => \A r \in server.own :
        /\ r.mapping = r.project
        /\ r.config.kind = KindOf(Integrations, r.integration)

\* A fetch in the background takes nothing back from the administrator's input
\* unless it brings a new version of the lists the dialog starts from; in
\* particular a new version of the edited row itself does not.
TypedInputKept ==
    [][/\ seen' # seen /\ IsOpen
       /\ \A l \in ResetLists : l \in seen.fetched /\ seen'[l] = seen[l]
       => \A field \in DOMAIN dialog.form \ {"integration"} :
            dialog'.form[field] = dialog.form[field]]_consoleVars

\* "preserves github source integration when editing repo" (repos.test.tsx:502):
\* saving a repository keeps its credential unless the administrator picked
\* another kind or credential, or the page's list lacked the row's own while the
\* dialog was open, because it was not fetched yet, could not be fetched, or
\* somebody deleted it: then the dialog drops the credential and says nothing.
CredentialKept ==
    view = "repos" /\ IsSaving /\ saving.mode = "edit" /\ ~saving.excused
        => saving.payload.integration = saving.row.integration

=============================================================================
