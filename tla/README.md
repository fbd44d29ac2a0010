# Release Ops: specifications and proofs

Release Ops watches source repositories for new releases and keeps one ticket per
release in a ticket system (Kaneo, Jira, Linear). The server is written in Go: a
scheduler polls every enabled repo, an engine decides what a new release means for the
repo's ticket, and everything that must survive a restart is in one SQLite database.
A Next.js console is in front of it, and scripts in `scripts/` keep the roadmap and
the releases of the repository itself.

This directory holds TLA+ modules of all three, configurations that model-check them,
and proofs of the most important properties for every size of the system. Paths of Go code
are relative to `internal/`, those of the console to `apps/web/`; line numbers refer to
the commit that the modules were written for.

## 1. The system and its parts

| Part | Code | State | Operations | Module |
|---|---|---|---|---|
| Poll engine | `poll/engine.go`, `store/poll.go`, `providers/ticket/create_error.go`, `classify.go` | a row of `monitored_repos`, the engine's copy of it, tickets in the ticket system | `EvaluateRepo`: baseline, skip, create, supersede, merge, skip if open, refuse | `PollEngine`, `TicketLedger` |
| Scheduler and poll runs | `poll/scheduler.go`, `run.go`, `reconcile.go`, `cmd/server/main.go` | the run flag, `poll_runs`, `poll_run_events` | start, list, poll each repo, record, finish, reconcile, shut down | `PollRuns` |
| Ticket providers | `providers/ticket/*.go` | none | create (retry, initial status), update, comment, status | `TicketCalls`, `TicketCreate` |
| Notifications | `poll/notify.go`, `api/handlers/notifications.go`, `store/notifications.go` | targets, each repo's selection | route an action to targets | `Notifications` |
| Users, sessions, one-time tokens | `api/auth/*.go`, `handlers/users.go`, `handlers/invitations.go` | users, sessions, tokens | sign in, invite, accept, reset, change, revoke, delete | `Accounts` |
| Integrations, ticket projects, repos | `handlers/integrations.go`, `ticket_projects.go`, `repos.go`, `store/*.go` | rows that refer to each other | create, change, delete while unused | `Configuration` |
| Settings and schedule | `handlers/settings.go`, `store/settings.go`, `poll/scheduler.go`, `components/settings/settings-view.tsx` | the settings row, the cron entry, the form | change, follow | `Settings` |
| Rate limiter | `api/middleware/ratelimit.go` | hits per client and endpoint | allow, sweep | `RateLimiter` |
| Console: signing in | `middleware.ts`, `app/login`, `app/reset-password`, `app/confirm-email-change`, `lib/hooks` | the session cookie, a query cache per tab | log in, redeem links, log out, navigate | `WebAuth` |
| Console: editing | `components/{repos,integrations,ticket-projects,notifications}` | fetched lists, the open form, a save under way | open, edit, effects, save | `ConsoleForms`, `Console` |
| Console: deleting | the `*-view.tsx` of six pages | the row up for deletion, the attempt | ask, confirm, dismiss, settle | `ConsoleDelete` |
| Roadmap | `scripts/roadmap/**`, `scripts/generate-roadmap.mjs` | the plans | which task waits for which | `RoadmapPlan`, `FormerRoadmap` |
| Roadmap import | `scripts/import-roadmap-phasical.mjs`, `audit-roadmap-*.mjs` | the task board | audit, create, relate, make ready | `RoadmapIntake` |
| Release job | `scripts/ci/create-draft-release.mjs` | tags, draft releases | decide, tag, release | `DraftRelease` |
| Source providers, bootstrap, status and metadata, templates, mail, encryption, migrations, dashboard | see section 5 | none that changes | | not modelled |

How they interact. The scheduler's cron job and `POST /poll/trigger` compete for one
flag. The winner inserts a row in `poll_runs`, copies all enabled repos (`ListEnabled`)
and evaluates them one after the other. The engine calls a source provider and a ticket
provider over the network and writes the repo's row after each decision. Every write
(`UpdatePollState`) replaces all poll columns from the copy. Then it hands the reported actions
to the notifier. Meanwhile administrators edit repos, projects, targets and settings over
the API, and people work in the ticket system. The row of `poll_runs` is completed when
the run ends; what a dead process left behind is completed by
`ReconcileInterruptedRuns` before the next process serves.

The API's handlers share one database connection, and a transaction never spans two
of a handler's statements unless the store says so. So statements are atomic and
handlers are not: two requests interleave between their reads and their writes. The console
adds a second layer of copies: what a page fetched, what a form was opened with, what an
answer that arrives late still refers to.

What is hard, and what makes each part correct:

* **Engine.** A create can time out and its ticket appear later; the process can die
  between a ticket and the write of its link; the row can be edited under the copy.
  Correct means: one ticket per release, none forgotten, an old ticket is closed only when
  its successor is linked, a release counts as known only after its work is done, and a
  new source starts with a baseline.
* **Scheduler and runs.** Cron, requests, shutdown, crash and reconciliation interleave.
  Correct means: one run at a time, a finished row is final and true, the flag never
  sticks, and shutdown waits for every run.
* **Ticket providers.** A create may be sent twice (Jira without its priority) and its answer
  may be an error although the ticket exists. Correct means: the engine is told "not
  stored" only when nothing is and nothing will be, and an ID that arrived is not lost.
* **Notifications.** An empty selection means every target. Correct means: no failed read and
  no edit during a poll widens who hears of it.
* **Accounts.** Tokens are validated, consumed and acted upon in separate
  statements. Correct means: a token works once, a session never outlives its user, success
  means that the other sessions are gone, and whoever is invited keeps a link.
* **Settings and configuration.** Handlers read, validate and write in separate
  steps. Correct means: what is stored is allowed, a PATCH leaves what it does not name alone
  unless another one ran in between, and nothing that is still referenced goes away.
* **Rate limiter.** Correct means: equal to the plain definition of a window at every
  boundary, and bounded memory.
* **Console.** Effects, fetches and late answers change a form that somebody is typing
  in. Correct means: what is saved belongs together, what was typed stays, a late
  answer touches only its own dialog, and the page's checks agree with the server's.
* **Scripts.** Commands fail at any call and are run again, jobs are cancelled. Correct
  means: repeating neither duplicates nor loses anything.

## 2. Modules

Each `MC` module only adds model values, instances and symmetry sets. `MCPollRuns`, `MCServer`, `MCWeb`
and `MCTooling` hold several modules that share no state; a behaviour there is one of a single part
(the variable `part`), so the state space is the sum of the parts and not their
product. The definitions named "Mutant" in a comment are plausible mistakes; no action uses
them. Each is put in the place of the definition it belongs to, to see that the
property which should catch it does.

### PollEngine: one repo, one evaluation at a time

| Variable | Code |
|---|---|
| `row` | the repo's row in `monitored_repos`: target, `last_known_tag`, open ticket and its tag, `pending_ticket_tag`, last error |
| `snap` | the `store.MonitoredRepo` that `EvaluateRepo` got, as its assignments change it |
| `phase`, `tag`, `old`, `cur` | where the evaluation is and its local variables |
| `calls` | every create request with the ticket it may have become |
| `latest` | the newest release of each source |
| `stops` | crashes and shutdowns so far |

An evaluation takes a step for each call that leaves the process: `ListRepo`, then
`FetchFails`, `Baseline`, `Skip` or `NewTag`; for a new tag the live status of the open
ticket (`StatusFails`, `OpenTicketClosed`, `ApplyPolicy`); before a create the note
(`MarkTicketPending`, or `RefuseRepeatedCreate` when a note for this release is there);
the create itself (`SendCreate`, then `CreateAnswered`, `CreateRejected` or
`CreateUnclear`); the link (`LinkTicket`, `LinkLost`); the old ticket (`CloseOldTicket`,
`ReportOldTicket`); a merge (`MergeTicket`, `SaveMerge`). `InputFails` stands for
templates that do not render. A write of the row may fail in every one of them.

`CreateUnclear` leaves the request on its way: `StoreTicket` may still store it, at any
later time, also after a crash. `CreateRejected` is what `CreateDefinitelyNotStored`
accepts: a 4xx answer, or a request that never left.

`Retarget` is `PATCH /repos/{id}` with `resetPollStateOnTargetChange`. With `MidRunEdits =
FALSE` it happens between evaluations only, with `TRUE` at any moment. `Retract`,
allowed by `Retractions`, withdraws the newest release of a source.

Abstractions: a release is its source and its number in the order of publication; a
ticket has the class of its status instead of a status, and the release its text
describes instead of a text; the message of an error is a Boolean. The epoch in a target
tells two visits of the same target apart: a fresh row may legitimately get a ticket
for a release it had one for before.

`TicketLedger` is what an administrator may rely on: a ledger of releases that are asked
for, linked and closed, without row, copy, note or phases. `PollEngineLedger` reads
the engine's `calls` as such a ledger (a release is a target and a tag), and
`KeepsLedger` says that every step of the engine is an entry or leaves the ledger as it is.

### PollRuns: runs and the life of the process

| Variable | Code |
|---|---|
| `proc` | where `run()` in `main.go` is: down, booting, reconciling, up, draining (`srv.Shutdown`), waiting (`Scheduler.Shutdown`), closing |
| `stale` | rows `ReconcileInterruptedRuns` collected and has not finished |
| `running` | `Scheduler.running` |
| `pc`, `mem` | for each cron firing or trigger request: where it is, and the local variables of `RunAll` and `RecordEvaluation` |
| `runs` | `poll_runs` with `poll_run_events` |
| `stops` | crashes and shutdowns so far |

`Arrive`, `TryStart`, `AlreadyRunning`, `InsertRun`, `InsertFails` are the two ways to start.
`ListEnabled`, `ListFails`, `NextRepo`, `Interrupted`, `LoopEnds`, `PollRepo`,
`RecordAction`, `RepoDone` are `RunAll`. `FinishRun`, `FinishFails`, `Release` are the end of
`executeRun`. `Boot`, `ListStale`, `ReconcileRun`, `ReconcileFails`, `StartScheduler`, `Stop`,
`Drained`, `RunsAreDone`, `Exit`, `Crash` are the process. A cron job inserts its row under
the context that shutdown cancels, a request under its own; both run under the
former, and both write the result under a context that is not cancelled.

`PollEngine` and `PollRuns` meet in `OneRunAtATime`: because only one run polls at a time,
`PollEngine` needs no second evaluation of a repo. In the other direction, `PollRepo` takes
the evaluation as one step with the outcomes the engine can report.

### TicketCalls and TicketCreate: the provider behind a create

`TicketCreate` is the contract that `PollEngine` assumes in `CreateAnswered`,
`CreateRejected` and `CreateUnclear`: at most one ticket; an ID is that of a stored one;
after "not stored" none will ever be. `TicketCalls` is one `CreateTicket` call of a
provider: a request on the wire, a ticket system that stores or refuses, an answer that is
good, garbled or an error, timeouts at both ends, Jira's second request without a
priority and its transition to the initial status. `KeepsContract` is the refinement, with
the ticket derived from how many issues were stored and whether one still can be.

### Accounts

A request runs a program: the sequence of its handler's statements, from `"validate"` and
`"consume"` to `"revoke"` and `"session"`. The programs are in the module's first part, one
definition per handler; each statement is an action. Any request fails before
any statement (`RequestFails`) and leaves behind what it has done. `Ask` starts a request with
an address, the link of a token or a session's cookie; `Expire` lets a token's time run
out. Sessions are stored when the response is written, hence after everything else, and
refer to their user by a foreign key.

### Configuration

A handler reads (`ReadIntegration`, `CountReferences`, `ReadProject`, ...) and writes in a
later step. The secret and the default flag are taken from the row inside the
transaction of the write, the base URL from the handler's earlier read. `overtaken`
records, for the properties, that another request stored something since this one began. The
unique default per kind and the foreign keys are checked by the database at each write. A repo's
path and policies are left out; that its target resets the poll state is in `PollEngine`.

### Settings

The PATCH handler in its three statements (read, store the interval, store both
expiries), for two clients: the settings page and any other. The page's form, its
validation, its save of all three fields and the effect that refills it when a refetch brings
other values are in the same module, as is the scheduler's reload every minute
and a restart, which forgets the schedule and every request in flight.

### RateLimiter and Notifications

`RateLimiter` has the clock reading and the locked part as two steps, so that two requests
may pass the lock in the other order. `admitted` is history: all requests ever admitted,
which the implementation forgets and the reference definition needs. A bucket's hits are
positions in it, which keeps both their times and the order in which they were entered.

`Notifications` is one repo's polls beside the administrators who edit targets and
selections. `audience` is history: the targets meant at some time since the poll loaded
the repo.

### WebAuth, ConsoleForms, Console, ConsoleDelete

`WebAuth`: tabs share the cookie (`signed`) and hold a page, a form and a query cache each.
A form's request is asked, served and answered in separate steps, and the answer can be
lost between them (the proxy's 502). `Middleware` is where a request for a page ends up. The API is
reduced to what the forms rely on.

`ConsoleForms` has, for each of the four dialogs, what a form starts from (`*Blank`,
`*Loaded`), which values its controls offer (`*Controls`), what its effects do after an edit
or a fetch (`*Settled`), what it refuses (`*Refused`), what it sends (`*Payload`) and what
the API accepts (`*Accepted`). `Console` runs one of them: fetches in the background, one
save at a time in two steps, other administrators who change rows and lists.
`ConsoleDelete` is the delete dialog of six pages; three number their attempts, three do not.
A list is a set of rows; `at` is a row's place in the listing, and the first integration
of a kind is the one with the smallest.

### RoadmapPlan, FormerRoadmap, RoadmapIntake, DraftRelease

`RoadmapPlan` and `FormerRoadmap` are the dependencies of the current plan (`E01` to `E11`) and of
the one it replaced (`P00` to `P28`); `Wave` finishes whatever is unblocked. `RoadmapIntake` is the
import with its audits, over small plans with one fault for each audit to find.
`DraftRelease` is the job that tags and releases when `VERSION` was raised, with its
comparison of versions as the script does it.

## 3. Runs

Passing runs:

| Run | What it asks |
|---|---|
| `engine_core` | `OneRequestPerRelease`; `NoTicketForgotten`; `NoOrphanedSupersede`. Late, lost and rejected creates, tickets moved by hand, new releases, a crash or shutdown at any step, a ticket project changed in the middle of a poll. |
| `engine_retarget` | `OpenTicketInProject` and `NoTicketBeforeBaseline` when source or project change between polls; `KnownOnlyWhenHandled`; with withdrawn releases. |
| `engine_live` | `EventuallySettledOrReported`: no release is lost silently. `KeepsLedger`: the engine implements `TicketLedger`. |
| `runs_content` | `StatusTellsTheTruth` and `FinishedRunAddsUp` for a run over two repos with every outcome, cut short anywhere; `PollingEnds` and `EveryRunFinishes` under fairness. A part of its own, the settings: `ScheduleFollows`. |
| `runs_process` | `OneRunAtATime`; `RunningRowsExplained`; `FinishedStays`; `CleanStop`, with a cron job and two requests. |
| `server` | Accounts: `TokenSpentOnce` (a link is spent by one request), `SuccessSignsOutOthers` (a reset or change that answered with success left no other session), `InvitationKeepsALink` (an invited person is never without a link that was given to them). Configuration: `FailureNeedsOverlap` (the database turns down only what another request invalidated), `SecretMovedByOverlap`, `UnnamedFieldsKept`. Settings: `OnlyOverlapLoses`. `DecidesByWindow` of the limiter. `KeepsContract` of a create call. `OnlyChosenTargets` of the notifications. |
| `web` | `ShownUserIsSignedIn`; of what the dialogs save: `SecretKeepsItsAddress`, `CredentialOfItsKind`, `CredentialKept`, `MappingOfItsProject`; `RefusedOnlyWhenOvertaken` (the page's checks imply the server's); `TypedInputKept`; `LateAnswerTouchesNothing`. |
| `tooling` | `PlanCanBeFinished`; `OneTaskPerId` and `CompleteImport` over failed and repeated imports; `ReleasesIncrease` and `NotesCoverCommits`. |

Runs that show a disagreement between the code and what is said about it:

| Run | What happens |
|---|---|
| `engine_stale_link` | The ticket project is changed while the repo is polled: the poll's write from its copy puts back the link into the old project (`engine.go:184`), although `repos.md:40` says that the change clears it. |
| `engine_retract` | There is one note per repo. Create 1 is unclear; release 2 overwrites the note and its create is rejected, which clears it; release 2 is withdrawn; release 1 gets a second ticket. `engine.go:463-464` and `poll-runs.md:87` say this cannot happen. |
| `config_secret` | Two PATCHes of an integration. The first keeps address and secret and has read the row; the second stores a new address with its secret; the first then writes the old address back. The new secret is now sent to the old host, against `handlers/integrations.go:205`. |
| `last_user` | Two users delete each other at once. Both handlers count two users (`handlers/users.go:75`) and none is left, against `handlers/users.go:81`. |

Each has a theorem that says under which condition the statement holds (section 4): no change
of the target during a poll (`OpenTicketBelongs`), no withdrawn release (`UnclearIsNotRepeated`), no
two PATCHes of one integration between check and write (`SecretStaysWithOnePatch`), no two deletions
between count and delete (`LastUserStays`). For the third, `SecretMovedByOverlap` also says what
moved the secret.

### Behaviour met on the way

Found while reading for the models; no run is about them:

* A source changed while the repo is polled gets the old source's `last_known_tag` back, by
  the same write as in `engine_stale_link`.
* When the final write of a run fails, its row says "running" until the next start
  (`scheduler.go:258`); `RunningRowsExplained` allows exactly this. A run that the
  reconciliation finishes has zero counters next to its events (`reconcile.go:42`).
* A login that compared the old password before a reset stores its session after the reset
  revoked the others. `SuccessSignsOutOthers` therefore exempts sessions of requests.
  Two overlapping requests for a reset leave two links that work.
* A PATCH of the settings that is refused for an expiry has already stored its interval. The page
  always sends all three fields, so a save overwrites what another client changed.
* Two PATCHes of a ticket project lose one of them's templates (`ticket_projects.go:347`).
* A deletion of a repo's last selected notification target makes the selection empty, which means
  every enabled target.
* Two requests that pass the limiter's clock and lock in opposite order can lose hits to a sweep.
* Editing a repo before the integrations list is fetched drops its credential silently
  (`repo-dialog.tsx:172`); a credential picked while adding one is lost when a refetch
  of the ticket projects resets the form (`repo-dialog.tsx:144`).
* A late save closes the dialog that was opened after it; the notifications, users and
  invitations pages have neither attempt numbers nor an error text for deletions.
* A repeated import moves tasks back to `ready`, whatever became of them, although
  `import-roadmap-phasical.mjs:342` calls it idempotent. The release job compares
  prereleases as text, so `rc.10` after `rc.9` is skipped; and git sorts `1.0.0-rc.1` after `1.0.0`,
  so after `1.0.0` a push of `1.0.0-rc.2` is compared with `rc.1` and released.

### Bounds

* `engine_core`: four releases, three create calls, one crash or shutdown, one change of
  the project, at any moment. The history of a note needs a create that is unclear, a later
  release that replaces the note, and one more attempt: three calls and three releases
  after the baseline. Without withdrawals a release is only ever repeated while
  it is the newest one, so more of them repeat the same states. Here and in `engine_retarget`
  calls, sources and projects are symmetric: the module only compares them.
* `engine_retarget`: two sources, two projects, two releases each, two calls, one change of the
  target, no crash: what the properties say of the row, a crash leaves as it is, and every
  write may fail without one.
* `engine_live`: three releases, two calls. It drops symmetry, as liveness requires. When
  all calls are used up, an evaluation that wants to create can only fail in
  `InputFails`, which reports an error; two calls let the refusal, the lost link and the
  crash happen before that.
* `runs_content`: two repos give every relation of errors to repos (none, some, all); one run,
  one starter of each kind, one stop, no symmetry. The settings have a small instance here,
  because liveness is checked on the whole graph: the interval takes the values 5, 6 and
  a refused 4, the expiries are asked for and stay as they are.
* `runs_process`: three starters and two rows, two stops, so that a crash can follow
  an interrupted shutdown and two requests can race with the cron job.
* `server`, accounts: two requests of all twelve handlers, two users with a session each, one
  token of each kind. Each property relates at most two requests. A free address lets an
  invitation, an address change and a registration compete for it. Configuration: two
  requests, two integrations of one kind and one of another, one project, one repo: enough
  for a default to move, a reference to appear between count and delete, and a read to be
  overtaken. Settings: the page and one other client; the interval and one expiry change, the other
  expiry stays, and an expiry above its limit is asked for (an interval below its limit in
  `runs_content`).
  Limiter: two keys with different windows, two requests on their way, a clock that passes each window and
  two sweeps. Create calls: one call of each provider with every setting. Notifications: two
  targets, two subscriptions, three lists of actions.
* `web`: two tabs and two users; one row per page, two saves or changes by others together (one
  administrator's save, one overtaking it); two rows, two openings and three attempts of the
  delete dialog.
* `tooling`: both plans in full, with and without the epics' own order. An import of one epic with
  two leaves, one of which waits for the other, run twice. Five commits and
  three versions without prereleases, for which the script's order is the one of semver.org.

The theorems of section 4 do not have these bounds.

### Fairness

`PollEngine!FairSpec` assumes that evaluations go on: the cron starts polls again and
again and each call has a timeout, so no step of an evaluation waits for ever
(`WF_vars(Evaluate)`). It also assumes that a point of the evaluation that is reached again and
again, with something to write, is at some time left by more than a failed write
(`Proceeds`). Where a repo has nothing new, nothing is assumed, since a fetch
that fails there without leaving an error looks like a fetch that found nothing.
Nothing is assumed of the source, the ticket system, people or crashes.

`PollRuns!FairSpec` assumes that a started run goes on (every call it makes has a
timeout), that the process is started again when it went down (`restart: unless-stopped`
in `docker-compose.yml`), that its startup and its shutdown, each with a timeout, go on, and that
the reconciliation of a row, tried at each start, succeeds at some time (`SF`). It does not
assume that the cron fires, that a write of a result succeeds, or that a process
whose run is stuck is restarted.

`Settings!SettingsFairness` is the ticker of `watchSettings`, which runs as long as the
server does. Nothing is assumed of clients, refetches or restarts.

The other properties are safety properties and assume no fairness. `CHECK_DEADLOCK FALSE` stands where
the system may stop: requests, tabs or jobs of an instance are used up.

## 4. Proofs

Everything here holds for any number of sources, projects, releases, create calls, repos,
starters, requests, clients, tabs, rows, targets, stops, roadmap tasks, versions and commits. The only assumptions on constants
are those named in the modules: bounds are natural numbers, the markers for SQL NULL are
not identities of anything, jobs and requests are different, the set of repos is finite, and
the rows that are there at the start are as the program stores them. That means: their fields
have their types, ids are unique, a secret stands beside its own address, each kind has at most one
default, a repo has its project, settings are within their limits. A roadmap is finite and has a
leaf, and "0.0.0" is not released. TLC evaluates all of them in the runs.

| Theorem | Module | Property |
|---|---|---|
| `Typing` | `PollEngineProofs` | `TypeOK` |
| `OneTicketPerRelease` | `PollEngineProofs` | `OneRequestPerRelease`, assuming `~Retractions` |
| `UnclearIsNotRepeated` | `PollEngineProofs` | `UnclearNeverRepeated`, assuming `~Retractions` |
| `NothingForgotten` | `PollEngineProofs` | `NoTicketForgotten`, assuming `~Retractions` |
| `OpenTicketBelongs` | `PollEngineLedgerProofs` | `OpenTicketInProject`, assuming `~MidRunEdits` |
| `EngineKeepsLedger` | `PollEngineLedgerProofs` | `KeepsLedger` (refinement), assuming `~Retractions` |
| `BaselineFirst` | `PollEngineLedgerProofs` | `NoTicketBeforeBaseline`, assuming `EditsKeepSource` |
| `KnownIsHandled` | `PollEngineLedgerProofs` | `KnownOnlyWhenHandled`, assuming `~MidRunEdits` |
| `ReplacedBeforeClosed` | `PollEngineLedgerProofs` | `NoOrphanedSupersede`, assuming `~Retractions` and `EditsKeepSource` |
| `RunsTyping` | `PollRunsProofs` | `TypeOK`, which includes that no run goes on without a row |
| `OneRun` | `PollRunsProofs` | `OneRunAtATime` |
| `Truth` | `PollRunsProofs` | `StatusTellsTheTruth` |
| `Final` | `PollRunsProofs` | `FinishedStays` |
| `RunningExplained` | `PollRunsProofs` | `RunningRowsExplained` |
| `ShutdownIsClean` | `PollRunsProofs` | `CleanStop` |
| `ResultAddsUp` | `PollRunsProofs` | `FinishedRunAddsUp` |
| `CallsKeepContract` | `EdgeProofs` | `KeepsContract` (refinement) |
| `IdIsNotLost` | `EdgeProofs` | `IdNotLost` |
| `MessagesStayInTheAudience` | `EdgeProofs` | `OnlyChosenTargets` |
| `WindowDecides` | `EdgeProofs` | `DecidesByWindow` |
| `AccountsTyping` | `AccountsProofs` | `AccountsTypeOK` |
| `SpentOnce` | `AccountsProofs` | `TokenSpentOnce` |
| `OthersSignedOut` | `AccountsProofs` | `SuccessSignsOutOthers` |
| `LinkKept` | `AccountsProofs` | `InvitationKeepsALink` |
| `LastUserStays` | `AccountsProofs` | `SomeUserRemains`, while no two deletions of users overlap |
| `ConfigInvariant` | `ConfigurationProofs` | `ConfigInv`: types, unique ids, one default, no dangling project |
| `SecretStaysUnlessOvertaken` | `ConfigurationProofs` | `SecretMovedByOverlap` |
| `SecretStaysWithOnePatch` | `ConfigurationProofs` | `SecretSentToItsHost`, while no two PATCHes of an integration overlap |
| `FailureIsOvertaken` | `ConfigurationProofs` | `FailureNeedsOverlap` |
| `PatchKeepsFields` | `ConfigurationProofs` | `UnnamedFieldsKept` |
| `StoredSettingsAllowed` | `ConfigurationProofs` | the schema's CHECK constraints on the settings never refuse |
| `PatchLosesNothing` | `ConfigurationProofs` | `OnlyOverlapLoses` |
| `PagesShowTheUser` | `WebProofs` | `ShownUserIsSignedIn` |
| `LateAnswers` | `WebProofs` | `LateAnswerTouchesNothing` |
| `FetchKeepsInput` | `WebProofs` | `TypedInputKept` |
| `CredentialStaysAtItsAddress` | `WebProofs` | `SecretKeepsItsAddress` |
| `DialogChecksSuffice` | `WebProofs` | `RefusedOnlyWhenOvertaken` |
| `CredentialsFitTheirKind` | `WebProofs` | `CredentialOfItsKind` |
| `SaveKeepsCredential` | `WebProofs` | `CredentialKept` |
| `MappingsFitTheirProject` | `WebProofs` | `MappingOfItsProject` |
| `NoDuplicateTask` | `ToolingProofs` | `OneTaskPerId` |
| `NothingLost` | `ToolingProofs` | `CompleteImport`, assuming `~LooseSearch` |
| `NotesAreComplete` | `ToolingProofs` | `NotesCoverCommits`, also with prereleases |
| `ReleasedInOrder` | `ToolingProofs` | `ReleasesIncrease`, of versions without prereleases |

**PollEngine.** `OneRequestPerRelease` and `NoTicketForgotten` are not inductive. The
invariant that is, `IInv`, has these parts besides the types:

* `PhaseInv`: what each phase knows. Between evaluations the copy is the row; from `send` on
  the copy's note names the release; in `waiting` and `link` the evaluation's own call
  is live, for this release and target, and not linked.
* `CopyInv`: while the row still has the target of the copy, the row's known tag and
  note are those of the copy. This is what the order "write the note, then call"
  and the single evaluation buy. A change of the target gives the row an epoch that no
  call has yet, so a stale write cannot make the engine repeat one.
* `CallInv`: no live call is for a release beyond the frontier (the release under
  evaluation, else the newest), and if it is for the frontier itself the copy
  remembers it: as the known tag when it is linked, as the note when it is not. Older
  releases can never be ticketed again, because without withdrawals the
  frontier only grows.
* `OneRequestPerRelease` itself.

The three theorems assume `~Retractions`; `engine_retract` shows that the assumption is
needed. They hold with and without `MidRunEdits`. `UnclearIsNotRepeated` follows from the
invariant after the step that sends: the new create and the unclear one would both be live.

**The ledger.** `LinkInv` adds what rows, copies and tickets know of links: every ticket that
the row, the copy or the evaluation holds as an earlier one exists and is linked; while the old
ticket is being closed, the new one is live, linked, another one and not itself closed; only
linked tickets have the superseded status; and, with `~MidRunEdits`, the linked ticket is of
the row's project. `OpenTicketBelongs` is that last part; `engine_stale_link` shows why it
needs its assumption. For `EngineKeepsLedger` the invariant of the engine says that two
live calls are of two releases (`ReleasesDiffer`), so the change of one call is
one entry about one release: `SendCreate` is `AskFor`, `CreateRejected` is `Refused`,
`LinkTicket` is `Link`, `CloseOldTicket` is `Close`, `MoveTicket` may be `Reopen`, and every
other step leaves the ledger as it is.

**Baseline, order, work done.** Three theorems look at the row again and share two lemmas:
`StepKeepsCalls` (a ticket never loses its release, its project or its link) and `StepKinds` (an
evaluation ends, moves on, or takes one of nine steps that write).

* `SourceInv`: the known tag of row and copy is of their own source, and an evaluation that
  has found a tag has a baseline. `EditsKeepSource` says that no edit changes the source
  during a poll: none is made then, or there is one source. Without it a stale write
  brings back the other source's tag (section 3), so it is needed.
* `HandledInv`: the copy's known tag is the row's until the evaluation writes it, and the
  ticket at hand describes the release at hand. For an edit in the middle this is false.
* `OrderInv`: the open ticket is for no release beyond the known one, the one under
  evaluation is newer, and the old ticket's is older than the new one's. So `CloseOldTicket` leaves
  a newer, linked ticket behind, and no later step unlinks it (`ReplacementStays`).

**PollRuns.** `OneRun` needs one more fact to be inductive, `FlagHeld`: whoever is between
`tryStart` and `finish` holds the flag. So nobody else gets in, and whoever lets go
of it was the one that held it.

`Truth` and `Final` need `RunsInv`:

* `Quiet`: until the reconciliation is over, no starter moves, and only it has rows to
  finish, all of them left running. This is why `main.go` must reconcile before it
  starts the scheduler.
* `Local`: what the local variables of a run say of its row. The row is running until
  the run has written its result; the repos polled and those still to poll are the
  repos that were listed; a repo with an error was polled; a loop that ended by itself left
  no repo.
* `FlagHeld` and `OneRunAtATime`: the run that writes a row is the only one that looks at it.

Each step then writes at most one row, which is not finished, and with a true status
(`RowsStep`); both theorems follow. That the counts `RunFinishStatus` compares decide
how the sets of repos lie to each other (`CountsTell`) uses that the repos are finitely
many and that the errors are errors of polled repos.

`RunningExplained` adds `Explained`: a row that says "running" is one that the reconciliation still
has to finish, and once the process serves, one whose run still has its result to write
or failed to. `ShutdownIsClean` follows, since `Shutdown` returns only when no starter
is in a run. `ResultAddsUp` adds `SumInv`: through the loop each event is of a repo that the local
variables count, what they count as created was made, and an action still to record
happened. An event that cannot be inserted is logged and its action counts anyway, so a count may
lack its event but never the reverse.

**TicketCalls.** `CallInv`: a call that may still send has stored nothing and has
nothing on the way (`FreshWhenReady`), which makes Jira's second request safe; what is on the
way tells the truth about what was stored (`WireTellsTruth`); after "not stored" there is no
ticket and no request that could become one (`RefusedForGood`). Each step then maps to a step
of `TicketCreate` or to none.

**Notifications.** `NotifyInv`: whoever the poll's copy could address, or has in its queue, is in the
audience (`AudienceCovers`); an empty copy implies that everybody is.

**Rate limiter.** `LostIsOver`: what the store has lost of a key whose requests came in order had left its
window by the time of some request (`SweptIsOver`: the last hit is the newest, so when it is
over the others are). A request at that time or later sees in the store all that its window holds. For
a key whose requests overtook each other this is false, which is why the property is about keys in order.

**Accounts.** The lemmas `Handler` and `Steps` say of all twelve programs which statement comes
before which; the rest of the proof uses only that. `AccountsInv` has these parts:

* `FreshInv`: ids are unique, and a token with a request's id was inserted by that request.
* `SpentInv`: the token of a request past its consuming statement is used. With the
  condition of that statement (`used_at IS NULL`) the next request with the same link fails, hence
  `SpentOnce`.
* `SignedOutInv`: past its revocation a request has left its user only sessions that requests
  began, and, until it renews it, its own.
* `LinkInv`: a token has the kind and the address of the request that inserted it.
* `KeepsLinkInv`: while no invitation is taken back or accepted, the requests can be numbered so
  that a link has a higher number than the one it replaces, and of each invited address
  the highest link that was given out still works. The numbering exists because a resend
  stores and mails its own link before it deletes the one link it replaces: what it deletes has
  a lower number than what it gave out.

* `LastUserInv` stands apart, since it needs that no two deletions overlap: while a deletion is past
  its count there are two users of different ids (`UserIdsInv`), and only its own delete can
  change that, at which it is over.

**Configuration.** `CheckedInv` is the heart of `ConfigInv`: what a request in flight has read or
checked (the address, the merged templates, that nothing refers to the row) still holds at its
write, unless it was marked as overtaken. `IdsInv` and `RowsInv` are what the database
enforces. Then a request that nobody overtakes cannot meet a constraint
(`FailureIsOvertaken`), writes back only what it read (`PatchKeepsFields`) and leaves a secret at
its host (`SecretStaysUnlessOvertaken`). `SecretStaysWithOnePatch` needs less than that nobody
overtakes: in `HostInv` a PATCH past its check that keeps the secret holds the row's address, which
no other kind of request changes, and no later row takes its id.

**Settings.** `CopyInv`: what a PATCH has read is allowed, and is the row unless another one has
stored since. It fills what the request leaves out from this copy and checks only what was sent;
together with the limits of the stored row, every write is allowed
(`StoredSettingsAllowed`), also the interval of a PATCH that is then refused.

**Web.** `ShownInv`: data that is not marked as stale is that of the signed-in user, or the change
was made in another tab; and only the login page and the pages of mailed links, which hold no data, wait for
an answer that signs somebody in. `CallInv`: an attempt that is still current belongs to the dialog that is open,
so on the pages that number attempts an answer of an earlier one does nothing. For the editing
dialogs, each page has an invariant that relates the rows of the server, the open form
and the save under way:

* `IntegrationsInv`: every row passes the API's own checks, and what a dialog let pass is
  accepted for the row it was opened with (`ChecksOfCreate`, `ChecksOfPatch`).
* `ReposInv`: the form's credential is of the form's kind through every effect (`SettledFits`);
  unless the dialog is excused (another credential was picked, the list lacked it), it is the row's.
* `ProjectsInv`: the form's mapping is of the selected project or none, and whatever became of a row that
  the page knows, its id stands for the same external project (`KnownProject`).

That a listed kind is the integration's own, and that the first of a non-empty list exists
(`LeastNat`, from the well-foundedness of the natural numbers), is what the three share.

**Roadmap import.** Its list order is a permutation of the tasks (`TaskOrder`). `IntakeTypeOK` with
`KnowsEnough`: past the audits every description carries its id; what the run knows is on the
board; in the last two loops it knows every task. A step keeps the marker of each task and
appends at most one task, which the board does not have yet (`BoardStep`), because the list at the
start or the search shows what an earlier run has left, hence `NoDuplicateTask`. For `NothingLost`:
`KnowsTrue`, what the run takes for a task carries its id, which is where a search that
answers with another task (`LooseSearch`) would break it, and `Wired`, the leaves the loop has passed are
wired. A run that ends with "done" knows all tasks, so no guard has left a relation out.

**Release job.** `JobInOrder`: between its checks and its release a job is the only one that tags, as
a push cancels it. So the tag it has seen is still git's first of the others, and its version is greater by the
script's order. `TagsHaveFirst`, any two tags are ordered by git, gives `LastTag` something to
choose. `NotesCoverCommits` is not inductive: the tag without a release that accounts for a commit
may get its release later. `CoveredFromBelow` says that this tag is smaller, by the script's order,
than the release it accounts for; that order is transitive (`Orders`), so following it from tag to
tag ends. `ReleasedInOrder` needs git's and the script's order to be the same, which they are
without prereleases; with them the property is false (section 3).

**Only model-checked.** Liveness under fairness, which is out of the prover's reach:
`EventuallySettledOrReported`, `PollingEnds`, `EveryRunFinishes`, `ScheduleFollows`. Of the safety
properties: `PlanCanBeFinished`, which is about the two plans in the repository and nothing else: TLC covers
them in full.

## 5. Not modelled

* Source providers: stateless reads over pages of releases. Their answer is an input of
  `PollEngine`.
* Texts, templates, mail, encryption, parsing of configuration: transformations and I/O
  without control state.
* Migrations: a library runs them before anything else starts.
* Bootstrap and `seed-admin`: they run before the API serves. Two processes on one empty
  database would both count no users (`bootstrap.go:75`); the deployment has one.
* Status and metadata endpoints: reads without state.
* The dashboard, layout components and the proxy of the console: they render and forward. The
  proxy's one effect on others, an answer that is lost, is in `WebAuth`, `Console` and
  `ConsoleDelete`.
* In `PollEngine`: that several repos share a ticket project (a ticket belongs to one
  repo), what exactly a provider sends, disabling or deleting a repo during a poll. A Kaneo
  merge, which is two requests, is one step: if its second request fails, the step
  has failed and the whole merge is repeated.
* In `PollRuns`: the per-run cache of integrations and clients, the pages of the run list.
* In `Configuration`: a repo's path and policies, names, and the fields no other row depends on.
* In `ConsoleForms`: several external projects per workspace beyond one each, wording, focus.
* In `RoadmapPlan`: titles, texts, acceptance criteria and files of the tasks.

## 6. What could follow

* Modules: the choice of the newest release from pages; the dashboard's polling of a run.
* Two repos of one ticket project in `PollEngine`.
* `ReleasesIncrease` for versions with prereleases, as a run that expects its violation.
