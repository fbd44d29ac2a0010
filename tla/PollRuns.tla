------------------------------ MODULE PollRuns ------------------------------
(***************************************************************************)
(* Poll runs: who may start one, what a run does and leaves behind in      *)
(* poll_runs and poll_run_events, and how runs meet the life of the server *)
(* process (internal/poll/scheduler.go, run.go, reconcile.go and           *)
(* cmd/server/main.go).                                                    *)
(*                                                                         *)
(* A starter is a cron job or a request to POST /poll/trigger; the one     *)
(* that wins becomes the goroutine of the run.  What happens inside the    *)
(* evaluation of a repo is module PollEngine; here it is one step with the *)
(* outcomes that the engine can report.                                    *)
(***************************************************************************)
EXTENDS Naturals, FiniteSets, Sequences

CONSTANTS
  Repos,      \* monitored repos
  Jobs,       \* firings of the cron entry that can be alive at once
  Requests,   \* requests to trigger a poll that can be alive at once
  Runs,       \* identities of poll_runs rows
  MaxStops    \* bound: crashes and shutdowns of the process

NoRepo == "noRepo"     \* an entry of errors_json about the run, not a repo
NoRun  == "noRun"

ASSUME RunsAssumption     == NoRun \notin Runs /\ NoRepo \notin Repos /\ IsFiniteSet(Repos)
ASSUME StartersAssumption == Jobs \cap Requests = {}
ASSUME StopsAssumption    == MaxStops \in Nat

Starters == Jobs \cup Requests

Statuses == {"unused", "running", "success", "partial", "failed"}
Finished == {"success", "partial", "failed"}
Actions  == {"quiet", "create", "supersede", "error"}

\* A row of poll_runs with its events.  The counters repos_checked, tickets_created and
\* tickets_superseded are the cardinalities of checked, created and superseded: a run
\* polls a repo once.  Not in the code: which repos were listed, the repos that
\* a ticket was made for, and whether the write of the result failed.
Rows == [status     : Statuses,
         checked    : SUBSET Repos,
         created    : SUBSET Repos,
         superseded : SUBSET Repos,
         errors     : SUBSET (Repos \cup {NoRepo}),
         events     : SUBSET (Repos \X Actions),
         listed     : SUBSET Repos,
         made       : SUBSET Repos,
         lost       : BOOLEAN]

\* Local variables of RunAll and RecordEvaluation.
Memory == [run        : Runs \cup {NoRun},
           todo       : SUBSET Repos,
           repo       : Repos \cup {NoRepo},
           actions    : Seq(Actions),
           checked    : SUBSET Repos,
           created    : SUBSET Repos,
           superseded : SUBSET Repos,
           errors     : SUBSET Repos,
           cut        : {"no", "interrupted", "unlisted"}]

NoMemory == [run |-> NoRun, todo |-> {}, repo |-> NoRepo, actions |-> <<>>, checked |-> {},
             created |-> {}, superseded |-> {}, errors |-> {}, cut |-> "no"]

NewRow == [status |-> "unused", checked |-> {}, created |-> {}, superseded |-> {},
           errors |-> {}, events |-> {}, listed |-> {}, made |-> {}, lost |-> FALSE]

VARIABLES
  proc,     \* where the process is in its life
  stale,    \* rows that the reconciliation at startup still has to finish
  running,  \* Scheduler.running
  pc,       \* where each starter is
  mem,      \* its local variables
  runs,     \* the rows (durable)
  stops     \* crashes and shutdowns so far

vars == <<proc, stale, running, pc, mem, runs, stops>>

InRun == {"list", "loop", "poll", "record", "finish", "release"}

\* Between tryStart and finish.
Active(s) == pc[s] \in {"insert"} \cup InRun

TypeOK ==
  /\ proc \in {"down", "booting", "reconciling", "up", "draining", "waiting", "closing"}
  /\ stale \subseteq Runs
  /\ running \in BOOLEAN
  /\ pc \in [Starters -> {"idle", "asked", "insert"} \cup InRun]
  /\ mem \in [Starters -> Memory]
  /\ runs \in [Runs -> Rows]
  /\ stops \in 0..MaxStops
  /\ \A s \in Starters : pc[s] \in InRun => mem[s].run # NoRun
  /\ \A s \in Starters : pc[s] \in {"poll", "record"} => mem[s].repo # NoRepo

-----------------------------------------------------------------------------
(* Starting a run                                                          *)

\* The scheduler's context, that of every run, is cancelled as soon as shutdown begins.
Cancelled == proc \in {"draining", "waiting", "closing"}

\* Mutant: the scheduler is started before the runs of the last process are reconciled.
FiringEarly == {"booting", "reconciling", "up", "draining"}

\* The cron fires while the process serves, and until it is stopped after a cancellation.
Firing == {"up", "draining"}

Arrive(s) ==
  /\ pc[s] = "idle"
  /\ proc \in IF s \in Jobs THEN Firing ELSE Firing \ {"draining"}
  /\ pc' = [pc EXCEPT ![s] = "asked"]
  /\ UNCHANGED <<proc, stale, running, mem, runs, stops>>

\* tryStart
TryStart(s) ==
  /\ pc[s] = "asked"
  /\ ~running
  /\ running' = TRUE
  /\ pc' = [pc EXCEPT ![s] = "insert"]
  /\ UNCHANGED <<proc, stale, mem, runs, stops>>

\* Mutant: finish is deferred before tryStart is asked.
AlreadyRunningFinishes(s) ==
  /\ pc[s] = "asked"
  /\ running
  /\ running' = FALSE
  /\ pc' = [pc EXCEPT ![s] = "idle"]
  /\ UNCHANGED <<proc, stale, mem, runs, stops>>

AlreadyRunning(s) ==
  /\ pc[s] = "asked"
  /\ running
  /\ pc' = [pc EXCEPT ![s] = "idle"]
  /\ UNCHANGED <<proc, stale, running, mem, runs, stops>>

\* A job inserts under the context that shutdown cancels, a request under its own.
InsertRun(s, r) ==
  /\ pc[s] = "insert"
  /\ s \in Jobs => ~Cancelled
  /\ runs[r].status = "unused"                        \* bound: Runs
  /\ runs' = [runs EXCEPT ![r].status = "running"]
  /\ mem' = [mem EXCEPT ![s].run = r]
  /\ pc' = [pc EXCEPT ![s] = "list"]
  /\ UNCHANGED <<proc, stale, running, stops>>

\* Mutant: the flag is not released.
InsertFailsKeepsFlag(s) ==
  /\ pc[s] = "insert"
  /\ pc' = [pc EXCEPT ![s] = "idle"]
  /\ UNCHANGED <<proc, stale, running, mem, runs, stops>>

InsertFails(s) ==
  /\ pc[s] = "insert"
  /\ pc' = [pc EXCEPT ![s] = "idle"]
  /\ running' = FALSE
  /\ UNCHANGED <<proc, stale, mem, runs, stops>>

-----------------------------------------------------------------------------
(* RunAll                                                                  *)

ListEnabled(s) ==
  /\ pc[s] = "list"
  /\ ~Cancelled
  /\ \E enabled \in SUBSET Repos :
       /\ mem' = [mem EXCEPT ![s].todo = enabled]
       /\ runs' = [runs EXCEPT ![mem[s].run].listed = enabled]
  /\ pc' = [pc EXCEPT ![s] = "loop"]
  /\ UNCHANGED <<proc, stale, running, stops>>

ListFails(s) ==
  /\ pc[s] = "list"
  /\ mem' = [mem EXCEPT ![s].cut = "unlisted"]
  /\ pc' = [pc EXCEPT ![s] = "finish"]
  /\ UNCHANGED <<proc, stale, running, runs, stops>>

NextRepo(s, r) ==
  /\ pc[s] = "loop"
  /\ ~Cancelled
  /\ r \in mem[s].todo
  /\ mem' = [mem EXCEPT ![s] =
               [mem[s] EXCEPT !.todo = @ \ {r}, !.repo = r, !.checked = @ \cup {r}]]
  /\ pc' = [pc EXCEPT ![s] = "poll"]
  /\ UNCHANGED <<proc, stale, running, runs, stops>>

Interrupted(s) ==
  /\ pc[s] = "loop"
  /\ Cancelled
  /\ mem[s].todo # {}
  /\ mem' = [mem EXCEPT ![s].cut = "interrupted"]
  /\ pc' = [pc EXCEPT ![s] = "finish"]
  /\ UNCHANGED <<proc, stale, running, runs, stops>>

LoopEnds(s) ==
  /\ pc[s] = "loop"
  /\ mem[s].todo = {}
  /\ pc' = [pc EXCEPT ![s] = "finish"]
  /\ UNCHANGED <<proc, stale, running, mem, runs, stops>>

\* What pollOneRepo returns: the actions to record, whether it returned an error, and
\* whether a ticket was made, which a failed create and a lost link do not tell.  An
\* error of the engine itself has no actions; one from before the engine is recorded by
\* recordPollFailure as an error action.
Outcomes ==
  {[actions |-> <<"quiet">>,               failed |-> FALSE, made |-> FALSE],
   [actions |-> <<"create">>,              failed |-> FALSE, made |-> TRUE],
   [actions |-> <<"supersede", "create">>, failed |-> FALSE, made |-> TRUE],
   [actions |-> <<"create", "error">>,     failed |-> FALSE, made |-> TRUE]}
  \cup [actions : {<<"error">>}, failed : BOOLEAN, made : BOOLEAN]
  \cup [actions : {<<>>},        failed : {TRUE},  made : BOOLEAN]

\* Mutant: only the first action is looked at.
FirstIsError(actions) == actions # <<>> /\ Head(actions) = "error"

HasError(actions) == \E i \in DOMAIN actions : actions[i] = "error"

PollRepo(s, outcome) ==
  /\ pc[s] = "poll"
  /\ LET failed == outcome.failed \/ HasError(outcome.actions)
     IN  mem' = [mem EXCEPT ![s] =
                  [mem[s] EXCEPT !.actions = outcome.actions,
                                 !.errors  = IF failed THEN @ \cup {mem[s].repo} ELSE @]]
  /\ runs' = IF outcome.made
             THEN [runs EXCEPT ![mem[s].run].made = @ \cup {mem[s].repo}]
             ELSE runs
  /\ pc' = [pc EXCEPT ![s] = "record"]
  /\ UNCHANGED <<proc, stale, running, stops>>

\* RecordEvaluation: an event that cannot be inserted is logged, its action counts anyway.
RecordAction(s) ==
  /\ pc[s] = "record"
  /\ mem[s].actions # <<>>
  /\ LET repo   == mem[s].repo
         action == Head(mem[s].actions)
     IN  /\ \/ /\ ~Cancelled
               /\ runs' = [runs EXCEPT ![mem[s].run].events = @ \cup {<<repo, action>>}]
            \/ runs' = runs
         /\ mem' = [mem EXCEPT ![s] =
              [mem[s] EXCEPT !.actions    = Tail(@),
                             !.created    = IF action = "create" THEN @ \cup {repo} ELSE @,
                             !.superseded = IF action = "supersede" THEN @ \cup {repo} ELSE @]]
  /\ UNCHANGED <<proc, stale, running, pc, stops>>

RepoDone(s) ==
  /\ pc[s] = "record"
  /\ mem[s].actions = <<>>
  /\ mem' = [mem EXCEPT ![s].repo = NoRepo]
  /\ pc' = [pc EXCEPT ![s] = "loop"]
  /\ UNCHANGED <<proc, stale, running, runs, stops>>

RunFinishStatus(reposChecked, errorCount) ==
  CASE reposChecked = 0 \/ errorCount = 0 -> "success"
    [] reposChecked # 0 /\ errorCount >= reposChecked -> "failed"
    [] OTHER -> "partial"

\* Mutant: an interrupted run keeps the status of the part that was polled.
VerdictOfPolledPart(m) ==
  IF m.cut = "unlisted" THEN "failed"
  ELSE RunFinishStatus(Cardinality(m.checked), Cardinality(m.errors))

Verdict(m) ==
  LET status == RunFinishStatus(Cardinality(m.checked), Cardinality(m.errors))
  IN  CASE m.cut = "unlisted"                            -> "failed"
        [] m.cut = "interrupted" /\ status = "success"   -> "partial"
        [] OTHER                                         -> status

\* The row with the run's result.
Result(row, m) ==
  [row EXCEPT !.status = Verdict(m), !.checked = m.checked, !.created = m.created,
              !.superseded = m.superseded,
              !.errors = m.errors \cup IF m.cut = "no" THEN {} ELSE {NoRepo}]

\* Mutant: the write is made under the context of the run.
FinishRunUnlessCancelled(s) ==
  /\ pc[s] = "finish"
  /\ runs' = IF Cancelled THEN runs ELSE [runs EXCEPT ![mem[s].run] = Result(@, mem[s])]
  /\ pc' = [pc EXCEPT ![s] = "release"]
  /\ UNCHANGED <<proc, stale, running, mem, stops>>

FinishRun(s) ==
  /\ pc[s] = "finish"
  /\ runs' = [runs EXCEPT ![mem[s].run] = Result(@, mem[s])]
  /\ pc' = [pc EXCEPT ![s] = "release"]
  /\ UNCHANGED <<proc, stale, running, mem, stops>>

\* The write fails or times out; the error is logged.
FinishFails(s) ==
  /\ pc[s] = "finish"
  /\ runs' = [runs EXCEPT ![mem[s].run].lost = TRUE]
  /\ pc' = [pc EXCEPT ![s] = "release"]
  /\ UNCHANGED <<proc, stale, running, mem, stops>>

\* The deferred finish of executeRun.
Release(s) ==
  /\ pc[s] = "release"
  /\ running' = FALSE
  /\ pc' = [pc EXCEPT ![s] = "idle"]
  /\ mem' = [mem EXCEPT ![s] = NoMemory]
  /\ UNCHANGED <<proc, stale, runs, stops>>

-----------------------------------------------------------------------------
(* The process                                                             *)

\* run(): migrations, the database, the default settings.
Boot ==
  /\ proc = "down"
  /\ proc' = "booting"
  /\ UNCHANGED <<stale, running, pc, mem, runs, stops>>

\* The first half of ReconcileInterruptedRuns: every page of poll_runs is read.
ListStale ==
  /\ proc = "booting"
  /\ proc' = "reconciling"
  /\ stale' = {r \in Runs : runs[r].status = "running"}
  /\ UNCHANGED <<running, pc, mem, runs, stops>>

\* The second half: one row after the other, with the counters it has.
ReconcileRun(r) ==
  /\ proc = "reconciling"
  /\ r \in stale
  /\ stale' = stale \ {r}
  /\ runs' = [runs EXCEPT ![r] = [@ EXCEPT !.status = "failed", !.errors = {NoRepo}]]
  /\ UNCHANGED <<proc, running, pc, mem, stops>>

\* Mutant: a row that cannot be written is passed over.
ReconcilePassesOver ==
  /\ proc = "reconciling"
  /\ \E r \in stale : stale' = stale \ {r}
  /\ UNCHANGED <<proc, running, pc, mem, runs, stops>>

\* log.Fatalf: a process that cannot reconcile does not serve.
ReconcileFails ==
  /\ proc = "reconciling"
  /\ stale # {}
  /\ proc' = "down"
  /\ stale' = {}
  /\ UNCHANGED <<running, pc, mem, runs, stops>>

StartScheduler ==
  /\ proc = "reconciling"
  /\ stale = {}
  /\ proc' = "up"
  /\ UNCHANGED <<stale, running, pc, mem, runs, stops>>

\* A signal cancels the context; or serving fails and run() cancels it.
Stop ==
  /\ proc = "up"
  /\ stops < MaxStops
  /\ stops' = stops + 1
  /\ proc' \in {"draining", "waiting"}
  /\ UNCHANGED <<stale, running, pc, mem, runs>>

\* srv.Shutdown returns: every request is answered, or 15 seconds are over.
Drained ==
  /\ proc = "draining"
  /\ proc' = "waiting"
  /\ UNCHANGED <<stale, running, pc, mem, runs, stops>>

\* Mutant: Shutdown waits for the cron jobs only.
CronIsIdle ==
  /\ proc = "waiting"
  /\ \A s \in Jobs : pc[s] = "idle"
  /\ proc' = "closing"
  /\ UNCHANGED <<stale, running, pc, mem, runs, stops>>

\* Scheduler.Shutdown: no cron job is left and activeRuns is zero.
RunsAreDone ==
  /\ proc = "waiting"
  /\ \A s \in Jobs : pc[s] = "idle"
  /\ \A s \in Requests : ~Active(s)
  /\ proc' = "closing"
  /\ UNCHANGED <<stale, running, pc, mem, runs, stops>>

\* The process is gone with everything in its memory.
Forget ==
  /\ proc' = "down"
  /\ stale' = {}
  /\ running' = FALSE
  /\ pc' = [s \in Starters |-> "idle"]
  /\ mem' = [s \in Starters |-> NoMemory]
  /\ UNCHANGED runs

\* db.Close and exit, after the runs are done or after ShutdownWaitTimeout.
Exit ==
  /\ proc \in {"closing", "waiting"}
  /\ Forget
  /\ UNCHANGED stops

Crash ==
  /\ proc # "down"
  /\ stops < MaxStops
  /\ stops' = stops + 1
  /\ Forget

Init ==
  /\ proc = "down"
  /\ stale = {}
  /\ running = FALSE
  /\ pc = [s \in Starters |-> "idle"]
  /\ mem = [s \in Starters |-> NoMemory]
  /\ runs = [r \in Runs |-> NewRow]
  /\ stops = 0

\* What a starter does once it was asked for.
Step(s) ==
  \/ TryStart(s) \/ AlreadyRunning(s)
  \/ (\E r \in Runs : InsertRun(s, r)) \/ InsertFails(s)
  \/ ListEnabled(s) \/ ListFails(s)
  \/ (\E r \in Repos : NextRepo(s, r)) \/ Interrupted(s) \/ LoopEnds(s)
  \/ (\E outcome \in Outcomes : PollRepo(s, outcome))
  \/ RecordAction(s) \/ RepoDone(s)
  \/ FinishRun(s) \/ FinishFails(s) \/ Release(s)

Process ==
  \/ Boot \/ ListStale \/ (\E r \in Runs : ReconcileRun(r)) \/ ReconcileFails \/ StartScheduler
  \/ Stop \/ Drained \/ RunsAreDone \/ Exit \/ Crash

Next == (\E s \in Starters : Arrive(s) \/ Step(s)) \/ Process

Spec == Init /\ [][Next]_vars

\* Every call of a run has a timeout; the container is restarted unless somebody stopped
\* it (docker-compose.yml), and a write tried at every start succeeds at some point.
Fairness ==
  /\ \A s \in Starters : WF_vars(Step(s))
  /\ WF_vars(Boot \/ ListStale) /\ WF_vars(StartScheduler) /\ WF_vars(Drained) /\ WF_vars(Exit)
  /\ \A r \in Runs : SF_vars(ReconcileRun(r))

FairSpec == Spec /\ Fairness

-----------------------------------------------------------------------------
(* Properties                                                              *)

\* However cron jobs and requests interleave, with failed inserts, refused starts and
\* slow releases, at most one of them is between tryStart and finish; module PollEngine
\* relies on it.
OneRunAtATime ==
  \A s, t \in Starters : Active(s) /\ Active(t) => s = t

\* What a finished row says of its run is true, also for interrupted and reconciled runs.
TrueStatus(row) ==
  /\ row.status = "success" => row.checked = row.listed /\ row.errors = {}
  /\ row.status = "partial" => \/ NoRepo \in row.errors
                               \/ row.errors # {} /\ row.checked \ row.errors # {}
  /\ row.status = "failed"  => \/ NoRepo \in row.errors
                               \/ row.checked \subseteq row.errors

\* An interrupted run is never a success, a failed one polled no repo without an error,
\* and a success polled every repo that was listed: RunFinishStatus decides by counts that
\* RunAll collected, a cancellation may cut the loop at any repo, and the
\* reconciliation finishes rows it knows nothing of.
StatusTellsTheTruth == \A r \in Runs : TrueStatus(runs[r])

\* A run that wrote its own result adds up with its events: every error event has an
\* entry in the list of errors, every ticket event is counted, and every
\* counted ticket was made.  Runs finished by the reconciliation count no repos and do
\* not add up.
FinishedRunAddsUp ==
  \A r \in Runs :
    LET row == runs[r]
        repos(action) == {repo \in Repos : <<repo, action>> \in row.events}
    IN  row.status \in Finished /\ row.checked # {} =>
          /\ repos("error") \subseteq row.errors
          /\ repos("create") \subseteq row.created
          /\ repos("supersede") \subseteq row.superseded
          /\ row.created \subseteq row.made

\* While the process serves, a row that says "running" has a live run behind it, unless
\* the write of its result failed.
RunningRowsExplained ==
  proc \in {"up", "draining", "waiting"} =>
    \A r \in Runs :
      runs[r].status = "running" =>
        runs[r].lost \/ \E s \in Starters : mem[s].run = r

\* A finished row is final: neither the reconciliation nor a late run writes it again.
FinishedStays ==
  [][\A r \in Runs :
       runs[r].status \in Finished => runs'[r] = runs[r]]_vars

\* When Shutdown returns in time, every run of this process and of the ones before it has
\* its result in the database, except for failed writes; only a request that outlived
\* the 15 seconds can still insert a row before the process exits.
CleanStop ==
  [][proc = "waiting" /\ proc' = "closing" =>
       \A r \in Runs : runs[r].status = "running" => runs[r].lost]_vars

\* Polling never gets stuck: again and again no run is active, so the next can start.
PollingEnds == []<>~running

\* Every run that was started gets a result, from itself or from the next start; a run
\* whose write failed waits for a restart that may never come.
EveryRunFinishes ==
  \A r \in Runs :
    runs[r].status = "running" ~> (runs[r].status \in Finished \/ runs[r].lost)

=============================================================================
