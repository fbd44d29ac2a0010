--------------------------- MODULE RoadmapIntake ---------------------------
(***************************************************************************)
(* scripts/import-roadmap-phasical.mjs: the import of docs/roadmap.json    *)
(* into the task board, behind the audits of audit-roadmap-intake.mjs and  *)
(* audit-roadmap-spec.mjs.                                                 *)
(*                                                                         *)
(* The import is a command that is run, may fail at any call to the board, *)
(* and is run again.  What it knows of the board is what it listed at its  *)
(* start, what it searches for and what it creates itself.  Meanwhile the  *)
(* board links a new task to a GitHub issue, and users move tasks.         *)
(***************************************************************************)
EXTENDS Naturals, Sequences, SequencesExt

CONSTANTS
  Epics, Leaves,    \* task ids of the roadmap
  Plans,            \* roadmaps that docs/roadmap.json may hold
  Foreign,          \* board tasks that users created before the import
  LooseSearch,      \* the board's search also returns tasks without the marker
  MaxRuns           \* bound: how often the command is run

VARIABLES
  plan,             \* docs/roadmap.json
  board,            \* the board's tasks, in the order of their creation
  posted,           \* the relations on the board
  run               \* the running command's local state

intakeVars == <<plan, board, posted, run>>

Tasks == Epics \cup Leaves
NoTask == "none"

ASSUME IntakeAssumption ==
  IsFiniteSet(Epics) /\ IsFiniteSet(Leaves) /\ Leaves # {} /\ NoTask \notin Tasks /\ Foreign \in Nat

\* A task on the board: the roadmap id its description is marked with.
Task(marker, status, linked) ==
  [marker |-> marker, status |-> status, issue |-> FALSE, label |-> FALSE,
   parentLink |-> linked, touched |-> FALSE]

(***************************************************************************)
(* The audits.  A plan maps leaves to parents, tasks to blockers and to    *)
(* the id that their description carries, and requirements to leaves whose *)
(* text covers them.                                                       *)
(***************************************************************************)
\* Mutants: blockers are not looked up; descriptions need not carry their id.
ParentsHold(p) == \A l \in Leaves : p.parent[l] \in Tasks
MarkersUnread(p) == TRUE

StructureHolds(p) ==
  /\ \A l \in Leaves : p.parent[l] \in Tasks
  /\ \A t \in Tasks : p.blockers[t] \subseteq Tasks

MarkersHold(p) == \A t \in Tasks : p.marker[t] = t

SpecCovered(p) ==
  /\ \A r \in DOMAIN p.covers : p.covers[r] # {}
  /\ \A pair \in p.pairs : p.covers[pair[1]] # {} => p.covers[pair[2]] # {}

AuditPasses(p) == StructureHolds(p) /\ MarkersHold(p) /\ SpecCovered(p)

(***************************************************************************)
(* One run of the command.  `at' counts the tasks of createOrder or of     *)
(* the last loop, `known' is phasicalByRoadmapId (0: none), `issues' the   *)
(* keys of githubByRoadmapId, `listed' is existingByRoadmapId.             *)
(***************************************************************************)
CreateOrder == SetToSeq(Epics) \o SetToSeq(Leaves)
Nobody == [t \in Tasks |-> 0]

\* Where a loop goes on.
Goto(r, pc, at) == [r EXCEPT !.pc = pc, !.at = at]

Stopped(r, pc) ==
  [r EXCEPT !.pc = pc, !.at = 1, !.listed = Nobody, !.known = Nobody, !.issues = {}]

NoRun == [pc |-> "stopped", at |-> 1, listed |-> Nobody, known |-> Nobody,
          issues |-> {}, runs |-> 0]

IntakeInit ==
  /\ plan \in Plans
  /\ board = [i \in 1..Foreign |-> Task(NoTask, "backlog", FALSE)]
  /\ posted = {}
  /\ run = NoRun

Current == CreateOrder[run.at]

\* loadEnv, the audit as a child process, and the checks of the API key.
Start ==
  /\ run.pc = "stopped"
  /\ run.runs < MaxRuns
  /\ run' = [Stopped(run, IF AuditPasses(plan) THEN "list" ELSE "stopped")
               EXCEPT !.runs = run.runs + 1]
  /\ UNCHANGED <<plan, board, posted>>

\* The task that carries marker t, by position; 0 if none does.
Marked(t) == IF \E i \in DOMAIN board : board[i].marker = t
             THEN CHOOSE i \in DOMAIN board : board[i].marker = t ELSE 0

\* searchByRoadmapId: the task that carries the id, else the board's first
\* result, if it returns any.
Search(t) ==
  IF Marked(t) # 0 THEN {Marked(t)}
  ELSE {0} \cup (IF LooseSearch THEN DOMAIN board ELSE {})

ListTasks ==
  /\ run.pc = "list"
  /\ run' = [run EXCEPT !.pc = "task", !.listed = [t \in Tasks |-> Marked(t)]]
  /\ UNCHANGED <<plan, board, posted>>

NextTask(r) == IF r.at = Len(CreateOrder) THEN Goto(r, "relate", 1) ELSE Goto(r, "task", r.at + 1)

\* Listed at the start, or found by the search: skipped.
SkipExisting ==
  LET t == Current
  IN  /\ run.pc = "task"
      /\ \E hit \in (IF run.listed[t] # 0 THEN {run.listed[t]} ELSE Search(t)) \ {0} :
           run' = NextTask([run EXCEPT
                    !.known[t] = hit,
                    !.issues = IF board[hit].issue THEN run.issues \cup {t} ELSE run.issues])
      /\ UNCHANGED <<plan, board, posted>>

\* The create request is stored; `answered' says whether its answer arrives.
CreateTask(answered) ==
  LET t == Current
      linked == t \in Leaves /\ plan.parent[t] \in run.issues
  IN  /\ run.pc = "task"
      /\ run.listed[t] = 0 /\ 0 \in Search(t)
      /\ board' = Append(board, Task(plan.marker[t], "backlog", linked))
      /\ run' = IF answered
                THEN [run EXCEPT !.pc = "wait", !.known[t] = Len(board) + 1]
                ELSE Stopped(run, "stopped")
      /\ UNCHANGED <<plan, posted>>

\* The poll for the issue link ends with the link or at its deadline.
WaitForGithubIssue ==
  /\ run.pc = "wait"
  /\ \E seen \in {FALSE, board[run.known[Current]].issue} :
       run' = [run EXCEPT
                 !.pc = "label",
                 !.issues = IF seen THEN run.issues \cup {Current} ELSE run.issues]
  /\ UNCHANGED <<plan, board, posted>>

AttachLabel ==
  /\ run.pc = "label"
  /\ board' = [board EXCEPT ![run.known[Current]].label = TRUE]
  /\ run' = NextTask(run)
  /\ UNCHANGED <<plan, posted>>

\* The relations of one leaf.  One whose end is not known is left out.
RelationsOf(l) ==
  {<<"subtask", run.known[p], run.known[l]>> : p \in {plan.parent[l]} \cap Tasks}
    \cup {<<"blocks", run.known[b], run.known[l]>> : b \in plan.blockers[l] \cap Tasks}

Postable(l) == {r \in RelationsOf(l) : r[2] # 0 /\ r[3] # 0}

WireLeaf ==
  LET l == SetToSeq(Leaves)[run.at]
  IN  /\ run.pc = "relate"
      /\ posted' = posted \cup Postable(l)
      /\ run' = IF run.at = Len(SetToSeq(Leaves)) THEN Goto(run, "status", 1)
                                                  ELSE Goto(run, "relate", run.at + 1)
      /\ UNCHANGED <<plan, board>>

\* Each known task is put to `ready', whatever its status is.
SetReady ==
  /\ run.pc = "status"
  /\ board' = [board EXCEPT ![run.known[Current]].status = "ready"]
  /\ run' = IF run.at = Len(CreateOrder) THEN Stopped(run, "done")
                                         ELSE Goto(run, "status", run.at + 1)
  /\ UNCHANGED <<plan, posted>>

\* A call is refused or not answered: main().catch ends the process.  Some of a
\* leaf's relations may have been posted by then.
ApiFails ==
  /\ run.pc \in {"list", "task", "wait", "label", "relate", "status"}
  /\ posted' \in IF run.pc # "relate" THEN {posted}
                 ELSE {posted \cup some : some \in SUBSET Postable(SetToSeq(Leaves)[run.at])}
  /\ run' = Stopped(run, "stopped")
  /\ UNCHANGED <<plan, board>>

\* The command is run once more after it has completed.
RunAgain ==
  /\ run.pc = "done"
  /\ run' = Stopped(run, "stopped")
  /\ UNCHANGED <<plan, board, posted>>

\* The board syncs a task to GitHub; a user moves it.
LinkIssue ==
  \E i \in DOMAIN board :
    /\ ~board[i].issue
    /\ board' = [board EXCEPT ![i].issue = TRUE]
    /\ UNCHANGED <<plan, posted, run>>

MoveTask ==
  \E i \in DOMAIN board :
    /\ ~board[i].touched
    /\ board' = [board EXCEPT ![i].status = "done", ![i].touched = TRUE]
    /\ UNCHANGED <<plan, posted, run>>

IntakeNext ==
  \/ Start \/ ListTasks \/ SkipExisting \/ \E a \in BOOLEAN : CreateTask(a)
  \/ WaitForGithubIssue \/ AttachLabel \/ WireLeaf \/ SetReady
  \/ ApiFails \/ RunAgain \/ LinkIssue \/ MoveTask

IntakeSpec == IntakeInit /\ [][IntakeNext]_intakeVars

(***************************************************************************)
(* Properties.                                                             *)
(***************************************************************************)

\* Over failed, repeated and completed runs, each roadmap id marks at most
\* one task of the board: a create whose answer was lost is found again.
OneTaskPerId ==
  \A i, j \in DOMAIN board : board[i].marker = board[j].marker =>
    i = j \/ board[i].marker = NoTask

\* A completed import has put every task of the roadmap on the board and
\* wired every relation the roadmap plans between those very tasks: nothing
\* is lost to the `if (childId && parentId)' guards.
CompleteImport ==
  run.pc = "done" =>
    /\ \A t \in Tasks : Marked(t) # 0
    /\ \A l \in Leaves :
         /\ <<"subtask", Marked(plan.parent[l]), Marked(l)>> \in posted
         /\ \A b \in plan.blockers[l] : <<"blocks", Marked(b), Marked(l)>> \in posted

=============================================================================
