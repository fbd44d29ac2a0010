--------------------------- MODULE ToolingProofs ---------------------------
(***************************************************************************)
(* The import of the roadmap neither duplicates nor loses a task, however  *)
(* often it fails and is run again; the release job releases versions in   *)
(* their order, and its notes leave no commit out that it is to name.      *)
(***************************************************************************)
EXTENDS RoadmapIntake, DraftRelease, FiniteSetTheorems, TLAPS

-----------------------------------------------------------------------------
(* The order in which tasks are created.                                   *)

LEMMA SeqOfSet ==
  ASSUME NEW S, IsFiniteSet(S)
  PROVE  /\ SetToSeq(S) \in Seq(S)
         /\ Len(SetToSeq(S)) = Cardinality(S)
         /\ \A x \in S : \E i \in 1..Len(SetToSeq(S)) : SetToSeq(S)[i] = x
<1>. DEFINE n == Cardinality(S)
<1>1. n \in Nat /\ ExistsBijection(1..n, S)
  BY FS_CardinalityType
<1>2. \E f \in [1..n -> S] : IsInjective(f)
  BY <1>1 DEF ExistsBijection, Bijection, Injection
<1>3. SetToSeq(S) \in [1..n -> S] /\ IsInjective(SetToSeq(S))
  BY <1>2 DEF SetToSeq
<1>4. SetToSeq(S) \in Surjection(1..n, S)
  <2>1. SetToSeq(S) \in Injection(1..n, S)
    BY <1>3 DEF Injection
  <2>2. Cardinality(1..n) = n
    BY <1>1, FS_Interval
  <2>. QED
    BY <2>1, <2>2, FS_Injection
<1>5. SetToSeq(S) \in Seq(S) /\ Len(SetToSeq(S)) = n
  BY <1>1, <1>3
<1>. QED
  BY <1>4, <1>5 DEF Surjection

LEMMA LeafOrder ==
  /\ SetToSeq(Leaves) \in Seq(Leaves)
  /\ Len(SetToSeq(Leaves)) \in Nat \ {0}
  /\ \A l \in Leaves : \E i \in 1..Len(SetToSeq(Leaves)) : SetToSeq(Leaves)[i] = l
<1>1. /\ SetToSeq(Leaves) \in Seq(Leaves)
      /\ \A l \in Leaves : \E i \in 1..Len(SetToSeq(Leaves)) : SetToSeq(Leaves)[i] = l
  BY SeqOfSet, IntakeAssumption
<1>. QED
  BY <1>1, IntakeAssumption

LEMMA TaskOrder ==
  /\ CreateOrder \in Seq(Tasks)
  /\ Len(CreateOrder) \in Nat \ {0}
  /\ \A t \in Tasks : \E i \in 1..Len(CreateOrder) : CreateOrder[i] = t
<1>. DEFINE e == SetToSeq(Epics)
            l == SetToSeq(Leaves)
<1>1. /\ e \in Seq(Epics)
      /\ \A x \in Epics : \E i \in 1..Len(e) : e[i] = x
  BY SeqOfSet, IntakeAssumption
<1>2. /\ l \in Seq(Leaves) /\ Len(l) \in Nat \ {0}
      /\ \A x \in Leaves : \E i \in 1..Len(l) : l[i] = x
  BY LeafOrder
<1>3. CreateOrder = e \o l
  BY DEF CreateOrder
<1>. HIDE DEF e, l
<1>4. e \in Seq(Tasks) /\ l \in Seq(Tasks)
  BY <1>1, <1>2 DEF Tasks
<1>5. CreateOrder \in Seq(Tasks) /\ Len(CreateOrder) = Len(e) + Len(l)
  BY <1>3, <1>4
<1>6. ASSUME NEW t \in Tasks PROVE \E i \in 1..Len(CreateOrder) : CreateOrder[i] = t
  <2>1. CASE t \in Epics
    <3>1. PICK i \in 1..Len(e) : e[i] = t
      BY <1>1, <2>1
    <3>2. CreateOrder[i] = t /\ i \in 1..Len(CreateOrder)
      BY <1>3, <1>4, <1>5, <3>1
    <3>. QED
      BY <3>2
  <2>2. CASE t \in Leaves
    <3>1. PICK i \in 1..Len(l) : l[i] = t
      BY <1>2, <2>2
    <3>2. CreateOrder[Len(e) + i] = t /\ Len(e) + i \in 1..Len(CreateOrder)
      BY <1>3, <1>4, <1>5, <3>1
    <3>. QED
      BY <3>2
  <2>. QED
    BY <2>1, <2>2 DEF Tasks
<1>7. Len(e) \in Nat
  BY <1>4
<1>. QED
  BY <1>2, <1>5, <1>6, <1>7

-----------------------------------------------------------------------------
(* The import: types.                                                      *)

Phases == {"stopped", "list", "task", "wait", "label", "relate", "status", "done"}

BoardTasks ==
  [marker : Tasks \cup {NoTask}, status : {"backlog", "ready", "done"}, issue : BOOLEAN,
   label : BOOLEAN, parentLink : BOOLEAN, touched : BOOLEAN]

Runs ==
  [pc : Phases, at : Nat \ {0}, listed : [Tasks -> Nat], known : [Tasks -> Nat],
   issues : SUBSET Tasks, runs : Nat]

\* How far the run has come is what it knows: the tasks it has passed, and in the last two
\* loops all of them.
KnowsEnough(r) ==
  /\ r.pc \in {"task", "wait", "label", "status"} => r.at <= Len(CreateOrder)
  /\ r.pc = "list" => r.at = 1
  /\ r.pc = "relate" => r.at <= Len(SetToSeq(Leaves))
  /\ r.pc \in {"wait", "label"} => r.known[CreateOrder[r.at]] # 0
  /\ r.pc \in {"task", "wait", "label"} => \A i \in 1..(r.at - 1) : r.known[CreateOrder[i]] # 0
  /\ r.pc \in {"relate", "status"} => \A t \in Tasks : r.known[t] # 0

\* Past the audit the plan is one that it lets pass; what the run knows is on the board.
IntakeTypeOK ==
  /\ board \in Seq(BoardTasks)
  /\ run \in Runs
  /\ run.pc # "stopped" => AuditPasses(plan)
  /\ KnowsEnough(run)
  /\ \A t \in Tasks : run.known[t] <= Len(board) /\ run.listed[t] <= Len(board)
  /\ \A t \in Tasks : run.listed[t] # 0 => board[run.listed[t]].marker = t

LEMMA CurrentIsTask ==
  ASSUME run.at \in Nat \ {0}, run.at <= Len(CreateOrder)
  PROVE  Current \in Tasks
BY TaskOrder DEF Current

\* So are those that it has been through.
LEMMA EarlierTask ==
  ASSUME run.at \in Nat \ {0}, run.at <= Len(CreateOrder)
  PROVE  \A i \in 1..(run.at - 1) : CreateOrder[i] \in Tasks
<1>. TAKE i \in 1..(run.at - 1)
<1>1. i \in 1..Len(CreateOrder)
  BY TaskOrder
<1>. QED
  BY <1>1, TaskOrder

LEMMA MarkedProperty ==
  ASSUME NEW t, board \in Seq(BoardTasks)
  PROVE  /\ Marked(t) \in 0..Len(board)
         /\ Marked(t) # 0 => board[Marked(t)].marker = t
         /\ Marked(t) = 0 => \A i \in 1..Len(board) : board[i].marker # t
BY DEF Marked

\* A step keeps the tasks that are there, and appends at most the one task that the board
\* does not have yet.
BoardKept ==
  /\ board' \in Seq(BoardTasks)
  /\ Len(board') >= Len(board)
  /\ \A i \in 1..Len(board) : board'[i].marker = board[i].marker

BoardGrown ==
  /\ Len(board') = Len(board) + 1
  /\ run.pc = "task" /\ Current \in Tasks /\ Marked(Current) = 0
  /\ board'[Len(board) + 1].marker = Current

LEMMA BoardStep ==
  ASSUME IntakeTypeOK, [IntakeNext]_intakeVars
  PROVE  /\ plan' = plan
         /\ BoardKept
         /\ Len(board') = Len(board) \/ BoardGrown
<1>1. CASE UNCHANGED intakeVars
  BY <1>1 DEF intakeVars, IntakeTypeOK, BoardKept
<1>2. CASE Start \/ ListTasks \/ SkipExisting \/ WaitForGithubIssue \/ WireLeaf \/ ApiFails \/ RunAgain
  <2>1. plan' = plan /\ board' = board
    BY <1>2 DEF Start, ListTasks, SkipExisting, WaitForGithubIssue, WireLeaf, ApiFails, RunAgain
  <2>. QED
    BY <2>1 DEF IntakeTypeOK, BoardKept
<1>3. ASSUME NEW a \in BOOLEAN, CreateTask(a) PROVE plan' = plan /\ BoardKept /\ BoardGrown
  <2>1. Current \in Tasks /\ plan.marker[Current] = Current /\ run.pc = "task"
    BY <1>3, CurrentIsTask DEF CreateTask, IntakeTypeOK, KnowsEnough, Runs, AuditPasses, MarkersHold
  <2>2. PICK p \in BOOLEAN : board' = Append(board, Task(Current, "backlog", p))
    BY <1>3, <2>1 DEF CreateTask
  <2>3. Task(Current, "backlog", p) \in BoardTasks
    BY <2>1 DEF Task, BoardTasks
  <2>4. BoardKept
    BY <2>2, <2>3 DEF BoardKept, IntakeTypeOK
  <2>5. board'[Len(board) + 1] = Task(Current, "backlog", p) /\ Len(board') = Len(board) + 1
    BY <2>2, <2>3 DEF IntakeTypeOK
  <2>6. Marked(Current) = 0
    BY <1>3, MarkedProperty DEF CreateTask, Search, IntakeTypeOK
  <2>. QED
    BY <1>3, <2>1, <2>4, <2>5, <2>6 DEF CreateTask, BoardGrown, Task
<1>4. ASSUME NEW i \in 1..Len(board), NEW b \in BoardTasks, b.marker = board[i].marker,
             board' = [board EXCEPT ![i] = b]
      PROVE  BoardKept /\ Len(board') = Len(board)
  BY <1>4 DEF IntakeTypeOK, BoardKept
<1>5. CASE AttachLabel
  <2>1. Current \in Tasks /\ run.known[Current] \in 1..Len(board)
    BY <1>5, CurrentIsTask DEF AttachLabel, IntakeTypeOK, KnowsEnough, Current, Runs
  <2>. DEFINE i == run.known[Current]
  <2>2. board[i] \in BoardTasks
    BY <2>1 DEF IntakeTypeOK
  <2>3. board' = [board EXCEPT ![i] = [board[i] EXCEPT !.label = TRUE]]
    BY <1>5 DEF AttachLabel
  <2>4. [board[i] EXCEPT !.label = TRUE] \in BoardTasks /\ [board[i] EXCEPT !.label = TRUE].marker = board[i].marker
    BY <2>2 DEF BoardTasks
  <2>. QED
    BY <1>4, <1>5, <2>1, <2>3, <2>4 DEF AttachLabel
<1>6. CASE SetReady
  <2>1. Current \in Tasks /\ run.known[Current] \in 1..Len(board)
    BY <1>6, CurrentIsTask DEF SetReady, IntakeTypeOK, KnowsEnough, Runs
  <2>. DEFINE i == run.known[Current]
  <2>2. board[i] \in BoardTasks
    BY <2>1 DEF IntakeTypeOK
  <2>3. board' = [board EXCEPT ![i] = [board[i] EXCEPT !.status = "ready"]]
    BY <1>6 DEF SetReady
  <2>4. [board[i] EXCEPT !.status = "ready"] \in BoardTasks /\ [board[i] EXCEPT !.status = "ready"].marker = board[i].marker
    BY <2>2 DEF BoardTasks
  <2>. QED
    BY <1>4, <1>6, <2>1, <2>3, <2>4 DEF SetReady
<1>7. CASE LinkIssue
  <2>d. DOMAIN board = 1..Len(board)
    BY DEF IntakeTypeOK
  <2>1. PICK i \in DOMAIN board : board' = [board EXCEPT ![i] = [board[i] EXCEPT !.issue = TRUE]]
    BY <1>7 DEF LinkIssue
  <2>2. board[i] \in BoardTasks
    BY <2>d DEF IntakeTypeOK
  <2>3. [board[i] EXCEPT !.issue = TRUE] \in BoardTasks /\ [board[i] EXCEPT !.issue = TRUE].marker = board[i].marker
    BY <2>2 DEF BoardTasks
  <2>. QED
    BY <1>4, <1>7, <2>d, <2>1, <2>3 DEF LinkIssue
<1>8. CASE MoveTask
  <2>d. DOMAIN board = 1..Len(board)
    BY DEF IntakeTypeOK
  <2>1. PICK i \in DOMAIN board :
          board' = [board EXCEPT ![i].status = "done", ![i].touched = TRUE]
    BY <1>8 DEF MoveTask
  <2>. DEFINE b == [board[i] EXCEPT !.status = "done", !.touched = TRUE]
  <2>2. board[i] \in BoardTasks
    BY <2>d DEF IntakeTypeOK
  <2>4. board' = [board EXCEPT ![i] = b]
    BY <2>1
  <2>3. b \in BoardTasks /\ b.marker = board[i].marker
    BY <2>2 DEF BoardTasks
  <2>. QED
    BY <1>4, <1>8, <2>d, <2>3, <2>4 DEF MoveTask
<1>. QED
  BY <1>1, <1>2, <1>3, <1>5, <1>6, <1>7, <1>8 DEF IntakeNext

LEMMA GotoTyped ==
  ASSUME NEW r \in Runs, NEW pc \in Phases, NEW n \in Nat \ {0}
  PROVE  /\ Goto(r, pc, n) \in Runs /\ Goto(r, pc, n).pc = pc /\ Goto(r, pc, n).at = n
         /\ Goto(r, pc, n).known = r.known /\ Goto(r, pc, n).listed = r.listed
<1>. DEFINE u == Goto(r, pc, n)
<1>1. u \in Runs
  BY DEF Runs, Goto
<1>2. u.pc = pc /\ u.at = n
  BY DEF Runs, Goto
<1>3. u.known = r.known /\ u.listed = r.listed
  BY DEF Runs, Goto
<1>. QED
  BY <1>1, <1>2, <1>3

LEMMA NextTaskTyped ==
  ASSUME NEW r \in Runs, r.at <= Len(CreateOrder)
  PROVE  /\ NextTask(r) \in Runs /\ NextTask(r).known = r.known /\ NextTask(r).listed = r.listed
         /\ \/ r.at = Len(CreateOrder) /\ NextTask(r).pc = "relate" /\ NextTask(r).at = 1
            \/ r.at < Len(CreateOrder) /\ NextTask(r).pc = "task" /\ NextTask(r).at = r.at + 1
<1>1. r.at \in Nat \ {0} /\ Len(CreateOrder) \in Nat
  BY TaskOrder DEF Runs
<1>2. r.at + 1 \in Nat \ {0} /\ 1 \in Nat \ {0} /\ "relate" \in Phases /\ "task" \in Phases
  BY <1>1 DEF Phases
<1>. QED
  <2>1. CASE r.at = Len(CreateOrder)
    <3>1. NextTask(r) = Goto(r, "relate", 1)
      BY <2>1 DEF NextTask
    <3>. QED
      BY <1>2, <2>1, <3>1, GotoTyped
  <2>2. CASE r.at # Len(CreateOrder)
    <3>1. NextTask(r) = Goto(r, "task", r.at + 1)
      BY <2>2 DEF NextTask
    <3>2. r.at < Len(CreateOrder)
      BY <1>1, <2>2
    <3>. QED
      BY <1>2, <3>1, <3>2, GotoTyped
  <2>. QED
    BY <2>1, <2>2

LEMMA StoppedTyped ==
  ASSUME NEW r \in Runs, NEW pc \in Phases
  PROVE  /\ Stopped(r, pc) \in Runs /\ Stopped(r, pc).pc = pc /\ Stopped(r, pc).at = 1
         /\ Stopped(r, pc).known = Nobody /\ Stopped(r, pc).listed = Nobody
<1>. PICK k \in [Tasks -> Nat] : k = Nobody
  BY DEF Nobody
<1>. PICK s \in SUBSET Tasks : s = {}
  OBVIOUS
<1>. PICK n \in Nat \ {0} : n = 1
  OBVIOUS
<1>. DEFINE u == [r EXCEPT !.pc = pc, !.at = n, !.listed = k, !.known = k, !.issues = s]
<1>1. u \in Runs
  BY DEF Runs
<1>2. DOMAIN r = {"pc", "at", "listed", "known", "issues", "runs"}
  BY DEF Runs
<1>3. u.pc = pc
  BY <1>2
<1>4. u.at = n
  BY <1>2
<1>5. u.known = k
  BY <1>2
<1>6. u.listed = k
  BY <1>2
<1>. HIDE DEF u
<1>7. Stopped(r, pc) = u
  BY DEF Stopped, u
<1>. QED
  BY <1>1, <1>3, <1>4, <1>5, <1>6, <1>7

LEMMA NextKnows ==
  ASSUME NEW r \in Runs, r.at <= Len(CreateOrder), r.known[CreateOrder[r.at]] # 0,
         \A i \in 1..(r.at - 1) : r.known[CreateOrder[i]] # 0
  PROVE  KnowsEnough(NextTask(r))
<1>1. r.at \in Nat \ {0} /\ Len(CreateOrder) \in Nat /\ Len(SetToSeq(Leaves)) \in Nat \ {0}
  BY TaskOrder, LeafOrder DEF Runs
<1>2. \A i \in 1..r.at : r.known[CreateOrder[i]] # 0
  <2>1. \A i \in 1..r.at : i = r.at \/ i \in 1..(r.at - 1)
    BY <1>1
  <2>. QED
    BY <2>1
<1>3. CASE r.at = Len(CreateOrder)
  <2>1. \A t \in Tasks : r.known[t] # 0
    BY <1>2, <1>3, TaskOrder
  <2>2. NextTask(r).pc = "relate" /\ NextTask(r).at = 1 /\ NextTask(r).known = r.known
    BY <1>1, <1>3, NextTaskTyped
  <2>. QED
    BY <1>1, <2>1, <2>2 DEF KnowsEnough
<1>4. CASE r.at # Len(CreateOrder)
  <2>1. NextTask(r).pc = "task" /\ NextTask(r).at = r.at + 1 /\ NextTask(r).known = r.known
    BY <1>1, <1>4, NextTaskTyped
  <2>2. r.at + 1 <= Len(CreateOrder) /\ NextTask(r).at - 1 = r.at
    BY <1>1, <1>4, <2>1
  <2>3. \A i \in 1..(NextTask(r).at - 1) : NextTask(r).known[CreateOrder[i]] # 0
    BY <1>2, <2>1, <2>2
  <2>. QED
    BY <2>1, <2>2, <2>3 DEF KnowsEnough
<1>. QED
  BY <1>3, <1>4

\* A run that ends, or begins, forgets what it knew.
LEMMA ResetTyped ==
  ASSUME IntakeTypeOK, BoardKept, plan' = plan, run' \in Runs,
         run'.pc \in {"stopped", "list", "done"}, run'.pc # "stopped" => AuditPasses(plan),
         run'.at = 1, run'.known = Nobody, run'.listed = Nobody
  PROVE  IntakeTypeOK'
<1>1. \A t \in Tasks : Nobody[t] = 0
  BY DEF Nobody
<1>2. Len(board') \in Nat
  BY DEF BoardKept
<1>3. \A t \in Tasks : run'.known[t] = 0 /\ run'.listed[t] = 0
  BY <1>1
<1>4. run'.pc # "stopped" => AuditPasses(plan)'
  BY DEF AuditPasses, StructureHolds, MarkersHold, SpecCovered
<1>5. run'.pc \notin {"task", "wait", "label", "status", "relate"}
  OBVIOUS
<1>6. \A t \in Tasks : run'.known[t] <= Len(board') /\ run'.listed[t] <= Len(board')
  BY <1>2, <1>3
<1>7. run'.at <= Len(CreateOrder)
  BY TaskOrder
<1>. QED
  <2>1. KnowsEnough(run)'
    BY <1>5, <1>7 DEF KnowsEnough, CreateOrder
  <2>. QED
    BY <1>3, <1>4, <1>6, <2>1 DEF IntakeTypeOK, BoardKept

\* What a run knows of the board stays true.
LEMMA KnownTyped ==
  ASSUME IntakeTypeOK, BoardKept, plan' = plan, run' \in Runs, run'.listed = run.listed,
         run.pc # "stopped" \/ run'.pc = "stopped",
         \A t \in Tasks : run'.known[t] = run.known[t] \/ run'.known[t] \in 1..Len(board'),
         KnowsEnough(run')
  PROVE  IntakeTypeOK'
<1>1. \A t \in Tasks : run.known[t] \in Nat /\ run.listed[t] \in Nat /\ run'.known[t] \in Nat
  BY DEF IntakeTypeOK, Runs
<1>2. Len(board') \in Nat /\ Len(board) \in Nat
  BY DEF IntakeTypeOK, BoardKept
<1>3. \A t \in Tasks : run'.known[t] <= Len(board') /\ run'.listed[t] <= Len(board')
  BY <1>1, <1>2 DEF IntakeTypeOK, BoardKept
<1>4. ASSUME NEW t \in Tasks, run'.listed[t] # 0 PROVE board'[run'.listed[t]].marker = t
  <2>1. run.listed[t] \in 1..Len(board) /\ board[run.listed[t]].marker = t
    BY <1>1, <1>2, <1>4 DEF IntakeTypeOK
  <2>. QED
    BY <2>1 DEF BoardKept
<1>5. run'.pc # "stopped" => AuditPasses(plan)'
  BY DEF IntakeTypeOK, AuditPasses, StructureHolds, MarkersHold, SpecCovered
<1>6. KnowsEnough(run)'
  BY DEF KnowsEnough, CreateOrder
<1>. QED
  BY <1>3, <1>4, <1>5, <1>6 DEF IntakeTypeOK, BoardKept

\* A run that gets to know task h of the board as t.
Knows(u, t, h) ==
  /\ u \in Runs /\ u.at = run.at /\ u.listed = run.listed /\ u.known[t] = h
  /\ \A x \in Tasks : x # t => u.known[x] = run.known[x]

LEMMA FoundIsKnown ==
  ASSUME run \in Runs, NEW h \in Nat, NEW s \in SUBSET Tasks, NEW t \in Tasks, NEW u,
         u = [run EXCEPT !.known[t] = h, !.issues = s]
  PROVE  Knows(u, t, h) /\ u.pc = run.pc
<1>. PICK k \in [Tasks -> Nat] : k = [run.known EXCEPT ![t] = h]
  BY DEF Runs
<1>1. u = [run EXCEPT !.known = k, !.issues = s]
  OBVIOUS
<1>2. u \in Runs
  BY <1>1 DEF Runs
<1>3. u.pc = run.pc /\ u.at = run.at /\ u.listed = run.listed /\ u.known = k
  BY <1>1 DEF Runs
<1>4. run.known \in [Tasks -> Nat]
  BY DEF Runs
<1>. QED
  BY <1>2, <1>3, <1>4 DEF Knows

LEMMA CreatedIsKnown ==
  ASSUME run \in Runs, NEW h \in Nat, NEW t \in Tasks, NEW u,
         u = [run EXCEPT !.pc = "wait", !.known[t] = h]
  PROVE  Knows(u, t, h) /\ u.pc = "wait"
<1>. PICK k \in [Tasks -> Nat] : k = [run.known EXCEPT ![t] = h]
  BY DEF Runs
<1>1. u = [run EXCEPT !.pc = "wait", !.known = k] /\ "wait" \in Phases
  BY DEF Phases
<1>2. u \in Runs
  BY <1>1 DEF Runs
<1>3. u.pc = "wait" /\ u.at = run.at /\ u.listed = run.listed /\ u.known = k
  BY <1>1 DEF Runs
<1>4. run.known \in [Tasks -> Nat]
  BY DEF Runs
<1>. QED
  BY <1>2, <1>3, <1>4 DEF Knows

\* What a run takes for a task of the roadmap is on the board.
LEMMA HitOnBoard ==
  ASSUME IntakeTypeOK, run.pc = "task",
         NEW h \in (IF run.listed[Current] # 0 THEN {run.listed[Current]} ELSE Search(Current)) \ {0}
  PROVE  Current \in Tasks /\ h \in 1..Len(board)
<1>1. Current \in Tasks
  BY CurrentIsTask DEF IntakeTypeOK, KnowsEnough, Runs
<1>2. run.listed[Current] \in Nat /\ Len(board) \in Nat /\ DOMAIN board = 1..Len(board)
  BY <1>1 DEF IntakeTypeOK, Runs
<1>3. CASE run.listed[Current] # 0
  <2>1. h = run.listed[Current]
    BY <1>3
  <2>. QED
    BY <1>1, <1>2, <1>3, <2>1 DEF IntakeTypeOK
<1>4. CASE run.listed[Current] = 0
  <2>1. h \in Search(Current) \ {0}
    BY <1>4
  <2>. QED
    BY <1>1, <1>2, <2>1, MarkedProperty DEF IntakeTypeOK, Search
<1>. QED
  BY <1>3, <1>4

LEMMA IntakeTypeStep == IntakeTypeOK /\ [IntakeNext]_intakeVars => IntakeTypeOK'
<1>. SUFFICES ASSUME IntakeTypeOK, [IntakeNext]_intakeVars PROVE IntakeTypeOK'
  OBVIOUS
<1>b. plan' = plan /\ BoardKept
  BY BoardStep
<1>r. run \in Runs /\ {"list", "stopped", "done", "relate", "status"} \subseteq Phases
  BY DEF IntakeTypeOK, Phases
<1>f. /\ run.at \in Nat \ {0} /\ run.known \in [Tasks -> Nat] /\ run.listed \in [Tasks -> Nat]
      /\ Len(CreateOrder) \in Nat /\ Len(SetToSeq(Leaves)) \in Nat
      /\ Len(board) \in Nat
  <2>1. run.at \in Nat \ {0} /\ run.known \in [Tasks -> Nat] /\ run.listed \in [Tasks -> Nat]
    BY <1>r DEF Runs
  <2>2. Len(board) \in Nat
    BY DEF IntakeTypeOK
  <2>. QED
    BY <2>1, <2>2, TaskOrder, LeafOrder
<1>1. CASE UNCHANGED run
  BY <1>1, <1>b, KnownTyped DEF IntakeTypeOK
<1>2. CASE Start
  <2>1. PICK pc \in {"list", "stopped"} :
          /\ run' = [Stopped(run, pc) EXCEPT !.runs = run.runs + 1]
          /\ pc = "list" => AuditPasses(plan)
    BY <1>2 DEF Start
  <2>2. Stopped(run, pc) \in Runs /\ run.runs + 1 \in Nat
    BY <1>r, StoppedTyped DEF Runs
  <2>3. run' \in Runs
    BY <2>1, <2>2 DEF Runs
  <2>4. run'.pc = pc /\ run'.at = 1 /\ run'.known = Nobody /\ run'.listed = Nobody
    <3>1. DOMAIN Stopped(run, pc) = {"pc", "at", "listed", "known", "issues", "runs"}
      BY <2>2 DEF Runs
    <3>2. run'.pc = Stopped(run, pc).pc /\ run'.at = Stopped(run, pc).at /\ run'.known = Stopped(run, pc).known
          /\ run'.listed = Stopped(run, pc).listed
      BY <2>1, <3>1
    <3>. QED
      BY <1>r, <3>2, StoppedTyped
  <2>. QED
    BY <1>b, <2>1, <2>3, <2>4, ResetTyped
<1>3. CASE ApiFails \/ RunAgain \/ CreateTask(FALSE)
  <2>1. run' = Stopped(run, "stopped")
    BY <1>3 DEF ApiFails, RunAgain, CreateTask
  <2>. QED
    BY <1>b, <1>r, <2>1, StoppedTyped, ResetTyped
<1>4. CASE ListTasks
  <2>1. \A t \in Tasks : Marked(t) \in Nat /\ Marked(t) <= Len(board)
    BY <1>f, MarkedProperty DEF IntakeTypeOK
  <2>. DEFINE l == [t \in Tasks |-> Marked(t)]
  <2>2. l \in [Tasks -> Nat] /\ "task" \in Phases
    BY <2>1 DEF Phases
  <2>3. run' = [run EXCEPT !.pc = "task", !.listed = l]
    BY <1>4 DEF ListTasks
  <2>. HIDE DEF l
  <2>4. run' \in Runs
    BY <1>r, <2>2, <2>3 DEF Runs
  <2>5. run'.pc = "task" /\ run'.at = run.at /\ run'.known = run.known /\ run'.listed = l
    BY <1>r, <2>3 DEF Runs
  <2>6. \A t \in Tasks : l[t] <= Len(board) /\ (l[t] # 0 => board[l[t]].marker = t)
    BY <2>1, MarkedProperty DEF l, IntakeTypeOK
  <2>7. board' = board /\ run.at = 1 /\ AuditPasses(plan)
    BY <1>4 DEF ListTasks, IntakeTypeOK, KnowsEnough
  <2>9. KnowsEnough(run)'
    BY <1>f, <2>5, <2>7, TaskOrder DEF KnowsEnough, CreateOrder
  <2>8. AuditPasses(plan)'
    BY <1>b, <2>7 DEF AuditPasses, StructureHolds, MarkersHold, SpecCovered
  <2>. QED
    BY <2>4, <2>5, <2>6, <2>7, <2>8, <2>9 DEF IntakeTypeOK
<1>5. CASE SkipExisting
  <2>1. /\ run.pc = "task" /\ run.at <= Len(CreateOrder)
        /\ \A i \in 1..(run.at - 1) : run.known[CreateOrder[i]] # 0
    BY <1>5 DEF SkipExisting, IntakeTypeOK, KnowsEnough
  <2>2. PICK hit \in (IF run.listed[Current] # 0 THEN {run.listed[Current]} ELSE Search(Current)) \ {0} :
          run' = NextTask([run EXCEPT !.known[Current] = hit,
                            !.issues = IF board[hit].issue THEN run.issues \cup {Current} ELSE run.issues])
    BY <1>5 DEF SkipExisting
  <2>3. Current \in Tasks /\ hit \in 1..Len(board)
    BY <2>1, <2>2, HitOnBoard
  <2>. DEFINE s == IF board[hit].issue THEN run.issues \cup {Current} ELSE run.issues
              u == [run EXCEPT !.known[Current] = hit, !.issues = s]
  <2>4. s \in SUBSET Tasks /\ hit \in Nat
    BY <1>r, <2>3 DEF Runs
  <2>. HIDE DEF s
  <2>5. Knows(u, Current, hit) /\ u.pc = "task"
    BY <1>r, <2>1, <2>3, <2>4, FoundIsKnown
  <2>6. run' = NextTask(u)
    BY <2>2 DEF s
  <2>. HIDE DEF u
  <2>7. /\ run' \in Runs /\ run'.known = u.known /\ run'.listed = run.listed
        /\ \/ run.at = Len(CreateOrder) /\ run'.pc = "relate" /\ run'.at = 1
           \/ run.at < Len(CreateOrder) /\ run'.pc = "task" /\ run'.at = run.at + 1
    BY <2>1, <2>5, <2>6, NextTaskTyped DEF Knows
  <2>8. \A t \in Tasks : run'.known[t] = run.known[t] \/ run'.known[t] \in 1..Len(board')
    BY <1>b, <1>f, <2>3, <2>5, <2>7 DEF Knows, BoardKept
  <2>9. KnowsEnough(run')
    <3>1. \A i \in 1..(run.at - 1) : CreateOrder[i] \in Tasks
      BY <1>f, <2>1, EarlierTask
    <3>2. \A i \in 1..(u.at - 1) : u.known[CreateOrder[i]] # 0
      BY <2>1, <2>3, <2>5, <3>1 DEF Knows
    <3>3. u.known[CreateOrder[u.at]] # 0 /\ u.at <= Len(CreateOrder) /\ u \in Runs
      BY <2>1, <2>3, <2>5 DEF Knows, Current
    <3>. QED
      BY <2>6, <3>2, <3>3, NextKnows
  <2>. QED
    BY <1>b, <2>1, <2>7, <2>8, <2>9, KnownTyped
<1>6. CASE CreateTask(TRUE)
  <2>1. /\ Current \in Tasks /\ run.pc = "task" /\ run.at <= Len(CreateOrder)
        /\ \A i \in 1..(run.at - 1) : run.known[CreateOrder[i]] # 0
    BY <1>6, <1>f, CurrentIsTask DEF CreateTask, IntakeTypeOK, KnowsEnough
  <2>2. run' = [run EXCEPT !.pc = "wait", !.known[Current] = Len(board) + 1]
    BY <1>6 DEF CreateTask
  <2>3. Len(board') = Len(board) + 1 /\ Len(board) + 1 \in Nat
    BY <1>6, <1>f DEF CreateTask, IntakeTypeOK
  <2>. DEFINE h == Len(board) + 1
  <2>4. Knows(run', Current, h) /\ run'.pc = "wait"
    BY <1>r, <2>1, <2>2, <2>3, CreatedIsKnown
  <2>6. \A t \in Tasks : run'.known[t] = run.known[t] \/ run'.known[t] \in 1..Len(board')
    BY <1>f, <2>3, <2>4 DEF Knows
  <2>7. KnowsEnough(run')
    <3>1. \A i \in 1..(run.at - 1) : CreateOrder[i] \in Tasks
      BY <1>f, <2>1, EarlierTask
    <3>2. \A i \in 1..(run.at - 1) : run'.known[CreateOrder[i]] # 0
      <4>1. h # 0 /\ \A x \in Tasks : run'.known[x] = run.known[x] \/ run'.known[x] = h
        BY <1>f, <2>4 DEF Knows
      <4>. QED
        BY <2>1, <3>1, <4>1
    <3>3. run'.known[CreateOrder[run.at]] # 0 /\ run'.at = run.at
      BY <1>f, <2>4 DEF Knows, Current
    <3>. QED
      BY <2>1, <2>4, <3>2, <3>3 DEF KnowsEnough
  <2>. QED
    BY <1>b, <2>1, <2>4, <2>6, <2>7, KnownTyped DEF Knows
<1>7. CASE WaitForGithubIssue
  <2>1. PICK s \in SUBSET Tasks : run' = [run EXCEPT !.pc = "label", !.issues = s]
    <3>1. Current \in Tasks /\ run.issues \in SUBSET Tasks
      BY <1>7, <1>f, <1>r, CurrentIsTask DEF WaitForGithubIssue, IntakeTypeOK, KnowsEnough, Runs
    <3>2. run.issues \cup {Current} \in SUBSET Tasks
      BY <3>1
    <3>. QED
      BY <1>7, <3>1, <3>2 DEF WaitForGithubIssue
  <2>2. run' \in Runs
    BY <1>r, <2>1 DEF Runs, Phases
  <2>3. run'.pc = "label" /\ run'.at = run.at /\ run'.known = run.known /\ run'.listed = run.listed
    BY <1>r, <2>1 DEF Runs
  <2>4. run.pc = "wait" /\ KnowsEnough(run)
    BY <1>7 DEF WaitForGithubIssue, IntakeTypeOK
  <2>5. KnowsEnough(run')
    BY <2>3, <2>4 DEF KnowsEnough
  <2>. QED
    BY <1>b, <2>2, <2>3, <2>4, <2>5, KnownTyped
<1>8. CASE AttachLabel
  <2>1. run.pc = "label" /\ KnowsEnough(run) /\ run' = NextTask(run)
    BY <1>8 DEF AttachLabel, IntakeTypeOK
  <2>2. run' \in Runs /\ run'.known = run.known /\ run'.listed = run.listed
    BY <1>r, <2>1, NextTaskTyped DEF KnowsEnough
  <2>3. KnowsEnough(run')
    BY <1>r, <2>1, NextKnows DEF KnowsEnough
  <2>. QED
    BY <1>b, <2>1, <2>2, <2>3, KnownTyped
<1>9. CASE WireLeaf
  <2>1. run.pc = "relate" /\ KnowsEnough(run) /\ run.at <= Len(SetToSeq(Leaves))
    BY <1>9 DEF WireLeaf, IntakeTypeOK, KnowsEnough
  <2>2. CASE run.at = Len(SetToSeq(Leaves))
    <3>1. run' = Goto(run, "status", 1) /\ 1 \in Nat \ {0}
      BY <1>9, <2>2 DEF WireLeaf
    <3>2. /\ run' \in Runs /\ run'.pc = "status" /\ run'.at = 1
          /\ run'.known = run.known /\ run'.listed = run.listed
      <4>1. "relate" \in Phases /\ "status" \in Phases
        BY DEF Phases
      <4>. QED
        BY <1>r, <3>1, <4>1, GotoTyped
    <3>3. KnowsEnough(run')
      BY <2>1, <3>2, TaskOrder DEF KnowsEnough
    <3>. QED
      BY <1>b, <2>1, <3>2, <3>3, KnownTyped
  <2>3. CASE run.at # Len(SetToSeq(Leaves))
    <3>1. run' = Goto(run, "relate", run.at + 1) /\ run.at + 1 \in Nat \ {0}
      BY <1>9, <1>f, <2>3 DEF WireLeaf
    <3>2. /\ run' \in Runs /\ run'.pc = "relate" /\ run'.at = run.at + 1
          /\ run'.known = run.known /\ run'.listed = run.listed
      <4>1. "relate" \in Phases
        BY DEF Phases
      <4>2. PICK n \in Nat \ {0} : n = run.at + 1
        BY <3>1
      <4>3. run' = Goto(run, "relate", n)
        BY <3>1, <4>2
      <4>. DEFINE u == Goto(run, "relate", n)
      <4>4. u \in Runs /\ u.pc = "relate" /\ u.at = n /\ u.known = run.known /\ u.listed = run.listed
        BY <1>r, <4>1, GotoTyped
      <4>. QED
        BY <4>2, <4>3, <4>4
    <3>3. KnowsEnough(run')
      <4>1. run.at + 1 <= Len(SetToSeq(Leaves))
        BY <1>f, <2>1, <2>3
      <4>. QED
        BY <2>1, <3>2, <4>1 DEF KnowsEnough
    <3>. QED
      BY <1>b, <2>1, <3>2, <3>3, KnownTyped
  <2>. QED
    BY <2>2, <2>3
<1>10. CASE SetReady
  <2>1. run.pc = "status" /\ KnowsEnough(run) /\ run.at <= Len(CreateOrder)
    BY <1>10 DEF SetReady, IntakeTypeOK, KnowsEnough
  <2>2. CASE run.at = Len(CreateOrder)
    <3>1. run' = Stopped(run, "done") /\ "done" \in Phases
      BY <1>10, <2>2 DEF SetReady, Phases
    <3>2. /\ run' \in Runs /\ run'.pc = "done" /\ run'.at = 1
          /\ run'.known = Nobody /\ run'.listed = Nobody
      BY <1>r, <3>1, StoppedTyped
    <3>3. AuditPasses(plan)
      BY <2>1 DEF IntakeTypeOK
    <3>. QED
      BY <1>b, <3>2, <3>3, ResetTyped
  <2>3. CASE run.at # Len(CreateOrder)
    <3>1. run' = Goto(run, "status", run.at + 1) /\ run.at + 1 \in Nat \ {0}
      BY <1>10, <1>f, <2>3 DEF SetReady
    <3>2. /\ run' \in Runs /\ run'.pc = "status" /\ run'.at = run.at + 1
          /\ run'.known = run.known /\ run'.listed = run.listed
      <4>1. "status" \in Phases
        BY DEF Phases
      <4>2. PICK n \in Nat \ {0} : n = run.at + 1
        BY <3>1
      <4>3. run' = Goto(run, "status", n)
        BY <3>1, <4>2
      <4>. DEFINE u == Goto(run, "status", n)
      <4>4. u \in Runs /\ u.pc = "status" /\ u.at = n /\ u.known = run.known /\ u.listed = run.listed
        BY <1>r, <4>1, GotoTyped
      <4>. QED
        BY <4>2, <4>3, <4>4
    <3>3. KnowsEnough(run')
      <4>1. run.at + 1 <= Len(CreateOrder)
        BY <1>f, <2>1, <2>3
      <4>. QED
        BY <2>1, <3>2, <4>1 DEF KnowsEnough
    <3>. QED
      BY <1>b, <2>1, <3>2, <3>3, KnownTyped
  <2>. QED
    BY <2>2, <2>3
<1>11. CASE LinkIssue \/ MoveTask \/ UNCHANGED intakeVars
  BY <1>1, <1>11 DEF LinkIssue, MoveTask, intakeVars
<1>. QED
  BY <1>2, <1>3, <1>4, <1>5, <1>6, <1>7, <1>8, <1>9, <1>10, <1>11 DEF IntakeNext

LEMMA IntakeTypeInit == IntakeInit => IntakeTypeOK
<1>. SUFFICES ASSUME IntakeInit PROVE IntakeTypeOK
  OBVIOUS
<1>1. Task(NoTask, "backlog", FALSE) \in BoardTasks
  BY DEF Task, BoardTasks
<1>2. board \in Seq(BoardTasks) /\ Len(board) \in Nat
  <2>1. PICK b \in BoardTasks : board = [i \in 1..Foreign |-> b]
    BY <1>1 DEF IntakeInit
  <2>. QED
    BY <2>1, IntakeAssumption
<1>3. Nobody \in [Tasks -> Nat] /\ \A t \in Tasks : Nobody[t] = 0
  BY DEF Nobody
<1>4. run \in Runs
  BY <1>3 DEF IntakeInit, NoRun, Runs, Phases
<1>5. run.pc = "stopped" /\ run.known = Nobody /\ run.listed = Nobody
  BY DEF IntakeInit, NoRun
<1>6. KnowsEnough(run)
  BY <1>5 DEF KnowsEnough
<1>7. \A t \in Tasks : run.known[t] <= Len(board) /\ run.listed[t] <= Len(board)
  BY <1>2, <1>3, <1>5
<1>. QED
  BY <1>2, <1>3, <1>4, <1>5, <1>6, <1>7 DEF IntakeTypeOK

-----------------------------------------------------------------------------
(* The import: nothing twice.                                              *)

LEMMA UniqueStep ==
  ASSUME IntakeTypeOK, OneTaskPerId, [IntakeNext]_intakeVars
  PROVE  OneTaskPerId'
<1>1. BoardKept /\ (Len(board') = Len(board) \/ BoardGrown)
  BY BoardStep
<1>2. DOMAIN board = 1..Len(board) /\ DOMAIN board' = 1..Len(board') /\ Len(board) \in Nat
  BY <1>1 DEF IntakeTypeOK, BoardKept
<1>3. ASSUME NEW i \in 1..Len(board'), NEW j \in 1..Len(board'),
             board'[i].marker = board'[j].marker, board'[i].marker # NoTask
      PROVE  i = j
  <2>1. CASE i \in 1..Len(board) /\ j \in 1..Len(board)
    BY <1>1, <1>2, <1>3, <2>1 DEF OneTaskPerId, BoardKept
  <2>2. CASE ~(i \in 1..Len(board) /\ j \in 1..Len(board))
    <3>1. BoardGrown
      BY <1>1, <1>2, <1>3, <2>2
    <3>2. \A k \in 1..Len(board) : board'[k].marker # Current
      BY <1>1, <1>2, <3>1, MarkedProperty DEF BoardGrown, BoardKept, IntakeTypeOK
    <3>3. \A k \in 1..Len(board') : k \in 1..Len(board) \/ k = Len(board) + 1
      BY <1>2, <3>1 DEF BoardGrown
    <3>. QED
      BY <1>3, <2>2, <3>1, <3>2, <3>3 DEF BoardGrown
  <2>. QED
    BY <2>1, <2>2
<1>. QED
  BY <1>2, <1>3 DEF OneTaskPerId

LEMMA UniqueInit == IntakeInit => OneTaskPerId
<1>. SUFFICES ASSUME IntakeInit PROVE OneTaskPerId
  OBVIOUS
<1>1. \A i \in DOMAIN board : board[i].marker = NoTask
  BY DEF IntakeInit, Task
<1>. QED
  BY <1>1 DEF OneTaskPerId

LEMMA IntakeUnique == IntakeSpec => [](IntakeTypeOK /\ OneTaskPerId)
<1>1. IntakeTypeOK /\ OneTaskPerId /\ [IntakeNext]_intakeVars => (IntakeTypeOK /\ OneTaskPerId)'
  BY IntakeTypeStep, UniqueStep
<1>. QED
  BY <1>1, IntakeTypeInit, UniqueInit, PTL DEF IntakeSpec

\* However often the import fails and is run again, whatever the board's search returns, no
\* task of the roadmap is created twice (import-roadmap-phasical.mjs:342).
THEOREM NoDuplicateTask == IntakeSpec => []OneTaskPerId
BY IntakeUnique, PTL

-----------------------------------------------------------------------------
(* The import: nothing lost.                                               *)

\* What a run knows is the task with that id, if the board's search returns no other.
KnowsTrue == \A t \in Tasks : run.known[t] # 0 => board[run.known[t]].marker = t

LEMMA MarkedIs ==
  ASSUME IntakeTypeOK, OneTaskPerId, NEW t \in Tasks, NEW i \in 1..Len(board), board[i].marker = t
  PROVE  Marked(t) = i
<1>1. DOMAIN board = 1..Len(board) /\ t # NoTask
  BY IntakeAssumption DEF IntakeTypeOK
<1>2. Marked(t) # 0
  BY MarkedProperty DEF IntakeTypeOK
<1>3. Marked(t) \in 1..Len(board) /\ board[Marked(t)].marker = t
  BY <1>2, MarkedProperty DEF IntakeTypeOK
<1>. QED
  BY <1>1, <1>3 DEF OneTaskPerId

\* A run forgets what it knows, gets to know one task, or knows what it knew.
LEMMA KnownStays ==
  ASSUME IntakeTypeOK, [IntakeNext]_intakeVars
  PROVE  run'.known = run.known \/ run'.known = Nobody \/ SkipExisting \/ CreateTask(TRUE)
<1>r. run \in Runs
  BY DEF IntakeTypeOK
<1>d. DOMAIN run = {"pc", "at", "listed", "known", "issues", "runs"}
  BY <1>r DEF Runs
<1>1. \A pc : Stopped(run, pc).known = Nobody
  BY <1>d DEF Stopped
<1>2. CASE Start
  <2>1. PICK pc : run' = [Stopped(run, pc) EXCEPT !.runs = run.runs + 1]
    BY <1>2 DEF Start
  <2>2. run'.known = Stopped(run, pc).known
    BY <2>1
  <2>. QED
    BY <1>1, <2>2
<1>3. CASE ApiFails \/ RunAgain \/ CreateTask(FALSE)
  BY <1>1, <1>3 DEF ApiFails, RunAgain, CreateTask
<1>4. CASE ListTasks \/ WaitForGithubIssue
  BY <1>d, <1>4 DEF ListTasks, WaitForGithubIssue
<1>5. \A pc, n : Goto(run, pc, n).known = run.known
  BY <1>d DEF Goto
<1>6. CASE AttachLabel \/ WireLeaf
  <2>1. \A r : NextTask(r) = Goto(r, "relate", 1) \/ NextTask(r) = Goto(r, "task", r.at + 1)
    BY DEF NextTask
  <2>2. run' = NextTask(run) \/ run' = Goto(run, "status", 1) \/ run' = Goto(run, "relate", run.at + 1)
    BY <1>6 DEF AttachLabel, WireLeaf
  <2>. QED
    BY <1>5, <2>1, <2>2
<1>7. CASE SetReady
  BY <1>1, <1>5, <1>7 DEF SetReady
<1>8. CASE LinkIssue \/ MoveTask \/ UNCHANGED intakeVars
  BY <1>8 DEF LinkIssue, MoveTask, intakeVars
<1>. QED
  BY <1>2, <1>3, <1>4, <1>6, <1>7, <1>8 DEF IntakeNext

LEMMA KnowsTrueStep ==
  ASSUME ~LooseSearch, IntakeTypeOK, KnowsTrue, [IntakeNext]_intakeVars
  PROVE  KnowsTrue'
<1>b. BoardKept /\ Len(board) \in Nat
  BY BoardStep DEF IntakeTypeOK
<1>r. run \in Runs /\ run.known \in [Tasks -> Nat]
  BY DEF IntakeTypeOK, Runs
<1>0. ASSUME NEW t \in Tasks, run.known[t] # 0 PROVE board'[run.known[t]].marker = t
  <2>1. run.known[t] \in 1..Len(board)
    BY <1>b, <1>r, <1>0 DEF IntakeTypeOK
  <2>. QED
    BY <1>b, <1>0, <2>1 DEF KnowsTrue, BoardKept
<1>1. CASE run'.known = run.known
  BY <1>0, <1>1 DEF KnowsTrue
<1>2. CASE run'.known = Nobody
  BY <1>2 DEF KnowsTrue, Nobody
<1>3. ASSUME NEW h \in Nat, h # 0, NEW u, Knows(u, Current, h), run'.known = u.known, board'[h].marker = Current
      PROVE  KnowsTrue'
  BY <1>0, <1>3 DEF KnowsTrue, Knows
<1>4. CASE SkipExisting
  <2>1. run.pc = "task" /\ run.at <= Len(CreateOrder) /\ board' = board
    BY <1>4 DEF SkipExisting, IntakeTypeOK, KnowsEnough
  <2>2. PICK hit \in (IF run.listed[Current] # 0 THEN {run.listed[Current]} ELSE Search(Current)) \ {0} :
          run' = NextTask([run EXCEPT !.known[Current] = hit,
                            !.issues = IF board[hit].issue THEN run.issues \cup {Current} ELSE run.issues])
    BY <1>4 DEF SkipExisting
  <2>3. Current \in Tasks /\ hit \in 1..Len(board)
    BY <2>1, <2>2, HitOnBoard
  <2>4. board[hit].marker = Current
    <3>1. CASE run.listed[Current] # 0
      BY <2>2, <2>3, <3>1 DEF IntakeTypeOK
    <3>2. CASE run.listed[Current] = 0
      <4>1. hit \in Search(Current) \ {0}
        BY <2>2, <3>2
      <4>2. hit = Marked(Current) /\ hit # 0
        BY <4>1 DEF Search
      <4>. QED
        BY <4>2, MarkedProperty DEF IntakeTypeOK
    <3>. QED
      BY <3>1, <3>2
  <2>. DEFINE s == IF board[hit].issue THEN run.issues \cup {Current} ELSE run.issues
              u == [run EXCEPT !.known[Current] = hit, !.issues = s]
  <2>5. s \in SUBSET Tasks /\ hit \in Nat /\ hit # 0
    BY <1>r, <2>3 DEF Runs
  <2>. HIDE DEF s
  <2>6. Knows(u, Current, hit)
    BY <1>r, <2>3, <2>5, FoundIsKnown
  <2>7. run' = NextTask(u)
    BY <2>2 DEF s
  <2>. HIDE DEF u
  <2>8. run'.known = u.known
    BY <2>1, <2>6, <2>7, NextTaskTyped DEF Knows
  <2>. QED
    BY <1>3, <2>1, <2>4, <2>5, <2>6, <2>8
<1>5. CASE CreateTask(TRUE)
  <2>1. Current \in Tasks /\ plan.marker[Current] = Current
    BY <1>5, CurrentIsTask DEF CreateTask, IntakeTypeOK, KnowsEnough, Runs, AuditPasses, MarkersHold
  <2>. DEFINE h == Len(board) + 1
  <2>2. run' = [run EXCEPT !.pc = "wait", !.known[Current] = h] /\ h \in Nat /\ h # 0
    BY <1>b, <1>5 DEF CreateTask
  <2>3. board'[h].marker = Current
    BY <1>5, <2>1 DEF CreateTask, Task, IntakeTypeOK
  <2>4. Knows(run', Current, h)
    BY <1>r, <2>1, <2>2, CreatedIsKnown
  <2>. QED
    BY <1>3, <2>2, <2>3, <2>4
<1>. QED
  BY <1>1, <1>2, <1>4, <1>5, KnownStays

\* The relations of the leaves that the loop has passed are on the board.
Wired ==
  /\ run.pc = "relate" => \A i \in 1..(run.at - 1) : RelationsOf(SetToSeq(Leaves)[i]) \subseteq posted
  /\ run.pc = "status" => \A l \in Leaves : RelationsOf(l) \subseteq posted

\* Nobody takes a relation off the board.
LEMMA PostedStays ==
  ASSUME [IntakeNext]_intakeVars
  PROVE  posted \subseteq posted'
<1>1. CASE ApiFails
  <2>1. posted' = posted \/ \E some : posted' = posted \cup some
    BY <1>1 DEF ApiFails
  <2>. QED
    BY <2>1
<1>2. CASE WireLeaf
  BY <1>2 DEF WireLeaf
<1>. QED
  BY <1>1, <1>2 DEF IntakeNext, intakeVars, Start, ListTasks, SkipExisting, CreateTask,
     WaitForGithubIssue, AttachLabel, SetReady, RunAgain, LinkIssue, MoveTask

\* Past its guard no leaf's relation has an end that is not known.
LEMMA AllPostable ==
  ASSUME IntakeTypeOK, run.pc = "relate", NEW l \in Leaves
  PROVE  Postable(l) = RelationsOf(l)
<1>1. \A t \in Tasks : run.known[t] # 0
  BY DEF IntakeTypeOK, KnowsEnough
<1>2. l \in Tasks
  BY DEF Tasks
<1>3. \A r \in RelationsOf(l) : r[2] # 0 /\ r[3] # 0
  BY <1>1, <1>2 DEF RelationsOf
<1>. QED
  BY <1>3 DEF Postable

\* Which steps lead to the last two loops, and to the end.
LEMMA RunEnters ==
  ASSUME IntakeTypeOK, [IntakeNext]_intakeVars
  PROVE  /\ run'.pc = "relate" => \/ run'.at = 1
                                  \/ run' = run
                                  \/ WireLeaf /\ run.at # Len(SetToSeq(Leaves)) /\ run'.at = run.at + 1
         /\ run'.pc = "status" => \/ run.pc = "status" /\ run'.known = run.known
                                  \/ WireLeaf /\ run.at = Len(SetToSeq(Leaves))
         /\ run'.pc = "done" => \/ run.pc = "done" /\ run' = run
                                \/ SetReady
<1>r. run \in Runs
  BY DEF IntakeTypeOK
<1>d. DOMAIN run = {"pc", "at", "listed", "known", "issues", "runs"}
  BY <1>r DEF Runs
<1>1. \A pc : Stopped(run, pc).pc = pc
  BY <1>d DEF Stopped
<1>2. CASE Start
  <2>1. PICK pc \in {"list", "stopped"} : run' = [Stopped(run, pc) EXCEPT !.runs = run.runs + 1]
    BY <1>2 DEF Start
  <2>2. run'.pc = Stopped(run, pc).pc
    BY <2>1
  <2>. QED
    BY <1>1, <2>1, <2>2
<1>3. CASE ApiFails \/ RunAgain \/ CreateTask(FALSE)
  BY <1>1, <1>3 DEF ApiFails, RunAgain, CreateTask
<1>4. CASE ListTasks \/ WaitForGithubIssue \/ CreateTask(TRUE)
  BY <1>d, <1>4 DEF ListTasks, WaitForGithubIssue, CreateTask
<1>5. \A r, pc, n : DOMAIN r = DOMAIN run => Goto(r, pc, n).pc = pc /\ Goto(r, pc, n).at = n /\ Goto(r, pc, n).known = r.known
  BY <1>d DEF Goto
<1>6. \A r : DOMAIN r = DOMAIN run => NextTask(r).pc = "task" \/ (NextTask(r).pc = "relate" /\ NextTask(r).at = 1)
  BY <1>5 DEF NextTask
<1>7. CASE SkipExisting
  <2>1. PICK r : DOMAIN r = DOMAIN run /\ run' = NextTask(r)
    BY <1>7 DEF SkipExisting
  <2>. QED
    BY <1>6, <2>1
<1>8. CASE AttachLabel
  BY <1>6, <1>8 DEF AttachLabel
<1>9. CASE WireLeaf
  <2>1. CASE run.at = Len(SetToSeq(Leaves))
    <3>1. run' = Goto(run, "status", 1)
      BY <1>9, <2>1 DEF WireLeaf
    <3>. QED
      BY <1>5, <1>9, <2>1, <3>1
  <2>2. CASE run.at # Len(SetToSeq(Leaves))
    <3>1. run' = Goto(run, "relate", run.at + 1)
      BY <1>9, <2>2 DEF WireLeaf
    <3>2. run'.pc = "relate" /\ run'.at = run.at + 1
      BY <1>5, <3>1
    <3>. QED
      BY <1>9, <2>2, <3>2
  <2>. QED
    BY <2>1, <2>2
<1>10. CASE SetReady
  <2>1. run' = Stopped(run, "done") \/ run' = Goto(run, "status", run.at + 1)
    BY <1>10 DEF SetReady
  <2>. QED
    BY <1>1, <1>5, <1>10, <2>1 DEF SetReady
<1>11. CASE LinkIssue \/ MoveTask \/ UNCHANGED intakeVars
  BY <1>11 DEF LinkIssue, MoveTask, intakeVars
<1>. QED
  BY <1>2, <1>3, <1>4, <1>7, <1>8, <1>9, <1>10, <1>11 DEF IntakeNext

LEMMA WiredStep ==
  ASSUME IntakeTypeOK, Wired, [IntakeNext]_intakeVars
  PROVE  Wired'
<1>b. plan' = plan /\ posted \subseteq posted'
  BY BoardStep, PostedStays
<1>k. ASSUME NEW l, run'.known = run.known PROVE RelationsOf(l)' = RelationsOf(l)
  BY <1>b, <1>k DEF RelationsOf
<1>r. run.at \in Nat \ {0} /\ run'.at \in Nat \ {0}
  BY IntakeTypeStep DEF IntakeTypeOK, Runs
<1>w. ASSUME WireLeaf
      PROVE  /\ run'.known = run.known /\ run.pc = "relate"
             /\ \A i \in 1..run.at : RelationsOf(SetToSeq(Leaves)[i]) \subseteq posted'
  <2>1. run.pc = "relate" /\ run.at <= Len(SetToSeq(Leaves))
    BY <1>w DEF WireLeaf, IntakeTypeOK, KnowsEnough
  <2>2. run'.known = run.known
    <3>1. \A pc, n : Goto(run, pc, n).known = run.known
      BY DEF Goto, IntakeTypeOK, Runs
    <3>. QED
      BY <1>w, <3>1 DEF WireLeaf
  <2>3. SetToSeq(Leaves)[run.at] \in Leaves
    BY <1>r, <2>1, LeafOrder
  <2>4. RelationsOf(SetToSeq(Leaves)[run.at]) \subseteq posted'
    BY <1>w, <2>1, <2>3, AllPostable DEF WireLeaf
  <2>5. \A i \in 1..run.at : i = run.at \/ i \in 1..(run.at - 1)
    BY <1>r
  <2>. QED
    BY <1>b, <2>1, <2>2, <2>4, <2>5 DEF Wired
<1>1. ASSUME run'.pc = "relate", NEW i \in 1..(run'.at - 1)
      PROVE  RelationsOf(SetToSeq(Leaves)[i])' \subseteq posted'
  <2>1. run'.at # 1
    BY <1>r, <1>1
  <2>2. CASE run' = run
    BY <1>b, <1>k, <1>1, <2>2 DEF Wired
  <2>3. CASE WireLeaf /\ run'.at = run.at + 1
    <3>1. i \in 1..run.at
      BY <1>r, <1>1, <2>3
    <3>2. RelationsOf(SetToSeq(Leaves)[i]) \subseteq posted' /\ run'.known = run.known
      BY <1>w, <2>3, <3>1
    <3>3. RelationsOf(SetToSeq(Leaves)[i])' = RelationsOf(SetToSeq(Leaves)[i])
      BY <1>b, <3>2 DEF RelationsOf
    <3>. QED
      BY <3>2, <3>3
  <2>. QED
    BY <1>1, <2>1, <2>2, <2>3, RunEnters
<1>2. ASSUME run'.pc = "status", NEW l \in Leaves
      PROVE  RelationsOf(l)' \subseteq posted'
  <2>1. CASE run.pc = "status" /\ run'.known = run.known
    BY <1>b, <1>k, <2>1 DEF Wired
  <2>2. CASE WireLeaf /\ run.at = Len(SetToSeq(Leaves))
    <3>1. PICK i \in 1..run.at : SetToSeq(Leaves)[i] = l
      BY <2>2, LeafOrder
    <3>. QED
      BY <1>k, <1>w, <2>2, <3>1
  <2>. QED
    BY <1>2, <2>1, <2>2, RunEnters
<1>. QED
  BY <1>1, <1>2 DEF Wired

LEMMA MarkedStays ==
  ASSUME IntakeTypeOK, OneTaskPerId, [IntakeNext]_intakeVars, NEW t \in Tasks, Marked(t) # 0
  PROVE  Marked(t)' = Marked(t)
<1>1. IntakeTypeOK' /\ OneTaskPerId' /\ BoardKept /\ t # NoTask
  BY IntakeTypeStep, UniqueStep, BoardStep, IntakeAssumption
<1>2. Marked(t) \in 1..Len(board) /\ board[Marked(t)].marker = t
  BY MarkedProperty DEF IntakeTypeOK
<1>. DEFINE m == Marked(t)
<1>3. m \in DOMAIN board' /\ board'[m].marker = t
  BY <1>1, <1>2 DEF BoardKept, IntakeTypeOK
<1>. HIDE DEF m
<1>4. \A i \in DOMAIN board' : board'[i].marker = t => i = m
  BY <1>1, <1>3 DEF OneTaskPerId
<1>5. Marked(t)' = m
  BY <1>3, <1>4 DEF Marked
<1>. QED
  BY <1>5 DEF m

\* Every relation that the plan has for a leaf is on the board between the very tasks.
LEMMA CompleteStep ==
  ASSUME IntakeTypeOK, OneTaskPerId, KnowsTrue, Wired, CompleteImport, [IntakeNext]_intakeVars
  PROVE  CompleteImport'
<1>. SUFFICES ASSUME run'.pc = "done"
              PROVE  /\ \A t \in Tasks : Marked(t)' # 0
                     /\ \A l \in Leaves :
                          /\ <<"subtask", Marked(plan.parent[l])', Marked(l)'>> \in posted'
                          /\ \A b \in plan.blockers[l] : <<"blocks", Marked(b)', Marked(l)'>> \in posted'
  BY BoardStep DEF CompleteImport
<1>b. posted \subseteq posted' /\ Leaves \subseteq Tasks
  BY PostedStays DEF Tasks
<1>p. /\ \A l \in Leaves : plan.parent[l] \in Tasks
      /\ \A l \in Leaves : plan.blockers[l] \subseteq Tasks
  <2>1. run.pc # "stopped"
    BY RunEnters DEF SetReady
  <2>. QED
    BY <1>b, <2>1 DEF IntakeTypeOK, AuditPasses, StructureHolds
<1>1. /\ \A t \in Tasks : Marked(t) # 0
      /\ \A l \in Leaves :
           /\ <<"subtask", Marked(plan.parent[l]), Marked(l)>> \in posted
           /\ \A b \in plan.blockers[l] : <<"blocks", Marked(b), Marked(l)>> \in posted
  <2>1. CASE run.pc = "done"
    BY <2>1 DEF CompleteImport
  <2>2. CASE SetReady
    <3>1. run.pc = "status" /\ \A t \in Tasks : run.known[t] # 0
      BY <2>2 DEF SetReady, IntakeTypeOK, KnowsEnough
    <3>2. ASSUME NEW t \in Tasks PROVE Marked(t) = run.known[t]
      <4>1. run.known[t] \in 1..Len(board) /\ board[run.known[t]].marker = t
        BY <3>1 DEF KnowsTrue, IntakeTypeOK, Runs
      <4>. QED
        BY <4>1, MarkedIs
    <3>3. \A l \in Leaves : RelationsOf(l) \subseteq posted
      BY <3>1 DEF Wired
    <3>4. ASSUME NEW l \in Leaves
          PROVE  /\ <<"subtask", run.known[plan.parent[l]], run.known[l]>> \in RelationsOf(l)
                 /\ \A b \in plan.blockers[l] : <<"blocks", run.known[b], run.known[l]>> \in RelationsOf(l)
      BY <1>p DEF RelationsOf
    <3>. QED
      BY <1>b, <1>p, <3>1, <3>2, <3>3, <3>4
  <2>. QED
    BY <2>1, <2>2, RunEnters
<1>2. ASSUME NEW t \in Tasks PROVE Marked(t)' = Marked(t) /\ Marked(t)' # 0
  BY <1>1, MarkedStays
<1>3. ASSUME NEW l \in Leaves
      PROVE  /\ <<"subtask", Marked(plan.parent[l])', Marked(l)'>> \in posted'
             /\ \A b \in plan.blockers[l] : <<"blocks", Marked(b)', Marked(l)'>> \in posted'
  <2>. PICK q \in Tasks : q = plan.parent[l]
    BY <1>p
  <2>1. l \in Tasks /\ plan.blockers[l] \subseteq Tasks /\ q = plan'.parent[l]
    BY <1>b, <1>p, BoardStep
  <2>2. Marked(q)' = Marked(q) /\ Marked(l)' = Marked(l)
    BY <1>2, <2>1
  <2>3. ASSUME NEW b \in plan.blockers[l] PROVE Marked(b)' = Marked(b)
    BY <1>2, <2>1
  <2>4. <<"subtask", Marked(q)', Marked(l)'>> \in posted'
    BY <1>b, <1>1, <2>2
  <2>5. \A b \in plan.blockers[l] : <<"blocks", Marked(b)', Marked(l)'>> \in posted'
    BY <1>b, <1>1, <2>2, <2>3
  <2>6. <<"subtask", Marked(plan.parent[l])', Marked(l)'>> \in posted'
    BY <2>1, <2>4
  <2>. QED
    BY <2>5, <2>6
<1>. QED
  BY <1>2, <1>3

\* However often the import has failed before, once it completes every task of the roadmap is
\* on the board and each relation of the plan is wired between those very tasks, provided the
\* board's search returns only tasks that carry the id.
THEOREM NothingLost ==
  ASSUME ~LooseSearch
  PROVE  IntakeSpec => []CompleteImport
<1>. DEFINE IInv == IntakeTypeOK /\ OneTaskPerId /\ KnowsTrue /\ Wired /\ CompleteImport
<1>1. IntakeInit => IInv
  <2>. SUFFICES ASSUME IntakeInit PROVE IInv
    OBVIOUS
  <2>1. run.pc = "stopped" /\ run.known = Nobody
    BY DEF IntakeInit, NoRun
  <2>2. KnowsTrue
    BY <2>1 DEF KnowsTrue, Nobody
  <2>. QED
    BY <2>1, <2>2, IntakeTypeInit, UniqueInit DEF Wired, CompleteImport
<1>2. IInv /\ [IntakeNext]_intakeVars => IInv'
  BY IntakeTypeStep, UniqueStep, KnowsTrueStep, WiredStep, CompleteStep
<1>. QED
  BY <1>1, <1>2, PTL DEF IntakeSpec

-----------------------------------------------------------------------------
(* The release job.                                                        *)

ReleasePhases == {"check", "tag", "release"} \cup Ended

\* The main branch only grows; a tag stays at a commit with the version it names.
ReleaseTypeOK ==
  /\ \E n \in Nat : DOMAIN history = 1..n
  /\ \A c \in DOMAIN history : history[c] \in Versions
  /\ DOMAIN tags \subseteq Versions
  /\ \A v \in DOMAIN tags : tags[v] \in DOMAIN history /\ history[tags[v]] = v
  /\ DOMAIN releases \subseteq DOMAIN tags
  /\ job \in [pc : ReleasePhases, at : Nat, last : Versions \cup {NoVersion}]
  /\ job.pc \notin Ended => job.at \in DOMAIN history

Others(own) == DOMAIN tags \ {own}

IsFirst(v, S) == v \in S /\ \A w \in S \ {v} : SortsAfter(v, w)

\* LastTag has something to choose.
TagsHaveFirst == \A own \in Versions : Others(own) = {} \/ \E v \in Others(own) : IsFirst(v, Others(own))

\* What a job that is past its checks relies on: no other job tags meanwhile, so the tag it
\* has seen is still git's first of the other tags.
JobInOrder ==
  /\ job.pc \in {"tag", "release"} =>
       /\ HeadVersion \notin DOMAIN releases
       /\ IF job.last = NoVersion THEN Others(HeadVersion) = {}
          ELSE IsFirst(job.last, Others(HeadVersion)) /\ Greater(HeadVersion, job.last)
  /\ job.pc = "release" => HeadVersion \in DOMAIN tags

\* What the notes of v left to a tag without a release, they left to a smaller one.
CoveredFromBelow ==
  \A v \in DOMAIN releases : \A c \in 1..tags[v] :
    \/ \E w \in DOMAIN releases : c \in releases[w].notes
    \/ \E u \in DOMAIN tags \ DOMAIN releases : Greater(v, u) /\ c <= tags[u]
    \/ \E w \in DOMAIN releases : releases[w].at < c /\ c <= tags[w]

ReleaseInv == ReleaseTypeOK /\ TagsHaveFirst /\ JobInOrder /\ CoveredFromBelow

LEMMA VersionFields ==
  ASSUME NEW v \in Versions
  PROVE  v = [num |-> v.num, rc |-> v.rc] /\ v.num \in Nat \ {0} /\ v.rc \in Nat /\ v # NoVersion
<1>1. v \in [num : Nat \ {0}, rc : Nat]
  BY VersionsAssumption
<1>. QED
  BY <1>1 DEF NoVersion

LEMMA DigitsType ==
  ASSUME NEW n \in Nat
  PROVE  Digits(n) \in Nat
BY DEF Digits

\* The script's order is one; git's orders any two tags.
LEMMA Orders ==
  ASSUME NEW u \in Versions, NEW v \in Versions, NEW w \in Versions
  PROVE  /\ ~Greater(v, v)
         /\ Greater(u, v) /\ Greater(v, w) => Greater(u, w)
         /\ SortsAfter(u, v) /\ SortsAfter(v, w) => SortsAfter(u, w)
         /\ u = v \/ SortsAfter(u, v) \/ SortsAfter(v, u)
<1>1. /\ u.num \in Nat /\ v.num \in Nat /\ w.num \in Nat
      /\ u.rc \in Nat /\ v.rc \in Nat /\ w.rc \in Nat
  BY VersionFields
<1>2. Digits(u.rc) \in Nat /\ Digits(v.rc) \in Nat /\ Digits(w.rc) \in Nat
  BY <1>1, DigitsType
<1>3. ~Greater(v, v) /\ (Greater(u, v) /\ Greater(v, w) => Greater(u, w))
  BY <1>1, <1>2 DEF Greater
<1>4. SortsAfter(u, v) /\ SortsAfter(v, w) => SortsAfter(u, w)
  BY <1>1 DEF SortsAfter
<1>5. u.num = v.num /\ u.rc = v.rc => u = v
  BY VersionFields
<1>6. u = v \/ SortsAfter(u, v) \/ SortsAfter(v, u)
  BY <1>1, <1>5 DEF SortsAfter
<1>. QED
  BY <1>3, <1>4, <1>6

LEMMA LastTagIsFirst ==
  ASSUME ReleaseTypeOK, TagsHaveFirst, NEW own \in Versions
  PROVE  IF LastTag(own) = NoVersion THEN Others(own) = {} ELSE IsFirst(LastTag(own), Others(own))
<1>1. CASE Others(own) = {}
  BY <1>1 DEF LastTag, Others
<1>2. CASE Others(own) # {}
  <2>1. PICK m \in Others(own) : IsFirst(m, Others(own))
    BY <1>2 DEF TagsHaveFirst
  <2>2. LastTag(own) = CHOOSE v \in Others(own) : \A w \in Others(own) \ {v} : SortsAfter(v, w)
    BY <1>2 DEF LastTag, Others
  <2>3. IsFirst(LastTag(own), Others(own))
    BY <2>1, <2>2 DEF IsFirst
  <2>4. LastTag(own) \in Versions
    BY <2>3 DEF IsFirst, Others, ReleaseTypeOK
  <2>. QED
    BY <2>3, <2>4, VersionFields
<1>. QED
  BY <1>1, <1>2

LEMMA HistoryGrows ==
  ASSUME ReleaseTypeOK, Push
  PROVE  /\ \E n \in Nat : DOMAIN history' = 1..n
         /\ DOMAIN history \subseteq DOMAIN history'
         /\ \A c \in DOMAIN history : history'[c] = history[c]
         /\ \A c \in DOMAIN history' : history'[c] \in Versions
         /\ job' \in [pc : ReleasePhases, at : Nat, last : Versions \cup {NoVersion}]
         /\ job'.pc = "check" /\ job'.at \in DOMAIN history'
<1>1. PICK n \in Nat : DOMAIN history = 1..n
  BY DEF ReleaseTypeOK
<1>2. Cardinality(DOMAIN history) = n
  BY <1>1, FS_Interval
<1>3. PICK v \in Versions :
        history' = [c \in 1..n \cup {n + 1} |-> IF c \in 1..n THEN history[c] ELSE v]
  BY <1>1, <1>2 DEF Push
<1>4. DOMAIN history' = 1..(n + 1)
  BY <1>1, <1>3
<1>5. job' = [pc |-> "check", at |-> n + 1, last |-> NoVersion]
  BY <1>1, <1>2 DEF Push
<1>. QED
  BY <1>1, <1>3, <1>4, <1>5 DEF ReleaseTypeOK, ReleasePhases

\* Of a job's steps only those of PushTag and CreateRelease touch what is shared.
LEMMA QuietStep ==
  ASSUME ReleaseInv, UNCHANGED <<history, tags, releases>>,
         job' \in [pc : ReleasePhases, at : Nat, last : Versions \cup {NoVersion}],
         job'.pc \notin Ended => job'.at \in DOMAIN history,
         job'.pc \notin {"tag", "release"} \/ JobInOrder'
  PROVE  ReleaseInv'
<1>1. ReleaseTypeOK'
  BY DEF ReleaseInv, ReleaseTypeOK
<1>2. TagsHaveFirst' /\ CoveredFromBelow'
  BY DEF ReleaseInv, TagsHaveFirst, CoveredFromBelow, Others
<1>3. JobInOrder'
  BY DEF JobInOrder
<1>. QED
  BY <1>1, <1>2, <1>3 DEF ReleaseInv

LEMMA EndTyped ==
  ASSUME ReleaseTypeOK, NEW result \in Ended, End(result)
  PROVE  /\ job' \in [pc : ReleasePhases, at : Nat, last : Versions \cup {NoVersion}]
         /\ job'.pc \in Ended
BY DEF End, ReleaseTypeOK, ReleasePhases

LEMMA HeadIsVersion ==
  ASSUME ReleaseTypeOK, job.pc \in {"check", "tag", "release"}
  PROVE  HeadCommit \in DOMAIN history /\ HeadVersion \in Versions /\ HeadCommit \in Nat
BY DEF ReleaseTypeOK, HeadCommit, HeadVersion, Ended

LEMMA ProceedStep ==
  ASSUME ReleaseInv, Proceed
  PROVE  ReleaseInv'
<1>. DEFINE h == HeadVersion
            l == LastTag(h)
<1>1. h \in Versions /\ job.at \in DOMAIN history
  BY HeadIsVersion DEF Proceed, ReleaseInv, HeadCommit
<1>2. IF l = NoVersion THEN Others(h) = {} ELSE IsFirst(l, Others(h))
  BY <1>1, LastTagIsFirst DEF ReleaseInv
<1>3. job' = [job EXCEPT !.pc = "tag", !.last = l] /\ UNCHANGED <<history, tags, releases>>
  BY DEF Proceed
<1>4. l \in Versions \cup {NoVersion}
  BY <1>2 DEF IsFirst, Others, ReleaseInv, ReleaseTypeOK
<1>5. l # NoVersion => Greater(h, l)
  <2>1. l # NoVersion => l \in DOMAIN tags
    BY <1>2 DEF IsFirst, Others
  <2>2. l # NoVersion => history[tags[l]] = l
    BY <2>1 DEF ReleaseInv, ReleaseTypeOK
  <2>. QED
    BY <2>2 DEF Proceed
<1>6. h \notin DOMAIN releases
  BY DEF Proceed
<1>. HIDE DEF l
<1>7. /\ job' \in [pc : ReleasePhases, at : Nat, last : Versions \cup {NoVersion}]
      /\ job'.pc = "tag" /\ job'.at = job.at /\ job'.last = l
  BY <1>3, <1>4 DEF ReleaseInv, ReleaseTypeOK, ReleasePhases
<1>8. HeadVersion' = h /\ Others(HeadVersion)' = Others(h)
  BY <1>3, <1>7 DEF HeadVersion, HeadCommit, Others
<1>. HIDE DEF h
<1>9. JobInOrder'
  BY <1>2, <1>3, <1>5, <1>6, <1>7, <1>8 DEF JobInOrder
<1>. QED
  BY <1>1, <1>3, <1>7, <1>9, QuietStep

LEMMA PushTagStep ==
  ASSUME ReleaseInv, PushTag
  PROVE  ReleaseInv'
<1>. DEFINE h == HeadVersion
<1>1. h \in Versions /\ HeadCommit \in DOMAIN history /\ history[HeadCommit] = h
  BY HeadIsVersion DEF PushTag, ReleaseInv, HeadVersion
<1>2. /\ job' = [job EXCEPT !.pc = "release"] /\ job.pc = "tag"
      /\ history' = history /\ releases' = releases
  BY DEF PushTag
<1>3. /\ job' \in [pc : ReleasePhases, at : Nat, last : Versions \cup {NoVersion}]
      /\ job'.pc = "release" /\ job'.at = job.at /\ job'.last = job.last
      /\ job.at \in DOMAIN history
  BY <1>2 DEF ReleaseInv, ReleaseTypeOK, ReleasePhases, Ended
<1>4. h \notin DOMAIN releases
  BY <1>2 DEF ReleaseInv, JobInOrder
<1>5. /\ DOMAIN tags' = DOMAIN tags \cup {h}
      /\ \A v \in DOMAIN tags : tags'[v] = tags[v]
      /\ tags'[h] \in DOMAIN history /\ history[tags'[h]] = h
  <2>1. CASE h \in DOMAIN tags
    <3>1. tags' = tags
      BY <2>1 DEF PushTag
    <3>. QED
      BY <2>1, <3>1 DEF ReleaseInv, ReleaseTypeOK
  <2>2. CASE h \notin DOMAIN tags
    <3>1. tags' = [v \in DOMAIN tags \cup {h} |-> IF v = h THEN HeadCommit ELSE tags[v]]
      BY <2>2 DEF PushTag
    <3>. HIDE DEF h
    <3>. QED
      BY <1>1, <2>2, <3>1
  <2>. QED
    BY <2>1, <2>2
<1>6. HeadVersion' = h
  BY <1>2, <1>3 DEF HeadVersion, HeadCommit
<1>j. JobInOrder
  BY DEF ReleaseInv
<1>7. IF job.last = NoVersion THEN Others(h) = {} ELSE IsFirst(job.last, Others(h)) /\ Greater(h, job.last)
  BY <1>2, <1>j DEF JobInOrder
<1>. HIDE DEF h
<1>8. ReleaseTypeOK'
  BY <1>1, <1>2, <1>3, <1>5 DEF ReleaseInv, ReleaseTypeOK
<1>9. JobInOrder'
  <2>1. Others(HeadVersion)' = Others(h)
    BY <1>5, <1>6 DEF Others
  <2>. QED
    BY <1>2, <1>3, <1>4, <1>5, <1>6, <1>7, <2>1 DEF JobInOrder
<1>10. TagsHaveFirst'
  <2>. SUFFICES ASSUME NEW own \in Versions
                PROVE  \E v \in Others(own)' \cup {h} : Others(own)' = {} \/ IsFirst(v, Others(own)')
    BY DEF TagsHaveFirst, IsFirst
  <2>1. Others(own)' = Others(own) \/ Others(own)' = Others(own) \cup {h}
    BY <1>5 DEF Others
  <2>2. Others(own) \subseteq Versions
    BY DEF Others, ReleaseInv, ReleaseTypeOK
  <2>3. Others(own) = {} \/ \E v \in Others(own) : IsFirst(v, Others(own))
    BY DEF ReleaseInv, TagsHaveFirst
  <2>4. CASE Others(own) = {}
    BY <2>1, <2>4 DEF IsFirst
  <2>5. CASE Others(own) # {}
    <3>1. PICK m \in Others(own) : IsFirst(m, Others(own))
      BY <2>3, <2>5
    <3>2. CASE m = h \/ SortsAfter(m, h)
      <4>1. IsFirst(m, Others(own) \cup {h})
        BY <3>1, <3>2 DEF IsFirst
      <4>. QED
        BY <2>1, <3>1, <4>1
    <3>3. CASE SortsAfter(h, m)
      <4>1. \A w \in Others(own) : SortsAfter(h, w)
        <5>1. ASSUME NEW w \in Others(own) PROVE SortsAfter(h, w)
          BY <1>1, <2>2, <3>1, <3>3, Orders DEF IsFirst
        <5>. QED
          BY <5>1
      <4>2. IsFirst(h, Others(own) \cup {h})
        BY <4>1 DEF IsFirst
      <4>. QED
        BY <2>1, <3>1, <4>2
    <3>. QED
      BY <1>1, <2>2, <3>1, <3>2, <3>3, Orders
  <2>. QED
    BY <2>4, <2>5
<1>11. CoveredFromBelow'
  <2>1. CoveredFromBelow /\ DOMAIN releases \subseteq DOMAIN tags
    BY DEF ReleaseInv, ReleaseTypeOK
  <2>2. ASSUME NEW v \in DOMAIN releases, NEW c \in 1..tags[v]
        PROVE  \/ \E w \in DOMAIN releases : c \in releases[w].notes
               \/ \E u \in DOMAIN tags' \ DOMAIN releases : Greater(v, u) /\ c <= tags'[u]
               \/ \E w \in DOMAIN releases : releases[w].at < c /\ c <= tags'[w]
    BY <1>5, <2>1 DEF CoveredFromBelow
  <2>. QED
    BY <1>2, <1>5, <2>1, <2>2 DEF CoveredFromBelow
<1>. QED
  BY <1>8, <1>9, <1>10, <1>11 DEF ReleaseInv

\* Where a commit that the tag of a released v contains is accounted for.
Explained(v, c) ==
  \/ \E w \in DOMAIN releases : c \in releases[w].notes
  \/ \E u \in DOMAIN tags \ DOMAIN releases : Greater(v, u) /\ c <= tags[u]
  \/ \E w \in DOMAIN releases : releases[w].at < c /\ c <= tags[w]

LEMMA CreateReleaseStep ==
  ASSUME ReleaseInv, CreateRelease
  PROVE  ReleaseInv'
<1>t. ReleaseTypeOK
  BY DEF ReleaseInv
<1>. PICK h \in Versions : h = HeadVersion
  BY <1>t, HeadIsVersion DEF CreateRelease
<1>1. HeadCommit \in DOMAIN history /\ HeadCommit \in Nat
  BY <1>t, HeadIsVersion DEF CreateRelease
<1>2. /\ job.pc = "release" /\ history' = history /\ tags' = tags /\ End("released")
  BY DEF CreateRelease
<1>3. /\ job' \in [pc : ReleasePhases, at : Nat, last : Versions \cup {NoVersion}]
      /\ job'.pc \in Ended
  BY <1>t, <1>2, EndTyped DEF Ended
<1>4. /\ h \notin DOMAIN releases /\ h \in DOMAIN tags
      /\ IF job.last = NoVersion THEN Others(h) = {} ELSE IsFirst(job.last, Others(h)) /\ Greater(h, job.last)
  BY <1>2 DEF ReleaseInv, JobInOrder
<1>5. \A v \in DOMAIN tags : v \in Versions /\ tags[v] \in Nat
  BY <1>t DEF ReleaseTypeOK
<1>. DEFINE from == IF job.last = NoVersion THEN 0 ELSE tags[job.last]
<1>6. /\ from \in Nat
      /\ releases' = [v \in DOMAIN releases \cup {h} |->
                        IF v = h THEN [at |-> HeadCommit, notes |-> (from + 1)..HeadCommit] ELSE releases[v]]
  BY <1>4, <1>5 DEF CreateRelease, IsFirst, Others
<1>. HIDE DEF from
<1>7. /\ DOMAIN releases' = DOMAIN releases \cup {h}
      /\ \A v \in DOMAIN releases : releases'[v] = releases[v]
      /\ releases'[h].at = HeadCommit /\ releases'[h].notes = (from + 1)..HeadCommit
  BY <1>4, <1>6
<1>8. ReleaseTypeOK'
  <2>1. DOMAIN releases' \subseteq DOMAIN tags'
    BY <1>t, <1>2, <1>4, <1>7 DEF ReleaseTypeOK
  <2>2. /\ \E n \in Nat : DOMAIN history' = 1..n
        /\ \A c \in DOMAIN history' : history'[c] \in Versions
        /\ DOMAIN tags' \subseteq Versions
        /\ \A v \in DOMAIN tags' : tags'[v] \in DOMAIN history' /\ history'[tags'[v]] = v
    BY <1>t, <1>2 DEF ReleaseTypeOK
  <2>3. job'.pc \notin Ended => job'.at \in DOMAIN history'
    BY <1>3
  <2>. QED
    BY <1>3, <2>1, <2>2, <2>3 DEF ReleaseTypeOK
<1>9. TagsHaveFirst'
  BY <1>2 DEF ReleaseInv, TagsHaveFirst, Others
<1>10. JobInOrder'
  BY <1>3 DEF JobInOrder, Ended
<1>11. ASSUME NEW v \in DOMAIN releases, NEW c \in 1..tags[v] PROVE Explained(v, c)
  BY DEF ReleaseInv, CoveredFromBelow, Explained
<1>12. ASSUME NEW c \in 1..tags[h] PROVE Explained(h, c)'
  <2>n. c \in Nat /\ tags[h] \in Nat
    BY <1>4, <1>5
  <2>1. CASE HeadCommit < c
    BY <1>2, <1>7, <2>1 DEF Explained
  <2>2. CASE from < c /\ c <= HeadCommit
    BY <1>1, <1>6, <1>7, <2>n, <2>2 DEF Explained
  <2>3. CASE c <= from
    <3>1. job.last # NoVersion /\ from = tags[job.last]
      BY <2>n, <2>3 DEF from
    <3>2. job.last \in DOMAIN tags /\ job.last # h /\ Greater(h, job.last) /\ c <= tags[job.last]
      BY <1>4, <2>3, <3>1 DEF IsFirst, Others
    <3>. PICK l \in DOMAIN tags : l = job.last
      BY <3>2
    <3>3. CASE l \notin DOMAIN releases
      <4>1. l \in DOMAIN tags' \ DOMAIN releases' /\ c <= tags'[l]
        BY <1>2, <1>7, <3>2, <3>3
      <4>. QED
        BY <3>2, <4>1 DEF Explained
    <3>4. CASE l \in DOMAIN releases
      <4>1. Explained(l, c)
        BY <1>5, <1>11, <2>n, <3>2, <3>4
      <4>2. CASE \E w \in DOMAIN releases : c \in releases[w].notes
        BY <1>7, <4>2 DEF Explained
      <4>3. CASE \E w \in DOMAIN releases : releases[w].at < c /\ c <= tags[w]
        BY <1>2, <1>7, <4>3 DEF Explained
      <4>4. CASE \E u \in DOMAIN tags \ DOMAIN releases : Greater(l, u) /\ c <= tags[u]
        <5>1. PICK u \in DOMAIN tags \ DOMAIN releases : Greater(l, u) /\ c <= tags[u]
          BY <4>4
        <5>2. Greater(h, u) /\ u # h
          BY <1>1, <1>5, <3>2, <5>1, Orders
        <5>3. u \in DOMAIN tags' \ DOMAIN releases' /\ c <= tags'[u]
          BY <1>2, <1>7, <5>1, <5>2
        <5>. QED
          BY <5>2, <5>3 DEF Explained
      <4>. QED
        BY <4>1, <4>2, <4>3, <4>4 DEF Explained
    <3>. QED
      BY <3>3, <3>4
  <2>. QED
    BY <1>1, <1>6, <2>n, <2>1, <2>2, <2>3
<1>13. ASSUME NEW v \in DOMAIN releases, NEW c \in 1..tags[v] PROVE Explained(v, c)'
  <2>n. v \in Versions /\ c \in Nat /\ tags[h] \in Nat /\ tags[v] \in Nat /\ c >= 1
    BY <1>t, <1>4, <1>5 DEF ReleaseTypeOK
  <2>1. CASE \E w \in DOMAIN releases : c \in releases[w].notes
    BY <1>7, <2>1 DEF Explained
  <2>2. CASE \E w \in DOMAIN releases : releases[w].at < c /\ c <= tags[w]
    BY <1>2, <1>7, <2>2 DEF Explained
  <2>3. ASSUME NEW u \in DOMAIN tags \ DOMAIN releases, Greater(v, u), c <= tags[u], u # h
        PROVE  Explained(v, c)'
    <3>1. u \in DOMAIN tags' \ DOMAIN releases' /\ c <= tags'[u]
      BY <1>2, <1>7, <2>3
    <3>. QED
      BY <2>3, <3>1 DEF Explained
  <2>4. CASE Greater(v, h) /\ c <= tags[h]
    <3>1. Explained(h, c)'
      BY <1>12, <2>n, <2>4
    <3>2. ASSUME NEW u \in DOMAIN tags' \ DOMAIN releases', Greater(h, u), c <= tags'[u]
          PROVE  Explained(v, c)'
      <4>1. Greater(v, u)
        BY <1>2, <1>5, <2>n, <2>4, <3>2, Orders
      <4>. QED
        BY <3>2, <4>1 DEF Explained
    <3>. QED
      BY <3>1, <3>2 DEF Explained
  <2>. QED
    BY <1>11, <2>1, <2>2, <2>3, <2>4 DEF Explained
<1>14. CoveredFromBelow'
  <2>1. ASSUME NEW v \in DOMAIN releases', NEW c \in 1..tags'[v] PROVE Explained(v, c)'
    BY <1>2, <1>7, <1>12, <1>13
  <2>. QED
    BY <2>1 DEF CoveredFromBelow, Explained
<1>. QED
  BY <1>8, <1>9, <1>10, <1>14 DEF ReleaseInv

LEMMA ReleaseStep == ReleaseInv /\ [ReleaseNext]_releaseVars => ReleaseInv'
<1>. SUFFICES ASSUME ReleaseInv, [ReleaseNext]_releaseVars PROVE ReleaseInv'
  OBVIOUS
<1>t. ReleaseTypeOK
  BY DEF ReleaseInv
<1>1. CASE Push
  <2>1. /\ \E n \in Nat : DOMAIN history' = 1..n
        /\ DOMAIN history \subseteq DOMAIN history'
        /\ \A c \in DOMAIN history : history'[c] = history[c]
        /\ \A c \in DOMAIN history' : history'[c] \in Versions
        /\ job' \in [pc : ReleasePhases, at : Nat, last : Versions \cup {NoVersion}]
        /\ job'.pc = "check" /\ job'.at \in DOMAIN history'
    BY <1>t, <1>1, HistoryGrows
  <2>2. tags' = tags /\ releases' = releases
    BY <1>1 DEF Push
  <2>3. \A v \in DOMAIN tags' : tags'[v] \in DOMAIN history' /\ history'[tags'[v]] = v
    BY <1>t, <2>1, <2>2 DEF ReleaseTypeOK
  <2>4. ReleaseTypeOK'
    BY <1>t, <2>1, <2>2, <2>3 DEF ReleaseTypeOK
  <2>5. TagsHaveFirst' /\ CoveredFromBelow'
    BY <2>2 DEF ReleaseInv, TagsHaveFirst, CoveredFromBelow, Others
  <2>6. JobInOrder'
    BY <2>1 DEF JobInOrder
  <2>. QED
    BY <2>4, <2>5, <2>6 DEF ReleaseInv
<1>2. CASE Rerun
  <2>1. PICK c \in DOMAIN history : job' = [pc |-> "check", at |-> c, last |-> NoVersion]
    BY <1>2 DEF Rerun
  <2>2. c \in Nat
    BY <1>t DEF ReleaseTypeOK
  <2>3. job' \in [pc : ReleasePhases, at : Nat, last : Versions \cup {NoVersion}]
    BY <2>1, <2>2 DEF ReleasePhases
  <2>4. history' = history /\ tags' = tags /\ releases' = releases
    BY <1>2 DEF Rerun
  <2>5. job'.pc \notin {"tag", "release"} /\ job'.at \in DOMAIN history'
    BY <2>1, <2>4
  <2>. QED
    BY <2>3, <2>4, <2>5, QuietStep
<1>3. CASE Skip \/ JobFails
  <2>1. PICK result \in Ended : End(result)
    BY <1>3 DEF Skip, JobFails, Ended
  <2>2. /\ job' \in [pc : ReleasePhases, at : Nat, last : Versions \cup {NoVersion}]
        /\ job'.pc \in Ended
    BY <1>t, <2>1, EndTyped
  <2>3. history' = history /\ tags' = tags /\ releases' = releases
    BY <1>3 DEF Skip, JobFails
  <2>4. job'.pc \notin {"tag", "release"}
    BY <2>2 DEF Ended
  <2>. QED
    BY <2>2, <2>3, <2>4, QuietStep
<1>4. CASE UNCHANGED releaseVars
  <2>1. history' = history /\ tags' = tags /\ releases' = releases /\ job' = job
    BY <1>4 DEF releaseVars
  <2>. QED
    BY <2>1 DEF ReleaseInv, ReleaseTypeOK, TagsHaveFirst, JobInOrder, CoveredFromBelow, Others,
       HeadVersion, HeadCommit
<1>. QED
  BY <1>1, <1>2, <1>3, <1>4, ProceedStep, PushTagStep, CreateReleaseStep DEF ReleaseNext

LEMMA ReleaseStart == ReleaseInit => ReleaseInv
<1>. SUFFICES ASSUME ReleaseInit PROVE ReleaseInv
  OBVIOUS
<1>1. DOMAIN history = {} /\ DOMAIN tags = {} /\ DOMAIN releases = {}
  BY DEF ReleaseInit
<1>2. job = NoJob /\ "failed" \in Ended /\ {} = 1..0 /\ 0 \in Nat
  BY DEF ReleaseInit, Ended
<1>3. job.pc = "failed" /\ job \in [pc : ReleasePhases, at : Nat, last : Versions \cup {NoVersion}]
  BY <1>2 DEF NoJob, ReleasePhases
<1>4. ReleaseTypeOK
  BY <1>1, <1>2, <1>3 DEF ReleaseTypeOK
<1>. QED
  BY <1>1, <1>3, <1>4 DEF ReleaseInv, TagsHaveFirst, JobInOrder, CoveredFromBelow, Others

\* The notes leave no commit of a released tag out that they are to name, with prereleases or
\* without, however jobs are cancelled and started again.
THEOREM NotesAreComplete == ReleaseSpec => []NotesCoverCommits
<1>1. ReleaseInv => NotesCoverCommits
  BY DEF ReleaseInv, CoveredFromBelow, NotesCoverCommits
<1>. QED
  BY <1>1, ReleaseStart, ReleaseStep, PTL DEF ReleaseSpec

\* In a repository whose versions are no prereleases, no release comes after a greater one.
THEOREM ReleasedInOrder ==
  ASSUME \A v \in Versions : v.rc = 0
  PROVE  ReleaseSpec => ReleasesIncrease
<1>1. ASSUME ReleaseInv, [ReleaseNext]_releaseVars,
             NEW v \in DOMAIN releases' \ DOMAIN releases, NEW w \in DOMAIN releases
      PROVE  Precedes(w, v)
  <2>1. CreateRelease
    BY <1>1 DEF ReleaseNext, releaseVars, Push, Rerun, Skip, Proceed, PushTag, JobFails
  <2>2. PICK h \in Versions : h = HeadVersion
    BY <1>1, <2>1, HeadIsVersion DEF CreateRelease, ReleaseInv
  <2>3. v = h
    BY <2>1, <2>2 DEF CreateRelease
  <2>4. w \in Others(h) /\ w \in Versions
    BY <1>1, <2>3 DEF Others, ReleaseInv, ReleaseTypeOK
  <2>5. JobInOrder /\ job.pc = "release"
    BY <1>1, <2>1 DEF CreateRelease, ReleaseInv
  <2>6. PICK l \in Others(h) : l = job.last /\ IsFirst(l, Others(h)) /\ Greater(h, l)
    BY <2>2, <2>4, <2>5 DEF JobInOrder, IsFirst
  <2>7. l \in Versions
    BY <1>1 DEF Others, ReleaseInv, ReleaseTypeOK
  <2>8. h.num \in Nat /\ l.num \in Nat /\ w.num \in Nat /\ h.rc = 0 /\ l.rc = 0 /\ w.rc = 0
    BY <2>4, <2>7, VersionFields
  <2>9. h.num > l.num
    BY <2>6, <2>8 DEF Greater
  <2>10. w = l \/ SortsAfter(l, w)
    BY <2>4, <2>6 DEF IsFirst
  <2>11. l.num >= w.num
    BY <2>8, <2>10 DEF SortsAfter
  <2>. QED
    BY <2>3, <2>8, <2>9, <2>11 DEF Precedes
<1>2. ReleaseInv /\ [ReleaseNext]_releaseVars =>
        [\A v \in DOMAIN releases' \ DOMAIN releases : \A w \in DOMAIN releases : Precedes(w, v)]_releaseVars
  BY <1>1
<1>. QED
  BY <1>2, ReleaseStart, ReleaseStep, PTL DEF ReleaseSpec, ReleasesIncrease

=============================================================================
