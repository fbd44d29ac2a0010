--------------------------- MODULE PollRunsProofs ---------------------------
(***************************************************************************)
(* One run at a time, final results, truthful statuses, rows that say      *)
(* "running" only while somebody runs, and results that add up with their  *)
(* events, for every number of repos, starters, rows and restarts: proofs  *)
(* about module PollRuns.                                                  *)
(***************************************************************************)
EXTENDS PollRuns, FiniteSetTheorems, TLAPS

-----------------------------------------------------------------------------
(* Type correctness                                                        *)

\* The part of TypeOK that needs a look into the rows.
RunsTyped == runs \in [Runs -> Rows]

\* A run's local variables start typed.
LEMMA NoMemoryTyped == NoMemory \in Memory
BY DEF NoMemory, Memory

\* The write of a result keeps the row a row.
LEMMA ResultTyped ==
  ASSUME NEW row \in Rows, NEW m \in Memory
  PROVE  Result(row, m) \in Rows
<1>1. Verdict(m) \in Statuses
  BY DEF Verdict, RunFinishStatus, Statuses
<1>2. m.checked \in SUBSET Repos /\ m.created \in SUBSET Repos /\ m.superseded \in SUBSET Repos
  BY DEF Memory
<1>3. m.errors \cup (IF m.cut = "no" THEN {} ELSE {NoRepo}) \in SUBSET (Repos \cup {NoRepo})
  BY DEF Memory
<1>. QED
  BY <1>1, <1>2, <1>3 DEF Result, Rows

\* A step of one starter that ends at q with the local variables m.
StarterEffect(s, q, m) ==
  /\ pc' = [pc EXCEPT ![s] = q]
  /\ mem' = [mem EXCEPT ![s] = m]
  /\ UNCHANGED <<proc, stale, stops>>

\* A step of one starter keeps the types if its own values have them.
LEMMA StarterTyped ==
  ASSUME TypeOK, NEW s \in Starters, NEW q \in {"idle", "asked", "insert"} \cup InRun,
         NEW m \in Memory, q \in InRun => m.run # NoRun,
         q \in {"poll", "record"} => m.repo # NoRepo, StarterEffect(s, q, m),
         RunsTyped', running' \in BOOLEAN
  PROVE  TypeOK'
<1>1. mem' \in [Starters -> Memory] /\ pc' \in [Starters -> {"idle", "asked", "insert"} \cup InRun]
  BY DEF StarterEffect, TypeOK
<1>2. \A t \in Starters : /\ pc'[t] \in InRun => mem'[t].run # NoRun
                         /\ pc'[t] \in {"poll", "record"} => mem'[t].repo # NoRepo
  BY DEF StarterEffect, TypeOK
<1>. QED
  BY <1>1, <1>2 DEF StarterEffect, TypeOK, RunsTyped

\* A written row keeps the table a table.
LEMMA RowTyped ==
  ASSUME RunsTyped, NEW r \in Runs, NEW w \in Rows, runs' = [runs EXCEPT ![r] = w]
  PROVE  RunsTyped'
BY DEF RunsTyped

\* A step that leaves a starter's local variables alone.
LEMMA SameMemory ==
  ASSUME TypeOK, NEW s \in Starters, UNCHANGED mem
  PROVE  mem' = [mem EXCEPT ![s] = mem[s]]
BY DEF TypeOK

\* The row of a run exists, and its local variables are typed.
LEMMA OwnRow ==
  ASSUME TypeOK, NEW s \in Starters
  PROVE  /\ mem[s] \in Memory
         /\ pc[s] \in InRun => mem[s].run \in Runs /\ runs[mem[s].run] \in Rows
BY DEF TypeOK, Memory

\* A step of a starter keeps every variable in its type; a run never goes on without a row.
LEMMA StarterStepTyped ==
  ASSUME TypeOK, NEW s \in Starters, Arrive(s) \/ Step(s)
  PROVE  TypeOK'
<1>0. /\ mem[s] \in Memory
      /\ pc[s] \in InRun => mem[s].run \in Runs /\ runs[mem[s].run] \in Rows /\ mem[s].run # NoRun
      /\ pc[s] \in {"poll", "record"} => mem[s].repo \in Repos
  BY OwnRow DEF TypeOK, Memory
<1>a. RunsTyped
  BY DEF TypeOK, RunsTyped
<1>b. ASSUME UNCHANGED mem PROVE mem' = [mem EXCEPT ![s] = mem[s]]
  BY <1>b, SameMemory
<1>c. ASSUME UNCHANGED runs PROVE RunsTyped'
  BY <1>c, <1>a DEF RunsTyped
<1>d. ASSUME NEW q \in {"idle", "asked", "insert"}, NEW m \in Memory, StarterEffect(s, q, m), RunsTyped',
             running' \in BOOLEAN
      PROVE  TypeOK'
  BY <1>d, StarterTyped DEF InRun
<1>e. ASSUME NEW q \in InRun, NEW m \in Memory, m.run # NoRun, q \in {"poll", "record"} => m.repo # NoRepo,
             StarterEffect(s, q, m), RunsTyped', running' \in BOOLEAN
      PROVE  TypeOK'
  BY <1>e, StarterTyped
<1>f. running \in BOOLEAN
  BY DEF TypeOK
<1>g. ASSUME NEW w \in Rows, pc[s] \in InRun, runs' = [runs EXCEPT ![mem[s].run] = w] PROVE RunsTyped'
  BY <1>g, <1>0, <1>a, RowTyped
<1>1. CASE Arrive(s)
  BY <1>1, <1>0, <1>b, <1>c, <1>d, <1>f DEF Arrive, StarterEffect
<1>2. CASE TryStart(s)
  BY <1>2, <1>0, <1>b, <1>c, <1>d, <1>f DEF TryStart, StarterEffect
<1>3. CASE AlreadyRunning(s)
  BY <1>3, <1>0, <1>b, <1>c, <1>d, <1>f DEF AlreadyRunning, StarterEffect
<1>4. ASSUME NEW r \in Runs, InsertRun(s, r) PROVE TypeOK'
  <2> DEFINE m == [mem[s] EXCEPT !.run = r]
  <2>1. m \in Memory /\ m.run # NoRun
    BY <1>0, RunsAssumption DEF Memory
  <2>2. [runs[r] EXCEPT !.status = "running"] \in Rows
    BY <1>a DEF RunsTyped, Rows, Statuses
  <2>3. RunsTyped'
    BY <2>2, <1>4, <1>a, RowTyped DEF InsertRun
  <2>4. StarterEffect(s, "list", m) /\ running' = running
    BY <1>4 DEF InsertRun, StarterEffect
  <2>. QED
    BY <2>1, <2>3, <2>4, <1>e, <1>f DEF InRun
<1>5. CASE InsertFails(s)
  BY <1>5, <1>0, <1>b, <1>c, <1>d DEF InsertFails, StarterEffect
<1>6. CASE ListEnabled(s)
  <2>1. PICK enabled \in SUBSET Repos :
          /\ mem' = [mem EXCEPT ![s].todo = enabled]
          /\ runs' = [runs EXCEPT ![mem[s].run].listed = enabled]
    BY <1>6 DEF ListEnabled
  <2> DEFINE m == [mem[s] EXCEPT !.todo = enabled]
  <2>2. pc[s] \in InRun
    BY <1>6 DEF ListEnabled, InRun
  <2>3. m \in Memory /\ m.run # NoRun
    BY <2>2, <1>0 DEF Memory
  <2>4. [runs[mem[s].run] EXCEPT !.listed = enabled] \in Rows
    BY <2>2, <1>0 DEF Rows
  <2>5. RunsTyped'
    BY <2>1, <2>2, <2>4, <1>g
  <2>6. StarterEffect(s, "loop", m) /\ running' = running
    BY <2>1, <1>6 DEF ListEnabled, StarterEffect
  <2>. QED
    BY <2>3, <2>5, <2>6, <1>e, <1>f DEF InRun
<1>7. CASE ListFails(s)
  <2> DEFINE m == [mem[s] EXCEPT !.cut = "unlisted"]
  <2>1. m \in Memory /\ m.run # NoRun
    BY <1>7, <1>0 DEF ListFails, Memory, InRun
  <2>2. StarterEffect(s, "finish", m) /\ UNCHANGED <<running, runs>>
    BY <1>7 DEF ListFails, StarterEffect
  <2>. QED
    BY <2>1, <2>2, <1>c, <1>e, <1>f DEF InRun
<1>8. ASSUME NEW r \in Repos, NextRepo(s, r) PROVE TypeOK'
  <2> DEFINE m == [mem[s] EXCEPT !.todo = @ \ {r}, !.repo = r, !.checked = @ \cup {r}]
  <2>1. m \in Memory /\ m.run # NoRun /\ m.repo # NoRepo
    BY <1>8, <1>0, RunsAssumption DEF NextRepo, Memory, InRun
  <2>2. mem' = [mem EXCEPT ![s] = m]
    BY <1>8, Zenon DEF NextRepo
  <2>3. StarterEffect(s, "poll", m) /\ UNCHANGED <<running, runs>>
    BY <2>2, <1>8 DEF NextRepo, StarterEffect
  <2>. QED
    BY <2>1, <2>3, <1>c, <1>e, <1>f DEF InRun
<1>9. CASE Interrupted(s)
  <2> DEFINE m == [mem[s] EXCEPT !.cut = "interrupted"]
  <2>1. m \in Memory /\ m.run # NoRun
    BY <1>9, <1>0 DEF Interrupted, Memory, InRun
  <2>2. StarterEffect(s, "finish", m) /\ UNCHANGED <<running, runs>>
    BY <1>9 DEF Interrupted, StarterEffect
  <2>. QED
    BY <2>1, <2>2, <1>c, <1>e, <1>f DEF InRun
<1>10. CASE LoopEnds(s)
  <2>1. StarterEffect(s, "finish", mem[s]) /\ UNCHANGED <<running, runs>> /\ pc[s] \in InRun
    BY <1>10, <1>b DEF LoopEnds, StarterEffect, InRun
  <2>. QED
    BY <2>1, <1>0, <1>c, <1>e, <1>f DEF InRun
<1>11. ASSUME NEW outcome \in Outcomes, PollRepo(s, outcome) PROVE TypeOK'
  <2> DEFINE failed == outcome.failed \/ HasError(outcome.actions)
             repo == mem[s].repo
             m == [mem[s] EXCEPT !.actions = outcome.actions,
                                 !.errors  = IF failed THEN @ \cup {repo} ELSE @]
             w == [runs[mem[s].run] EXCEPT !.made = @ \cup {repo}]
  <2>1. pc[s] \in InRun /\ repo \in Repos
    BY <1>11, <1>0 DEF PollRepo, InRun
  <2>2. outcome.actions \in Seq(Actions)
    <3>1. \/ outcome.actions = <<>>
          \/ outcome.actions = <<"error">>
          \/ outcome.actions = <<"quiet">>
          \/ outcome.actions = <<"create">>
          \/ outcome.actions = <<"supersede", "create">>
          \/ outcome.actions = <<"create", "error">>
      <4>1. CASE outcome \in [actions : {<<"error">>}, failed : BOOLEAN, made : BOOLEAN]
        <5>1. outcome.actions \in {<<"error">>}
          BY <4>1
        <5>. QED
          BY <5>1
      <4>2. CASE outcome \in [actions : {<<>>}, failed : {TRUE}, made : BOOLEAN]
        <5>1. outcome.actions \in {<<>>}
          BY <4>2
        <5>. QED
          BY <5>1
      <4>3. CASE outcome \in
              {[actions |-> <<"quiet">>,               failed |-> FALSE, made |-> FALSE],
               [actions |-> <<"create">>,              failed |-> FALSE, made |-> TRUE],
               [actions |-> <<"supersede", "create">>, failed |-> FALSE, made |-> TRUE],
               [actions |-> <<"create", "error">>,     failed |-> FALSE, made |-> TRUE]}
        BY <4>3
      <4>. QED
        BY <4>1, <4>2, <4>3, Zenon DEF Outcomes
    <3>2. /\ <<>> \in Seq(Actions)  /\ <<"quiet">> \in Seq(Actions)
          /\ <<"create">> \in Seq(Actions) /\ <<"error">> \in Seq(Actions)
          /\ <<"supersede", "create">> \in Seq(Actions) /\ <<"create", "error">> \in Seq(Actions)
      BY DEF Actions
    <3>. QED
      BY <3>1, <3>2
  <2>3. m \in Memory /\ m.run # NoRun /\ m.repo # NoRepo
    BY <2>1, <2>2, <1>0, RunsAssumption DEF Memory
  <2>4. w \in Rows
    BY <2>1, <1>0 DEF Rows
  <2>5. outcome.made => runs' = [runs EXCEPT ![mem[s].run] = w]
    BY <1>11 DEF PollRepo
  <2>6. ~outcome.made => UNCHANGED runs
    BY <1>11 DEF PollRepo
  <2>7. RunsTyped'
    BY <2>1, <2>4, <2>5, <2>6, <1>c, <1>g
  <2>8. mem' = [mem EXCEPT ![s] = m]
    BY <1>11, Zenon DEF PollRepo
  <2>9. StarterEffect(s, "record", m) /\ running' = running
    BY <2>8, <1>11 DEF PollRepo, StarterEffect
  <2>. QED
    BY <2>3, <2>7, <2>9, <1>e, <1>f DEF InRun
<1>12. CASE RecordAction(s)
  <2> DEFINE repo == mem[s].repo
             action == Head(mem[s].actions)
             m == [mem[s] EXCEPT
                     !.actions    = Tail(@),
                     !.created    = IF action = "create" THEN @ \cup {repo} ELSE @,
                     !.superseded = IF action = "supersede" THEN @ \cup {repo} ELSE @]
             w == [runs[mem[s].run] EXCEPT !.events = @ \cup {<<repo, action>>}]
  <2>1. pc[s] \in InRun /\ repo \in Repos
    BY <1>12, <1>0 DEF RecordAction, InRun
  <2>2. mem[s].actions \in Seq(Actions) /\ mem[s].actions # <<>>
    BY <1>12, <1>0 DEF RecordAction, Memory
  <2>3. action \in Actions /\ Tail(mem[s].actions) \in Seq(Actions)
    BY <2>2
  <2>4. m \in Memory /\ m.run # NoRun /\ m.repo # NoRepo
    BY <2>1, <2>3, <1>0, RunsAssumption DEF Memory
  <2>5. w \in Rows
    <3>1. <<repo, action>> \in Repos \X Actions
      BY <2>1, <2>3
    <3>. HIDE DEF repo, action
    <3>. QED
      BY <3>1, <2>1, <1>0 DEF Rows
  <2>6. runs' = [runs EXCEPT ![mem[s].run] = w] \/ UNCHANGED runs
    BY <1>12, Zenon DEF RecordAction
  <2>7. RunsTyped'
    BY <2>1, <2>5, <2>6, <1>c, <1>g
  <2>8. mem' = [mem EXCEPT ![s] = m] /\ UNCHANGED <<running, pc, proc, stale, stops>>
    BY <1>12 DEF RecordAction
  <2>9. pc' = [pc EXCEPT ![s] = "record"]
    BY <2>8, <1>12 DEF RecordAction, TypeOK
  <2>. QED
    BY <2>4, <2>7, <2>8, <2>9, <1>e, <1>f DEF InRun, StarterEffect
<1>13. CASE RepoDone(s)
  <2> DEFINE m == [mem[s] EXCEPT !.repo = NoRepo]
  <2>1. m \in Memory /\ m.run # NoRun
    BY <1>13, <1>0 DEF RepoDone, Memory, InRun
  <2>2. StarterEffect(s, "loop", m) /\ UNCHANGED <<running, runs>>
    BY <1>13 DEF RepoDone, StarterEffect
  <2>. QED
    BY <2>1, <2>2, <1>c, <1>e, <1>f DEF InRun
<1>14. CASE FinishRun(s)
  <2> DEFINE w == Result(runs[mem[s].run], mem[s])
  <2>1. pc[s] \in InRun
    BY <1>14 DEF FinishRun, InRun
  <2>2. w \in Rows
    BY <2>1, <1>0, ResultTyped
  <2>3. runs' = [runs EXCEPT ![mem[s].run] = w]
    BY <1>14 DEF FinishRun
  <2>4. RunsTyped'
    BY <2>1, <2>2, <2>3, <1>g
  <2>5. StarterEffect(s, "release", mem[s]) /\ running' = running
    BY <1>14, <1>b DEF FinishRun, StarterEffect
  <2>. QED
    BY <2>1, <2>4, <2>5, <1>0, <1>e, <1>f DEF InRun
<1>15. CASE FinishFails(s)
  <2> DEFINE w == [runs[mem[s].run] EXCEPT !.lost = TRUE]
  <2>1. pc[s] \in InRun
    BY <1>15 DEF FinishFails, InRun
  <2>2. w \in Rows
    BY <2>1, <1>0 DEF Rows
  <2>3. runs' = [runs EXCEPT ![mem[s].run] = w]
    BY <1>15 DEF FinishFails
  <2>4. RunsTyped'
    BY <2>1, <2>2, <2>3, <1>g
  <2>5. StarterEffect(s, "release", mem[s]) /\ running' = running
    BY <1>15, <1>b DEF FinishFails, StarterEffect
  <2>. QED
    BY <2>1, <2>4, <2>5, <1>0, <1>e, <1>f DEF InRun
<1>16. CASE Release(s)
  <2>1. StarterEffect(s, "idle", NoMemory) /\ running' = FALSE /\ UNCHANGED runs
    BY <1>16 DEF Release, StarterEffect
  <2>. QED
    BY <2>1, NoMemoryTyped, <1>c, <1>d
<1>. QED
  BY <1>1, <1>2, <1>3, <1>4, <1>5, <1>6, <1>7, <1>8, <1>9, <1>10, <1>11, <1>12, <1>13, <1>14, <1>15, <1>16
     DEF Step

\* A run that is reconciled has a row of its type, failed, with the run's own error.
LEMMA ReconciledRow ==
  ASSUME TypeOK, NEW r \in Runs
  PROVE  LET w == [runs[r] EXCEPT !.status = "failed", !.errors = {NoRepo}]
         IN  w \in Rows /\ w.status = "failed" /\ w.errors = {NoRepo}
<1>1. runs[r] \in Rows
  BY DEF TypeOK
<1>2. PICK v : v = [runs[r] EXCEPT !.status = "failed"]
  OBVIOUS
<1>3. v \in Rows /\ v.status = "failed"
  BY <1>1, <1>2 DEF Rows, Statuses
<1>4. PICK w : w = [v EXCEPT !.errors = {NoRepo}]
  OBVIOUS
<1>5. w \in Rows /\ w.status = "failed" /\ w.errors = {NoRepo}
  BY <1>3, <1>4 DEF Rows
<1>6. w = [runs[r] EXCEPT !.status = "failed", !.errors = {NoRepo}]
  BY <1>2, <1>4
<1>. QED
  BY <1>5, <1>6

\* A step of the process keeps every variable in its type.
LEMMA ProcessTyped == TypeOK /\ Process => TypeOK'
<1>. SUFFICES ASSUME TypeOK, Process PROVE TypeOK'
  OBVIOUS
<1>1. CASE Boot
  BY <1>1 DEF Boot, TypeOK
<1>2. CASE ListStale
  BY <1>2 DEF ListStale, TypeOK
<1>3. ASSUME NEW r \in Runs, ReconcileRun(r) PROVE TypeOK'
  <2> DEFINE w == [runs[r] EXCEPT !.status = "failed", !.errors = {NoRepo}]
  <2>1. w \in Rows
    BY ReconciledRow
  <2>2. runs' = [runs EXCEPT ![r] = w] /\ stale' = stale \ {r}
        /\ UNCHANGED <<proc, running, pc, mem, stops>>
    BY <1>3 DEF ReconcileRun
  <2>. QED
    BY <2>1, <2>2 DEF TypeOK
<1>4. CASE ReconcileFails
  BY <1>4 DEF ReconcileFails, TypeOK
<1>5. CASE StartScheduler
  BY <1>5 DEF StartScheduler, TypeOK
<1>6. CASE Stop
  BY <1>6, StopsAssumption DEF Stop, TypeOK
<1>7. CASE Drained
  BY <1>7 DEF Drained, TypeOK
<1>8. CASE RunsAreDone
  BY <1>8 DEF RunsAreDone, TypeOK
<1>9. ASSUME Forget, stops' \in 0..MaxStops PROVE TypeOK'
  BY <1>9, NoMemoryTyped DEF Forget, TypeOK, InRun
<1>10. CASE Exit
  BY <1>9, <1>10 DEF Exit, TypeOK
<1>11. CASE Crash
  <2>1. stops' \in 0..MaxStops
    BY <1>11, StopsAssumption DEF Crash, TypeOK
  <2>. QED
    BY <1>9, <1>11, <2>1 DEF Crash
<1>. QED
  BY <1>1, <1>2, <1>3, <1>4, <1>5, <1>6, <1>7, <1>8, <1>10, <1>11 DEF Process

\* Every step keeps every variable in its type.
LEMMA TypeStep == TypeOK /\ [Next]_vars => TypeOK'
<1>1. ASSUME TypeOK, UNCHANGED vars PROVE TypeOK'
  BY <1>1 DEF TypeOK, vars
<1>. QED
  BY <1>1, StarterStepTyped, ProcessTyped DEF Next

\* Every variable starts in its type.
LEMMA InitTyped == Init => TypeOK
<1>1. NewRow \in Rows
  BY DEF NewRow, Rows, Statuses
<1>2. 0 \in 0..MaxStops
  BY StopsAssumption
<1>. QED
  BY <1>1, <1>2, NoMemoryTyped DEF Init, TypeOK, InRun

\* Every variable keeps to its type, and a run never goes on without a row.
THEOREM RunsTyping == Spec => []TypeOK
BY InitTyped, TypeStep, PTL DEF Spec

-----------------------------------------------------------------------------
(* One run at a time                                                       *)

\* The flag is held by the one starter that is between tryStart and finish.
FlagHeld == \A s \in Starters : Active(s) => running

\* tryStart takes the flag only when it is free, and everybody who frees it held it.
LEMMA FlagStep ==
  ASSUME TypeOK, FlagHeld, OneRunAtATime, [Next]_vars
  PROVE  FlagHeld' /\ OneRunAtATime'
<1>. USE DEF Active, InRun
<1>1. ASSUME NEW s \in Starters, Arrive(s) \/ Step(s) PROVE FlagHeld' /\ OneRunAtATime'
  <2>1. CASE Arrive(s)
    BY <2>1 DEF Arrive, FlagHeld, OneRunAtATime, TypeOK
  <2>2. CASE TryStart(s)
    BY <2>2 DEF TryStart, FlagHeld, OneRunAtATime, TypeOK
  <2>3. CASE AlreadyRunning(s)
    BY <2>3 DEF AlreadyRunning, FlagHeld, OneRunAtATime, TypeOK
  <2>4. CASE InsertFails(s) \/ Release(s)
    BY <2>4 DEF InsertFails, Release, FlagHeld, OneRunAtATime, TypeOK
  <2>5. ASSUME NEW q \in InRun, Active(s), pc' = [pc EXCEPT ![s] = q], running' = running
        PROVE  FlagHeld' /\ OneRunAtATime'
    BY <2>5 DEF FlagHeld, OneRunAtATime, TypeOK
  <2>6. ASSUME UNCHANGED <<pc, running>> PROVE FlagHeld' /\ OneRunAtATime'
    BY <2>6 DEF FlagHeld, OneRunAtATime
  <2>7. CASE (\E r \in Runs : InsertRun(s, r)) \/ ListEnabled(s) \/ ListFails(s)
             \/ (\E r \in Repos : NextRepo(s, r)) \/ Interrupted(s) \/ LoopEnds(s)
    BY <2>7, <2>5 DEF InsertRun, ListEnabled, ListFails, NextRepo, Interrupted, LoopEnds
  <2>8. CASE (\E outcome \in Outcomes : PollRepo(s, outcome)) \/ RepoDone(s)
             \/ FinishRun(s) \/ FinishFails(s)
    BY <2>8, <2>5 DEF PollRepo, RepoDone, FinishRun, FinishFails
  <2>9. CASE RecordAction(s)
    BY <2>9, <2>6 DEF RecordAction
  <2>. QED
    BY <1>1, <2>1, <2>2, <2>3, <2>4, <2>7, <2>8, <2>9 DEF Step
<1>2. ASSUME Process PROVE FlagHeld' /\ OneRunAtATime'
  <2>1. UNCHANGED <<pc, running>> \/ \A s \in Starters : pc'[s] = "idle"
    BY <1>2 DEF Process, Boot, ListStale, ReconcileRun, ReconcileFails, StartScheduler, Stop,
                Drained, RunsAreDone, Exit, Crash, Forget
  <2>. QED
    BY <2>1 DEF FlagHeld, OneRunAtATime
<1>. QED
  BY <1>1, <1>2 DEF Next, vars, FlagHeld, OneRunAtATime

\* At most one starter is between tryStart and finish, so at most one run polls.
THEOREM OneRun == Spec => []OneRunAtATime
<1>1. Init => FlagHeld /\ OneRunAtATime
  BY DEF Init, FlagHeld, OneRunAtATime, Active, InRun
<1>. QED
  BY <1>1, RunsTyping, FlagStep, PTL DEF Spec

-----------------------------------------------------------------------------
(* Final results and truthful statuses                                     *)

\* What the local variables m of a starter at p say of the row of its run.
Loop == {"loop", "poll", "record"}

LocalTo(p, m, row) ==
  /\ p \in {"idle", "asked", "insert", "list"} => m.checked = {} /\ m.errors = {} /\ m.cut = "no"
  /\ p \in InRun \ {"release"} => row.status = "running"
  /\ p \in Loop => m.cut = "no"
  /\ p \in {"poll", "record"} => m.repo \in m.checked
  /\ p \in Loop \cup {"finish"} =>
       /\ m.errors \subseteq m.checked
       /\ m.cut # "unlisted" => m.checked \cup m.todo = row.listed
  /\ p = "finish" /\ m.cut = "no" => m.todo = {}

Local == \A s \in Starters : LocalTo(pc[s], mem[s], runs[mem[s].run])

\* Nobody is asked to start a run before the rows of the last process are finished, and
\* only rows that a dead process left running are waiting for that.
Quiet ==
  /\ proc \in {"down", "booting", "reconciling"} => \A s \in Starters : pc[s] = "idle"
  /\ proc # "reconciling" => stale = {}
  /\ \A r \in stale : runs[r].status = "running"

RunsInv ==
  /\ TypeOK
  /\ FlagHeld
  /\ OneRunAtATime
  /\ Quiet
  /\ Local
  /\ StatusTellsTheTruth

\* The counts that RunFinishStatus compares tell how the sets lie to each other.
LEMMA CountsTell ==
  ASSUME NEW checked \in SUBSET Repos, NEW errors \in SUBSET checked
  PROVE  /\ Cardinality(checked) \in Nat /\ Cardinality(errors) \in Nat
         /\ Cardinality(checked) = 0 <=> checked = {}
         /\ Cardinality(errors) = 0 <=> errors = {}
         /\ Cardinality(errors) >= Cardinality(checked) <=> errors = checked
<1>1. IsFiniteSet(checked) /\ IsFiniteSet(errors)
  BY FS_Subset, RunsAssumption
<1>2. /\ Cardinality(checked) \in Nat /\ Cardinality(errors) \in Nat
      /\ Cardinality(checked) = 0 <=> checked = {}
      /\ Cardinality(errors) = 0 <=> errors = {}
  BY <1>1, FS_EmptySet, FS_CardinalityType
<1>3. Cardinality(errors) <= Cardinality(checked)
      /\ (Cardinality(errors) = Cardinality(checked) => errors = checked)
  BY <1>1, FS_Subset
<1>. QED
  BY <1>2, <1>3

\* The verdict of a run that knows what it polled is true of the row it is written to.
LEMMA VerdictTrue ==
  ASSUME NEW row \in Rows, NEW m \in Memory, LocalTo("finish", m, row)
  PROVE  TrueStatus(Result(row, m))
<1> DEFINE w == Result(row, m)
<1>1. /\ w.status = Verdict(m) /\ w.checked = m.checked /\ w.listed = row.listed
      /\ w.errors = m.errors \cup IF m.cut = "no" THEN {} ELSE {NoRepo}
  BY DEF Result, Rows
<1>2. m.checked \in SUBSET Repos /\ m.errors \in SUBSET m.checked
  BY DEF LocalTo, Memory, InRun
<1>3. m.cut \in {"no", "interrupted", "unlisted"}
  BY DEF Memory
<1>4. CASE m.cut # "no"
  <2>1. NoRepo \in w.errors
    BY <1>1, <1>4
  <2>2. Verdict(m) # "success"
    BY <1>3, <1>4 DEF Verdict
  <2>. QED
    BY <1>1, <2>1, <2>2 DEF TrueStatus
<1>5. CASE m.cut = "no"
  <2>1. w.errors = m.errors /\ w.checked = w.listed
    BY <1>1, <1>5 DEF LocalTo, InRun
  <2>2. Verdict(m) = RunFinishStatus(Cardinality(m.checked), Cardinality(m.errors))
    BY <1>5 DEF Verdict
  <2>3. /\ Verdict(m) = "success" => m.checked = {} \/ m.errors = {}
        /\ Verdict(m) = "partial" => m.errors # {} /\ m.errors # m.checked
        /\ Verdict(m) = "failed" => m.errors = m.checked
    BY <2>2, <1>2, CountsTell DEF RunFinishStatus
  <2>. QED
    BY <1>1, <1>2, <2>1, <2>3 DEF TrueStatus
<1>. QED
  BY <1>4, <1>5

\* What a step may do to the rows: write one that is not finished, with a true status.
RowWritten(r, w) ==
  /\ runs' = [runs EXCEPT ![r] = w]
  /\ runs[r].status \notin Finished
  /\ TrueStatus(w)

RowsStep == UNCHANGED runs \/ \E r \in Runs, w \in Rows : RowWritten(r, w)

\* A starter that is not in a run, or gets there without a write, disturbs nobody.
LEMMA StepWithoutWrite ==
  ASSUME TypeOK, Local, NEW s \in Starters, NEW q, NEW m, StarterEffect(s, q, m),
         UNCHANGED runs, LocalTo(q, m, runs[m.run])
  PROVE  Local' /\ RowsStep
<1>1. ASSUME NEW t \in Starters PROVE LocalTo(pc[t], mem[t], runs[mem[t].run])'
  <2>1. CASE t = s
    <3>1. pc'[t] = q /\ mem'[t] = m
      BY <2>1 DEF StarterEffect, TypeOK
    <3>. QED
      BY <3>1 DEF LocalTo
  <2>2. CASE t # s
    <3>1. pc'[t] = pc[t] /\ mem'[t] = mem[t]
      BY <2>2 DEF StarterEffect, TypeOK
    <3>. QED
      BY <3>1 DEF Local, LocalTo
  <2>. QED
    BY <2>1, <2>2
<1>. QED
  BY <1>1 DEF Local, RowsStep

\* The run that is active may write its own row: nobody else looks at a row.
LEMMA StepWithWrite ==
  ASSUME TypeOK, Local, OneRunAtATime, NEW s \in Starters, Active(s),
         NEW q, NEW m, StarterEffect(s, q, m),
         NEW r \in Runs, m.run = r, NEW w \in Rows, RowWritten(r, w), LocalTo(q, m, w)
  PROVE  Local' /\ RowsStep
<1>1. ASSUME NEW t \in Starters PROVE LocalTo(pc[t], mem[t], runs[mem[t].run])'
  <2>1. CASE t = s
    <3>1. pc'[t] = q /\ mem'[t] = m /\ runs'[r] = w
      BY <2>1 DEF StarterEffect, RowWritten, TypeOK
    <3>. QED
      BY <3>1 DEF LocalTo
  <2>2. CASE t # s
    <3>1. pc'[t] = pc[t] /\ mem'[t] = mem[t]
      BY <2>2 DEF StarterEffect, TypeOK
    <3>2. pc[t] \in {"idle", "asked"}
      BY <2>2 DEF OneRunAtATime, Active, TypeOK
    <3>3. LocalTo(pc[t], mem[t], runs[mem[t].run])
      BY DEF Local
    <3>. QED
      BY <3>1, <3>2, <3>3 DEF LocalTo, InRun, Loop
  <2>. QED
    BY <2>1, <2>2
<1>. QED
  BY <1>1 DEF Local, RowsStep

\* Each step of a starter keeps what its local variables say of its row.
LEMMA StarterStep ==
  ASSUME TypeOK, Local, OneRunAtATime, NEW s \in Starters, Arrive(s) \/ Step(s)
  PROVE  Local' /\ RowsStep
<1> DEFINE own == runs[mem[s].run]
<1>0. /\ mem[s] \in Memory
      /\ pc[s] \in InRun => mem[s].run \in Runs /\ own \in Rows
      /\ pc[s] \in {"poll", "record"} => mem[s].repo \in Repos
  BY OwnRow DEF TypeOK, Memory
<1>a. LocalTo(pc[s], mem[s], own)
  BY DEF Local
<1>b. ASSUME UNCHANGED mem PROVE mem' = [mem EXCEPT ![s] = mem[s]]
  BY <1>b, SameMemory
<1>. USE DEF InRun, Loop
<1>1. CASE Arrive(s)
  <2>1. StarterEffect(s, "asked", mem[s]) /\ UNCHANGED runs
    BY <1>1, <1>b DEF Arrive, StarterEffect
  <2>2. LocalTo("asked", mem[s], own)
    BY <1>1, <1>a DEF Arrive, LocalTo
  <2>. QED
    BY <2>1, <2>2, StepWithoutWrite
<1>2. CASE TryStart(s)
  <2>1. StarterEffect(s, "insert", mem[s]) /\ UNCHANGED runs
    BY <1>2, <1>b DEF TryStart, StarterEffect
  <2>2. LocalTo("insert", mem[s], own)
    BY <1>2, <1>a DEF TryStart, LocalTo
  <2>. QED
    BY <2>1, <2>2, StepWithoutWrite
<1>3. CASE AlreadyRunning(s) \/ InsertFails(s)
  <2>1. StarterEffect(s, "idle", mem[s]) /\ UNCHANGED runs
    BY <1>3, <1>b DEF AlreadyRunning, InsertFails, StarterEffect
  <2>2. LocalTo("idle", mem[s], own)
    BY <1>3, <1>a DEF AlreadyRunning, InsertFails, LocalTo
  <2>. QED
    BY <2>1, <2>2, StepWithoutWrite
<1>4. ASSUME NEW r \in Runs, InsertRun(s, r) PROVE Local' /\ RowsStep
  <2> DEFINE m == [mem[s] EXCEPT !.run = r]
             w == [runs[r] EXCEPT !.status = "running"]
  <2>1. w \in Rows /\ w.status = "running"
    BY DEF TypeOK, Rows, Statuses
  <2>2. RowWritten(r, w)
    BY <2>1, <1>4 DEF InsertRun, RowWritten, Finished, TrueStatus
  <2>3. StarterEffect(s, "list", m)
    BY <1>4 DEF InsertRun, StarterEffect
  <2>4. m.run = r /\ m.checked = mem[s].checked /\ m.errors = mem[s].errors /\ m.cut = mem[s].cut
    BY <1>0 DEF Memory
  <2>5. LocalTo("list", m, w)
    BY <1>4, <1>a, <2>1, <2>4 DEF InsertRun, LocalTo
  <2>6. Active(s)
    BY <1>4 DEF InsertRun, Active
  <2>. QED
    BY <2>1, <2>2, <2>3, <2>4, <2>5, <2>6, StepWithWrite
<1>5. CASE ListEnabled(s)
  <2>1. PICK enabled \in SUBSET Repos :
          /\ mem' = [mem EXCEPT ![s].todo = enabled]
          /\ runs' = [runs EXCEPT ![mem[s].run].listed = enabled]
    BY <1>5 DEF ListEnabled
  <2> DEFINE m == [mem[s] EXCEPT !.todo = enabled]
             w == [own EXCEPT !.listed = enabled]
  <2>2. pc[s] = "list" /\ Active(s)
    BY <1>5 DEF ListEnabled, Active
  <2>3. w \in Rows /\ w.status = own.status /\ w.listed = enabled
    BY <2>2, <1>0 DEF Rows
  <2>4. own.status = "running"
    BY <2>2, <1>a DEF LocalTo
  <2>5. RowWritten(mem[s].run, w)
    BY <2>1, <2>3, <2>4 DEF RowWritten, Finished, TrueStatus
  <2>6. StarterEffect(s, "loop", m)
    BY <2>1, <1>5 DEF ListEnabled, StarterEffect
  <2>7. /\ m.run = mem[s].run /\ m.checked = mem[s].checked /\ m.errors = mem[s].errors
        /\ m.cut = mem[s].cut /\ m.todo = enabled
    BY <1>0 DEF Memory
  <2>8. LocalTo("loop", m, w)
    BY <2>2, <1>a, <2>3, <2>4, <2>7 DEF LocalTo
  <2>. QED
    BY <2>2, <2>3, <2>5, <2>6, <2>7, <2>8, <1>0, StepWithWrite
<1>6. CASE ListFails(s)
  <2> DEFINE m == [mem[s] EXCEPT !.cut = "unlisted"]
  <2>1. StarterEffect(s, "finish", m) /\ UNCHANGED runs /\ pc[s] = "list"
    BY <1>6 DEF ListFails, StarterEffect
  <2>2. /\ m.run = mem[s].run /\ m.checked = mem[s].checked /\ m.errors = mem[s].errors
        /\ m.cut = "unlisted"
    BY <1>0 DEF Memory
  <2>3. LocalTo("finish", m, own)
    BY <2>1, <2>2, <1>a DEF LocalTo
  <2>. QED
    BY <2>1, <2>2, <2>3, StepWithoutWrite
<1>7. ASSUME NEW r \in Repos, NextRepo(s, r) PROVE Local' /\ RowsStep
  <2> DEFINE m == [mem[s] EXCEPT !.todo = @ \ {r}, !.repo = r, !.checked = @ \cup {r}]
  <2>1. mem' = [mem EXCEPT ![s] = m]
    BY <1>7, Zenon DEF NextRepo
  <2>2. StarterEffect(s, "poll", m) /\ UNCHANGED runs /\ pc[s] = "loop" /\ r \in mem[s].todo
    BY <2>1, <1>7 DEF NextRepo, StarterEffect
  <2>3. /\ m.run = mem[s].run /\ m.checked = mem[s].checked \cup {r} /\ m.errors = mem[s].errors
        /\ m.cut = mem[s].cut /\ m.todo = mem[s].todo \ {r} /\ m.repo = r
    BY <1>0 DEF Memory
  <2>4. m.checked \cup m.todo = mem[s].checked \cup mem[s].todo
    BY <2>2, <2>3
  <2>5. LocalTo("poll", m, own)
    BY <2>2, <2>3, <2>4, <1>a DEF LocalTo
  <2>. QED
    BY <2>2, <2>3, <2>5, StepWithoutWrite
<1>8. CASE Interrupted(s)
  <2> DEFINE m == [mem[s] EXCEPT !.cut = "interrupted"]
  <2>1. StarterEffect(s, "finish", m) /\ UNCHANGED runs /\ pc[s] = "loop"
    BY <1>8 DEF Interrupted, StarterEffect
  <2>2. /\ m.run = mem[s].run /\ m.checked = mem[s].checked /\ m.errors = mem[s].errors
        /\ m.todo = mem[s].todo /\ m.cut = "interrupted"
    BY <1>0 DEF Memory
  <2>3. LocalTo("finish", m, own)
    BY <2>1, <2>2, <1>a DEF LocalTo
  <2>. QED
    BY <2>1, <2>2, <2>3, StepWithoutWrite
<1>9. CASE LoopEnds(s)
  <2>1. StarterEffect(s, "finish", mem[s]) /\ UNCHANGED runs
    BY <1>9, <1>b DEF LoopEnds, StarterEffect
  <2>2. LocalTo("finish", mem[s], own)
    BY <1>9, <1>a DEF LoopEnds, LocalTo
  <2>. QED
    BY <2>1, <2>2, StepWithoutWrite
<1>10. ASSUME NEW outcome \in Outcomes, PollRepo(s, outcome) PROVE Local' /\ RowsStep
  <2> DEFINE failed == outcome.failed \/ HasError(outcome.actions)
             repo == mem[s].repo
             m == [mem[s] EXCEPT !.actions = outcome.actions,
                                 !.errors  = IF failed THEN @ \cup {repo} ELSE @]
             w == [own EXCEPT !.made = @ \cup {repo}]
  <2>1. mem' = [mem EXCEPT ![s] = m]
    BY <1>10, Zenon DEF PollRepo
  <2>2. StarterEffect(s, "record", m) /\ pc[s] = "poll" /\ Active(s) /\ repo \in Repos
    BY <2>1, <1>10, <1>0 DEF PollRepo, StarterEffect, Active
  <2>3. /\ m.run = mem[s].run /\ m.checked = mem[s].checked /\ m.repo = repo
        /\ m.errors = IF failed THEN mem[s].errors \cup {repo} ELSE mem[s].errors
        /\ m.cut = mem[s].cut /\ m.todo = mem[s].todo
    BY <1>0 DEF Memory
  <2>4. ASSUME NEW row, row.status = own.status, row.listed = own.listed
        PROVE  LocalTo("record", m, row)
    BY <2>2, <2>3, <2>4, <1>a DEF LocalTo
  <2>5. CASE outcome.made
    <3>1. w \in Rows /\ w.status = own.status /\ w.listed = own.listed
      BY <2>2, <1>0 DEF Rows
    <3>2. own.status = "running"
      BY <2>2, <1>a DEF LocalTo
    <3>3. runs' = [runs EXCEPT ![mem[s].run] = w]
      BY <2>5, <1>10 DEF PollRepo
    <3>4. RowWritten(mem[s].run, w)
      BY <3>1, <3>2, <3>3 DEF RowWritten, Finished, TrueStatus
    <3>. QED
      BY <2>2, <2>3, <2>4, <3>1, <3>4, <1>0, StepWithWrite
  <2>6. CASE ~outcome.made
    <3>1. UNCHANGED runs
      BY <2>6, <1>10 DEF PollRepo
    <3>. QED
      BY <2>2, <2>3, <2>4, <3>1, StepWithoutWrite
  <2>. QED
    BY <2>5, <2>6
<1>11. CASE RecordAction(s)
  <2> DEFINE repo == mem[s].repo
             action == Head(mem[s].actions)
             m == [mem[s] EXCEPT
                     !.actions    = Tail(@),
                     !.created    = IF action = "create" THEN @ \cup {repo} ELSE @,
                     !.superseded = IF action = "supersede" THEN @ \cup {repo} ELSE @]
             w == [own EXCEPT !.events = @ \cup {<<repo, action>>}]
  <2>1. mem' = [mem EXCEPT ![s] = m] /\ UNCHANGED <<pc, proc, stale, stops>> /\ pc[s] = "record"
    BY <1>11 DEF RecordAction
  <2>2. pc' = [pc EXCEPT ![s] = "record"]
    BY <2>1 DEF TypeOK
  <2>3. StarterEffect(s, "record", m) /\ Active(s)
    BY <2>1, <2>2 DEF StarterEffect, Active
  <2>4. /\ m.run = mem[s].run /\ m.checked = mem[s].checked /\ m.repo = repo
        /\ m.errors = mem[s].errors /\ m.cut = mem[s].cut /\ m.todo = mem[s].todo
    BY <1>0 DEF Memory
  <2>5. ASSUME NEW row, row.status = own.status, row.listed = own.listed
        PROVE  LocalTo("record", m, row)
    BY <2>1, <2>4, <2>5, <1>a DEF LocalTo
  <2>6. runs' = [runs EXCEPT ![mem[s].run] = w] \/ UNCHANGED runs
    BY <1>11, Zenon DEF RecordAction
  <2>7. CASE runs' = [runs EXCEPT ![mem[s].run] = w]
    <3>1. action \in Actions
      BY <1>11, <1>0 DEF RecordAction, Memory
    <3>2. <<repo, action>> \in Repos \X Actions
      BY <3>1, <2>1, <1>0
    <3>. HIDE DEF repo, action
    <3>3. w \in Rows /\ w.status = own.status /\ w.listed = own.listed
      BY <3>2, <2>1, <1>0 DEF Rows
    <3>4. own.status = "running"
      BY <2>1, <1>a DEF LocalTo
    <3>5. RowWritten(mem[s].run, w)
      BY <3>3, <3>4, <2>7 DEF RowWritten, Finished, TrueStatus
    <3>. QED
      BY <2>1, <2>3, <2>4, <2>5, <3>3, <3>5, <1>0, StepWithWrite
  <2>8. CASE UNCHANGED runs
    BY <2>3, <2>4, <2>5, <2>8, StepWithoutWrite
  <2>. QED
    BY <2>6, <2>7, <2>8
<1>12. CASE RepoDone(s)
  <2> DEFINE m == [mem[s] EXCEPT !.repo = NoRepo]
  <2>1. StarterEffect(s, "loop", m) /\ UNCHANGED runs /\ pc[s] = "record"
    BY <1>12 DEF RepoDone, StarterEffect
  <2>2. /\ m.run = mem[s].run /\ m.checked = mem[s].checked /\ m.errors = mem[s].errors
        /\ m.todo = mem[s].todo /\ m.cut = mem[s].cut
    BY <1>0 DEF Memory
  <2>3. LocalTo("loop", m, own)
    BY <2>1, <2>2, <1>a DEF LocalTo
  <2>. QED
    BY <2>1, <2>2, <2>3, StepWithoutWrite
<1>13. CASE FinishRun(s)
  <2> DEFINE w == Result(own, mem[s])
  <2>1. StarterEffect(s, "release", mem[s]) /\ pc[s] = "finish" /\ Active(s)
    BY <1>13, <1>b DEF FinishRun, StarterEffect, Active
  <2>2. own.status = "running"
    BY <2>1, <1>a DEF LocalTo
  <2>3. w \in Rows /\ TrueStatus(w)
    BY <2>1, <1>0, <1>a, ResultTyped, VerdictTrue
  <2>4. RowWritten(mem[s].run, w)
    BY <2>2, <2>3, <1>13 DEF FinishRun, RowWritten, Finished
  <2>5. LocalTo("release", mem[s], w)
    BY DEF LocalTo
  <2>. QED
    BY <2>1, <2>3, <2>4, <2>5, <1>0, StepWithWrite
<1>14. CASE FinishFails(s)
  <2> DEFINE w == [own EXCEPT !.lost = TRUE]
  <2>1. StarterEffect(s, "release", mem[s]) /\ pc[s] = "finish" /\ Active(s)
    BY <1>14, <1>b DEF FinishFails, StarterEffect, Active
  <2>2. own.status = "running"
    BY <2>1, <1>a DEF LocalTo
  <2>3. w \in Rows /\ w.status = own.status
    BY <2>1, <1>0 DEF Rows
  <2>4. RowWritten(mem[s].run, w)
    BY <2>2, <2>3, <1>14 DEF FinishFails, RowWritten, Finished, TrueStatus
  <2>5. LocalTo("release", mem[s], w)
    BY DEF LocalTo
  <2>. QED
    BY <2>1, <2>3, <2>4, <2>5, <1>0, StepWithWrite
<1>15. CASE Release(s)
  <2>1. StarterEffect(s, "idle", NoMemory) /\ UNCHANGED runs
    BY <1>15 DEF Release, StarterEffect
  <2>2. LocalTo("idle", NoMemory, runs[NoMemory.run])
    BY DEF LocalTo, NoMemory
  <2>. QED
    BY <2>1, <2>2, StepWithoutWrite
<1>. QED
  BY <1>1, <1>2, <1>3, <1>4, <1>5, <1>6, <1>7, <1>8, <1>9, <1>10, <1>11, <1>12, <1>13, <1>14, <1>15
     DEF Step

\* No starter moves before the rows of the last process are finished.
LEMMA StarterQuiet ==
  ASSUME TypeOK, Quiet, NEW s \in Starters, Arrive(s) \/ Step(s)
  PROVE  Quiet'
<1>1. pc[s] # "idle" \/ proc \in {"up", "draining"}
  BY Zenon
     DEF Arrive, Firing, Step, TryStart, AlreadyRunning, InsertRun, InsertFails, ListEnabled, ListFails,
         NextRepo, Interrupted, LoopEnds, PollRepo, RecordAction, RepoDone, FinishRun, FinishFails,
         Release
<1>2. UNCHANGED <<proc, stale>>
  BY DEF Arrive, Step, TryStart, AlreadyRunning, InsertRun, InsertFails, ListEnabled, ListFails,
         NextRepo, Interrupted, LoopEnds, PollRepo, RecordAction, RepoDone, FinishRun, FinishFails,
         Release
<1>3. proc \notin {"down", "booting", "reconciling"} /\ stale = {}
  BY <1>1 DEF Quiet
<1>. QED
  BY <1>2, <1>3 DEF Quiet

\* The process finishes only rows whose run is dead, before it lets anybody start one.
LEMMA ProcessStep ==
  ASSUME TypeOK, Quiet, Local, Process
  PROVE  Quiet' /\ Local' /\ RowsStep
<1>1. ASSUME UNCHANGED <<pc, mem, runs>> PROVE Local' /\ RowsStep
  BY <1>1 DEF Local, RowsStep
<1>2. CASE Boot \/ StartScheduler \/ Stop \/ Drained \/ RunsAreDone \/ ReconcileFails
  <2>1. Quiet'
    BY <1>2 DEF Boot, StartScheduler, Stop, Drained, RunsAreDone, ReconcileFails, Quiet
  <2>2. UNCHANGED <<pc, mem, runs>>
    BY <1>2 DEF Boot, StartScheduler, Stop, Drained, RunsAreDone, ReconcileFails
  <2>. QED
    BY <1>1, <2>1, <2>2
<1>3. CASE ListStale
  <2>1. Quiet'
    BY <1>3 DEF ListStale, Quiet
  <2>. QED
    BY <1>1, <1>3, <2>1 DEF ListStale
<1>4. ASSUME NEW r \in Runs, ReconcileRun(r) PROVE Quiet' /\ Local' /\ RowsStep
  <2> DEFINE w == [runs[r] EXCEPT !.status = "failed", !.errors = {NoRepo}]
  <2>1. runs' = [runs EXCEPT ![r] = w] /\ UNCHANGED <<pc, mem, proc>> /\ stale' = stale \ {r}
        /\ r \in stale /\ proc = "reconciling"
    BY <1>4 DEF ReconcileRun
  <2>2. runs[r].status = "running" /\ \A s \in Starters : pc[s] = "idle"
    BY <2>1 DEF Quiet
  <2>3. w \in Rows /\ w.status = "failed" /\ w.errors = {NoRepo}
    BY ReconciledRow
  <2>4. RowsStep
    BY <2>1, <2>2, <2>3 DEF RowsStep, RowWritten, Finished, TrueStatus
  <2>5. Local'
    BY <2>1, <2>2 DEF Local, LocalTo, InRun, Loop
  <2>6. \A t \in Runs \ {r} : runs'[t] = runs[t]
    BY <2>1 DEF TypeOK
  <2>7. Quiet'
    BY <2>1, <2>2, <2>6 DEF Quiet, TypeOK
  <2>. QED
    BY <2>4, <2>5, <2>7
<1>5. CASE Exit \/ Crash
  <2>1. Forget
    BY <1>5 DEF Exit, Crash
  <2>2. Local'
    BY <2>1 DEF Forget, Local, LocalTo, NoMemory, InRun, Loop
  <2>3. Quiet'
    BY <2>1 DEF Forget, Quiet
  <2>. QED
    BY <2>1, <2>2, <2>3 DEF Forget, RowsStep
<1>. QED
  BY <1>2, <1>3, <1>4, <1>5 DEF Process

\* The invariant holds at the start.
LEMMA RunsInvInit == Init => RunsInv
<1>1. ASSUME Init PROVE TypeOK
  BY <1>1, InitTyped
<1>2. ASSUME Init PROVE FlagHeld /\ OneRunAtATime
  BY <1>2 DEF Init, FlagHeld, OneRunAtATime, Active, InRun
<1>3. ASSUME Init PROVE Quiet /\ Local
  BY <1>3 DEF Init, Quiet, Local, LocalTo, NoMemory, InRun, Loop
<1>4. ASSUME Init PROVE StatusTellsTheTruth
  BY <1>4 DEF Init, StatusTellsTheTruth, TrueStatus, NewRow
<1>. QED
  BY <1>1, <1>2, <1>3, <1>4 DEF RunsInv

\* It survives each step, and a step writes at most one row, which was not finished.
LEMMA RunsInvStep == RunsInv /\ [Next]_vars => RunsInv' /\ RowsStep
<1>. SUFFICES ASSUME RunsInv, [Next]_vars PROVE RunsInv' /\ RowsStep
  OBVIOUS
<1>1. TypeOK /\ FlagHeld /\ OneRunAtATime /\ Quiet /\ Local /\ StatusTellsTheTruth
  BY DEF RunsInv
<1>2. TypeOK' /\ FlagHeld' /\ OneRunAtATime'
  BY <1>1, TypeStep, FlagStep
<1>3. Quiet' /\ Local' /\ RowsStep
  <2>1. CASE UNCHANGED vars
    BY <2>1, <1>1 DEF vars, Quiet, Local, RowsStep
  <2>2. CASE Process
    BY <2>2, <1>1, ProcessStep
  <2>3. ASSUME NEW s \in Starters, Arrive(s) \/ Step(s) PROVE Quiet' /\ Local' /\ RowsStep
    BY <2>3, <1>1, StarterStep, StarterQuiet
  <2>. QED
    BY <2>1, <2>2, <2>3 DEF Next
<1>4. StatusTellsTheTruth'
  <2>1. CASE UNCHANGED runs
    BY <2>1, <1>1 DEF StatusTellsTheTruth
  <2>2. ASSUME NEW r \in Runs, NEW w \in Rows, RowWritten(r, w) PROVE StatusTellsTheTruth'
    BY <2>2, <1>1 DEF RowWritten, StatusTellsTheTruth, TypeOK
  <2>. QED
    BY <1>3, <2>1, <2>2 DEF RowsStep
<1>. QED
  BY <1>2, <1>3, <1>4 DEF RunsInv

\* Whatever each repo's poll returns and wherever a run is cut short or reconciled, the
\* status of its row is true.
THEOREM Truth == Spec => []StatusTellsTheTruth
<1>1. RunsInv => StatusTellsTheTruth
  BY DEF RunsInv
<1>. QED
  BY <1>1, RunsInvInit, RunsInvStep, PTL DEF Spec

\* No step of any starter or of the process writes a finished row again.
THEOREM Final == Spec => FinishedStays
<1>1. RowsStep /\ TypeOK => \A r \in Runs : runs[r].status \in Finished => runs'[r] = runs[r]
  BY DEF RowsStep, RowWritten, TypeOK
<1>2. RunsInv /\ [Next]_vars
      => [\A r \in Runs : runs[r].status \in Finished => runs'[r] = runs[r]]_vars
  BY <1>1, RunsInvStep DEF RunsInv
<1>. QED
  BY <1>2, RunsInvInit, RunsInvStep, PTL DEF Spec, FinishedStays

-----------------------------------------------------------------------------
(* A row that says "running" has a run behind it                           *)

\* Where a run still has its result to write.
Behind == InRun \ {"release"}

HasRun(r) == runs[r].lost \/ \E s \in Starters : pc[s] \in Behind /\ mem[s].run = r

\* Only a run knows a row; while the process reconciles, the rows that say "running" are
\* the ones it still has to finish, and afterwards each of them has a run.
Explained ==
  /\ \A s \in Starters : pc[s] \notin InRun => mem[s].run = NoRun
  /\ proc = "reconciling" => \A r \in Runs : runs[r].status = "running" => r \in stale
  /\ proc \in {"up", "draining", "waiting", "closing"} =>
       \A r \in Runs : runs[r].status = "running" => HasRun(r)

\* A starter that is in no run with a result to write, and starts none.
LEMMA OutsideKeepsExplained ==
  ASSUME TypeOK, Quiet, Explained, NEW s \in Starters, NEW q \in {"idle", "asked", "insert"}, NEW m,
         pc[s] \notin Behind, StarterEffect(s, q, m), m.run = NoRun, UNCHANGED runs
  PROVE  Explained'
BY DEF Explained, HasRun, StarterEffect, TypeOK, InRun, Behind

\* A run that goes on, and writes at most its own row.
LEMMA RunKeepsExplained ==
  ASSUME TypeOK, Quiet, Explained, NEW s \in Starters, NEW q \in InRun, NEW m, StarterEffect(s, q, m),
         NEW r \in Runs, m.run = r, pc[s] = "insert" \/ (pc[s] \in Behind /\ mem[s].run = r),
         UNCHANGED runs \/ \E w \in Rows : runs' = [runs EXCEPT ![r] = w],
         q = "release" => runs'[r].status # "running" \/ runs'[r].lost
  PROVE  Explained'
<1>1. pc'[s] = q /\ mem'[s] = m
  BY DEF StarterEffect, TypeOK
<1>2. ASSUME NEW t \in Starters, t # s PROVE pc'[t] = pc[t] /\ mem'[t] = mem[t]
  BY <1>2 DEF StarterEffect, TypeOK
<1>3. ASSUME NEW v \in Runs, v # r PROVE runs'[v] = runs[v]
  BY <1>3 DEF TypeOK
<1>4. proc \notin {"down", "booting", "reconciling"} /\ proc' = proc
  BY DEF Quiet, StarterEffect, Behind, InRun
<1>5. ASSUME NEW v \in Runs, runs'[v].status = "running" PROVE HasRun(v)'
  <2>1. CASE v = r
    BY <1>1, <1>5, <2>1 DEF HasRun, Behind
  <2>2. CASE v # r
    <3>1. HasRun(v)
      BY <1>3, <1>4, <1>5, <2>2 DEF Explained, TypeOK
    <3>2. CASE runs[v].lost
      BY <1>3, <2>2, <3>2 DEF HasRun
    <3>3. ASSUME NEW t \in Starters, pc[t] \in Behind, mem[t].run = v PROVE HasRun(v)'
      <4>1. t # s
        BY <2>2, <3>3 DEF Behind, InRun
      <4>. QED
        BY <1>2, <3>3, <4>1 DEF HasRun
    <3>. QED
      BY <3>1, <3>2, <3>3 DEF HasRun
  <2>. QED
    BY <2>1, <2>2
<1>6. \A t \in Starters : pc'[t] \notin InRun => mem'[t].run = NoRun
  BY <1>1, <1>2 DEF Explained
<1>. QED
  BY <1>4, <1>5, <1>6 DEF Explained

LEMMA StarterKeepsExplained ==
  ASSUME TypeOK, Quiet, Explained, NEW s \in Starters, Arrive(s) \/ Step(s)
  PROVE  Explained'
<1> DEFINE own == runs[mem[s].run]
<1>0. /\ mem[s] \in Memory
      /\ pc[s] \in InRun => mem[s].run \in Runs /\ own \in Rows
      /\ pc[s] \in {"poll", "record"} => mem[s].repo \in Repos
      /\ pc[s] \notin InRun => mem[s].run = NoRun
  BY OwnRow DEF TypeOK, Memory, Explained
<1>b. ASSUME UNCHANGED mem PROVE mem' = [mem EXCEPT ![s] = mem[s]]
  BY <1>b, SameMemory
<1>c. ASSUME NEW q \in InRun, NEW m, StarterEffect(s, q, m), m.run = mem[s].run, pc[s] \in Behind,
             UNCHANGED runs \/ (\E w \in Rows : runs' = [runs EXCEPT ![mem[s].run] = w]), q # "release"
      PROVE  Explained'
  BY <1>c, <1>0, RunKeepsExplained DEF Behind
<1>1. CASE Arrive(s) \/ TryStart(s) \/ AlreadyRunning(s) \/ InsertFails(s)
  <2>1. /\ pc[s] \in {"idle", "asked", "insert"} /\ UNCHANGED runs
        /\ \E q \in {"idle", "asked", "insert"} : StarterEffect(s, q, mem[s])
    BY <1>1, <1>b DEF Arrive, TryStart, AlreadyRunning, InsertFails, StarterEffect
  <2>. QED
    BY <2>1, <1>0, OutsideKeepsExplained DEF InRun, Behind
<1>2. ASSUME NEW r \in Runs, InsertRun(s, r) PROVE Explained'
  <2> DEFINE m == [mem[s] EXCEPT !.run = r]
             w == [runs[r] EXCEPT !.status = "running"]
  <2>1. StarterEffect(s, "list", m) /\ pc[s] = "insert" /\ runs' = [runs EXCEPT ![r] = w]
    BY <1>2 DEF InsertRun, StarterEffect
  <2>2. m.run = r
    BY <1>0 DEF Memory
  <2>3. w \in Rows
    BY DEF TypeOK, Rows, Statuses
  <2>. HIDE DEF m, w
  <2>. QED
    BY <2>1, <2>2, <2>3, RunKeepsExplained DEF InRun
<1>3. CASE ListEnabled(s)
  <2>1. PICK enabled \in SUBSET Repos :
          /\ mem' = [mem EXCEPT ![s].todo = enabled]
          /\ runs' = [runs EXCEPT ![mem[s].run].listed = enabled]
    BY <1>3 DEF ListEnabled
  <2> DEFINE m == [mem[s] EXCEPT !.todo = enabled]
             w == [own EXCEPT !.listed = enabled]
  <2>2. StarterEffect(s, "loop", m) /\ pc[s] = "list" /\ runs' = [runs EXCEPT ![mem[s].run] = w]
    BY <2>1, <1>3 DEF ListEnabled, StarterEffect
  <2>3. m.run = mem[s].run
    BY <1>0 DEF Memory
  <2>4. w \in Rows
    BY <2>2, <1>0 DEF Rows, InRun
  <2>. HIDE DEF m, w
  <2>. QED
    BY <2>2, <2>3, <2>4, <1>c DEF InRun, Behind
<1>4. CASE ListFails(s)
  <2> DEFINE m == [mem[s] EXCEPT !.cut = "unlisted"]
  <2>1. StarterEffect(s, "finish", m) /\ UNCHANGED runs /\ pc[s] = "list"
    BY <1>4 DEF ListFails, StarterEffect
  <2>2. m.run = mem[s].run
    BY <1>0 DEF Memory
  <2>. HIDE DEF m
  <2>. QED
    BY <2>1, <2>2, <1>c DEF InRun, Behind
<1>5. ASSUME NEW r \in Repos, NextRepo(s, r) PROVE Explained'
  <2> DEFINE m == [mem[s] EXCEPT !.todo = @ \ {r}, !.repo = r, !.checked = @ \cup {r}]
  <2>1. StarterEffect(s, "poll", m) /\ UNCHANGED runs /\ pc[s] = "loop"
    BY <1>5, Zenon DEF NextRepo, StarterEffect
  <2>2. m.run = mem[s].run
    BY <1>0 DEF Memory
  <2>. HIDE DEF m
  <2>. QED
    BY <2>1, <2>2, <1>c DEF InRun, Behind
<1>6. CASE Interrupted(s)
  <2> DEFINE m == [mem[s] EXCEPT !.cut = "interrupted"]
  <2>1. StarterEffect(s, "finish", m) /\ UNCHANGED runs /\ pc[s] = "loop"
    BY <1>6 DEF Interrupted, StarterEffect
  <2>2. m.run = mem[s].run
    BY <1>0 DEF Memory
  <2>. HIDE DEF m
  <2>. QED
    BY <2>1, <2>2, <1>c DEF InRun, Behind
<1>7. CASE LoopEnds(s)
  <2>1. StarterEffect(s, "finish", mem[s]) /\ UNCHANGED runs /\ pc[s] = "loop"
    BY <1>7, <1>b DEF LoopEnds, StarterEffect
  <2>. QED
    BY <2>1, <1>c DEF InRun, Behind
<1>8. ASSUME NEW outcome \in Outcomes, PollRepo(s, outcome) PROVE Explained'
  <2> DEFINE failed == outcome.failed \/ HasError(outcome.actions)
             repo == mem[s].repo
             m == [mem[s] EXCEPT !.actions = outcome.actions,
                                 !.errors  = IF failed THEN @ \cup {repo} ELSE @]
             w == [own EXCEPT !.made = @ \cup {repo}]
  <2>1. mem' = [mem EXCEPT ![s] = m]
    BY <1>8, Zenon DEF PollRepo
  <2>2. StarterEffect(s, "record", m) /\ pc[s] = "poll" /\ repo \in Repos
    BY <2>1, <1>8, <1>0 DEF PollRepo, StarterEffect
  <2>3. m.run = mem[s].run
    BY <1>0 DEF Memory
  <2>4. w \in Rows
    BY <2>2, <1>0 DEF Rows, InRun
  <2>5. runs' = [runs EXCEPT ![mem[s].run] = w] \/ UNCHANGED runs
    BY <1>8 DEF PollRepo
  <2>. HIDE DEF m, w
  <2>. QED
    BY <2>2, <2>3, <2>4, <2>5, <1>c DEF InRun, Behind
<1>9. CASE RecordAction(s)
  <2> DEFINE repo == mem[s].repo
             action == Head(mem[s].actions)
             m == [mem[s] EXCEPT
                     !.actions    = Tail(@),
                     !.created    = IF action = "create" THEN @ \cup {repo} ELSE @,
                     !.superseded = IF action = "supersede" THEN @ \cup {repo} ELSE @]
             w == [own EXCEPT !.events = @ \cup {<<repo, action>>}]
  <2>1. mem' = [mem EXCEPT ![s] = m] /\ UNCHANGED <<pc, proc, stale, stops>> /\ pc[s] = "record"
    BY <1>9 DEF RecordAction
  <2>2. StarterEffect(s, "record", m) /\ repo \in Repos
    BY <2>1, <1>0 DEF StarterEffect, TypeOK
  <2>3. m.run = mem[s].run
    BY <1>0 DEF Memory
  <2>4. w \in Rows
    <3>1. action \in Actions
      BY <1>9, <1>0 DEF RecordAction, Memory
    <3>2. <<repo, action>> \in Repos \X Actions
      BY <3>1, <2>2
    <3>. HIDE DEF repo, action
    <3>. QED
      BY <3>2, <2>1, <1>0 DEF Rows, InRun
  <2>5. runs' = [runs EXCEPT ![mem[s].run] = w] \/ UNCHANGED runs
    BY <1>9, Zenon DEF RecordAction
  <2>. HIDE DEF m, w
  <2>. QED
    BY <2>1, <2>2, <2>3, <2>4, <2>5, <1>c DEF InRun, Behind
<1>10. CASE RepoDone(s)
  <2> DEFINE m == [mem[s] EXCEPT !.repo = NoRepo]
  <2>1. StarterEffect(s, "loop", m) /\ UNCHANGED runs /\ pc[s] = "record"
    BY <1>10 DEF RepoDone, StarterEffect
  <2>2. m.run = mem[s].run
    BY <1>0 DEF Memory
  <2>. HIDE DEF m
  <2>. QED
    BY <2>1, <2>2, <1>c DEF InRun, Behind
<1>11. CASE FinishRun(s)
  <2> DEFINE w == Result(own, mem[s])
  <2>1. StarterEffect(s, "release", mem[s]) /\ pc[s] = "finish" /\ runs' = [runs EXCEPT ![mem[s].run] = w]
    BY <1>11, <1>b DEF FinishRun, StarterEffect
  <2>2. w \in Rows
    BY <2>1, <1>0, ResultTyped DEF InRun
  <2>3. w.status # "running"
    BY <2>1, <1>0 DEF Result, Verdict, RunFinishStatus, Rows, InRun
  <2>4. runs'[mem[s].run] = w /\ mem[s].run \in Runs
    BY <2>1, <1>0 DEF TypeOK, InRun
  <2>. HIDE DEF w
  <2>. QED
    BY <2>1, <2>2, <2>3, <2>4, RunKeepsExplained DEF InRun, Behind
<1>12. CASE FinishFails(s)
  <2> DEFINE w == [own EXCEPT !.lost = TRUE]
  <2>1. StarterEffect(s, "release", mem[s]) /\ pc[s] = "finish" /\ runs' = [runs EXCEPT ![mem[s].run] = w]
    BY <1>12, <1>b DEF FinishFails, StarterEffect
  <2>2. w \in Rows /\ w.lost
    BY <2>1, <1>0 DEF Rows, InRun
  <2>3. runs'[mem[s].run] = w /\ mem[s].run \in Runs
    BY <2>1, <1>0 DEF TypeOK, InRun
  <2>. HIDE DEF w
  <2>4. /\ UNCHANGED runs \/ \E x \in Rows : runs' = [runs EXCEPT ![mem[s].run] = x]
        /\ runs'[mem[s].run].status # "running" \/ runs'[mem[s].run].lost
    BY <2>1, <2>2, <2>3
  <2>. QED
    BY <2>1, <2>3, <2>4, RunKeepsExplained DEF InRun, Behind
<1>13. CASE Release(s)
  <2>1. StarterEffect(s, "idle", NoMemory) /\ UNCHANGED runs /\ pc[s] = "release"
    BY <1>13 DEF Release, StarterEffect
  <2>. QED
    BY <2>1, OutsideKeepsExplained DEF NoMemory, Behind
<1>. QED
  BY <1>1, <1>2, <1>3, <1>4, <1>5, <1>6, <1>7, <1>8, <1>9, <1>10, <1>11, <1>12, <1>13 DEF Step

\* The process serves only after it has finished every row of the last one.
LEMMA ProcessKeepsExplained == TypeOK /\ Quiet /\ Explained /\ Process => Explained'
<1>. SUFFICES ASSUME TypeOK, Quiet, Explained, Process PROVE Explained'
  OBVIOUS
<1>1. CASE Boot \/ ListStale \/ ReconcileFails \/ Stop \/ Drained \/ RunsAreDone
  BY <1>1 DEF Boot, ListStale, ReconcileFails, Stop, Drained, RunsAreDone, Explained, HasRun
<1>2. ASSUME NEW r \in Runs, ReconcileRun(r) PROVE Explained'
  <2> DEFINE w == [runs[r] EXCEPT !.status = "failed", !.errors = {NoRepo}]
  <2>1. /\ runs' = [runs EXCEPT ![r] = w] /\ UNCHANGED <<proc, pc, mem>> /\ stale' = stale \ {r}
        /\ proc = "reconciling"
    BY <1>2 DEF ReconcileRun
  <2>2. w.status = "failed"
    BY DEF TypeOK, Rows
  <2>3. runs'[r] = w /\ \A v \in Runs \ {r} : runs'[v] = runs[v]
    BY <2>1 DEF TypeOK
  <2>. QED
    BY <2>1, <2>2, <2>3 DEF Explained
<1>3. CASE StartScheduler
  BY <1>3 DEF StartScheduler, Explained
<1>4. CASE Exit \/ Crash
  BY <1>4 DEF Exit, Crash, Forget, Explained, NoMemory
<1>. QED
  BY <1>1, <1>2, <1>3, <1>4 DEF Process

LEMMA ExplainedStep == RunsInv /\ Explained /\ [Next]_vars => Explained'
<1>1. ASSUME Explained, UNCHANGED vars PROVE Explained'
  BY <1>1 DEF Explained, HasRun, vars
<1>. QED
  BY <1>1, StarterKeepsExplained, ProcessKeepsExplained DEF Next, RunsInv

LEMMA ExplainedKept == Spec => [](RunsInv /\ Explained)
<1>1. Init => Explained
  BY DEF Init, Explained, NoMemory
<1>. QED
  BY <1>1, RunsInvInit, RunsInvStep, ExplainedStep, PTL DEF Spec

\* While the process serves, a row that says "running" has a live run behind it, unless
\* the write of its result failed: for every number of restarts in the middle of runs.
THEOREM RunningExplained == Spec => []RunningRowsExplained
<1>1. Explained => RunningRowsExplained
  BY DEF Explained, HasRun, RunningRowsExplained
<1>. QED
  BY <1>1, ExplainedKept, PTL

\* When Shutdown returns in time, no row is left without a result, except for failed
\* writes.
THEOREM ShutdownIsClean == Spec => CleanStop
<1>1. ASSUME RunsInv, Explained, [Next]_vars, proc = "waiting", proc' = "closing",
             NEW r \in Runs, runs[r].status = "running"
      PROVE  runs[r].lost
  <2>1. RunsAreDone
    <3>1. ASSUME NEW s \in Starters, Arrive(s) \/ Step(s) PROVE proc' = proc
      BY <3>1 DEF Arrive, Step, TryStart, AlreadyRunning, InsertRun, InsertFails, ListEnabled, ListFails,
         NextRepo, Interrupted, LoopEnds, PollRepo, RecordAction, RepoDone, FinishRun, FinishFails,
         Release
    <3>2. Process
      BY <1>1, <3>1 DEF Next, vars
    <3>. QED
      BY <1>1, <3>2 DEF Process, Boot, ListStale, ReconcileRun, ReconcileFails, StartScheduler, Stop,
         Drained, Exit, Crash, Forget
  <2>2. HasRun(r)
    BY <1>1 DEF Explained
  <2>3. \A s \in Starters : pc[s] \notin Behind
    BY <2>1 DEF RunsAreDone, Active, Starters, Behind, InRun
  <2>. QED
    BY <2>2, <2>3 DEF HasRun
<1>2. RunsInv /\ Explained /\ [Next]_vars =>
        [proc = "waiting" /\ proc' = "closing" =>
           \A r \in Runs : runs[r].status = "running" => runs[r].lost]_vars
  BY <1>1
<1>. QED
  BY <1>2, ExplainedKept, PTL DEF Spec, CleanStop

-----------------------------------------------------------------------------
(* The result of a run adds up with its events                             *)

EventsOf(row, action) == {repo \in Repos : <<repo, action>> \in row.events}

\* The events of a row are counted in m, and what m counts as created was made.
Counted(row, m) ==
  /\ EventsOf(row, "error") \subseteq m.errors
  /\ EventsOf(row, "create") \subseteq m.created
  /\ EventsOf(row, "supersede") \subseteq m.superseded
  /\ m.created \subseteq row.made

\* The local variables m of a starter at p count the events of its row, and what is left
\* to record of a repo is something that happened to it.
SumOf(p, m, row) ==
  /\ p \in {"idle", "asked", "insert", "list"} => m.created = {} /\ m.superseded = {}
  /\ p \in Behind => Counted(row, m)
  /\ p = "record" => \A i \in DOMAIN m.actions :
       /\ m.actions[i] = "error" => m.repo \in m.errors
       /\ m.actions[i] = "create" => m.repo \in row.made

\* A row has no events before its run and no counts before its result.
RowSum(row) ==
  /\ row.status = "unused" => row.events = {}
  /\ row.status \notin Finished => row.checked = {}
  /\ row.status \in Finished /\ row.checked # {} => Counted(row, row)

SumInv ==
  /\ \A s \in Starters : SumOf(pc[s], mem[s], runs[mem[s].run])
  /\ \A r \in Runs : RowSum(runs[r])

\* The run that is active may write its own row.
LEMMA SumWithWrite ==
  ASSUME TypeOK, SumInv, OneRunAtATime, NEW s \in Starters, Active(s),
         NEW q, NEW m, StarterEffect(s, q, m), NEW r \in Runs, m.run = r,
         NEW w \in Rows, runs' = [runs EXCEPT ![r] = w], SumOf(q, m, w), RowSum(w)
  PROVE  SumInv'
<1>1. ASSUME NEW t \in Starters PROVE SumOf(pc[t], mem[t], runs[mem[t].run])'
  <2>1. CASE t = s
    <3>1. pc'[t] = q /\ mem'[t] = m /\ runs'[r] = w
      BY <2>1 DEF StarterEffect, TypeOK
    <3>. QED
      BY <3>1 DEF SumOf, Counted, EventsOf
  <2>2. CASE t # s
    <3>1. pc'[t] = pc[t] /\ mem'[t] = mem[t]
      BY <2>2 DEF StarterEffect, TypeOK
    <3>2. pc[t] \in {"idle", "asked"}
      BY <2>2 DEF OneRunAtATime, Active, TypeOK
    <3>3. SumOf(pc[t], mem[t], runs[mem[t].run])
      BY DEF SumInv
    <3>. QED
      BY <3>1, <3>2, <3>3 DEF SumOf, Behind, InRun
  <2>. QED
    BY <2>1, <2>2
<1>2. \A v \in Runs : RowSum(runs'[v])
  BY DEF SumInv, TypeOK
<1>. QED
  BY <1>1, <1>2 DEF SumInv, RowSum, Counted, EventsOf

\* A step without a write needs to look at its own variables only.
LEMMA SumWithoutWrite ==
  ASSUME TypeOK, SumInv, NEW s \in Starters, NEW q, NEW m, StarterEffect(s, q, m),
         UNCHANGED runs, SumOf(q, m, runs[m.run])
  PROVE  SumInv'
<1>1. ASSUME NEW t \in Starters PROVE SumOf(pc[t], mem[t], runs[mem[t].run])'
  <2>1. CASE t = s
    <3>1. pc'[t] = q /\ mem'[t] = m
      BY <2>1 DEF StarterEffect, TypeOK
    <3>. QED
      BY <3>1 DEF SumOf, Counted, EventsOf
  <2>2. CASE t # s
    <3>1. pc'[t] = pc[t] /\ mem'[t] = mem[t]
      BY <2>2 DEF StarterEffect, TypeOK
    <3>. QED
      BY <3>1 DEF SumInv, SumOf, Counted, EventsOf
  <2>. QED
    BY <2>1, <2>2
<1>. QED
  BY <1>1 DEF SumInv, RowSum, Counted, EventsOf

\* What the poll of a repo reports as created was made.
LEMMA CreatedWasMade ==
  ASSUME NEW outcome \in Outcomes, NEW i \in DOMAIN outcome.actions, outcome.actions[i] = "create"
  PROVE  outcome.made
<1>1. CASE outcome \in [actions : {<<"error">>}, failed : BOOLEAN, made : BOOLEAN]
  <2>1. outcome.actions = <<"error">>
    BY <1>1
  <2>. QED
    BY <2>1
<1>2. CASE outcome \in [actions : {<<>>}, failed : {TRUE}, made : BOOLEAN]
  <2>1. outcome.actions = <<>>
    BY <1>2
  <2>. QED
    BY <2>1
<1>3. CASE outcome \in
              {[actions |-> <<"quiet">>,               failed |-> FALSE, made |-> FALSE],
               [actions |-> <<"create">>,              failed |-> FALSE, made |-> TRUE],
               [actions |-> <<"supersede", "create">>, failed |-> FALSE, made |-> TRUE],
               [actions |-> <<"create", "error">>,     failed |-> FALSE, made |-> TRUE]}
  <2>1. outcome.made \/ outcome.actions = <<"quiet">>
    BY <1>3
  <2>2. outcome.actions # <<"quiet">>
    OBVIOUS
  <2>. QED
    BY <2>1, <2>2
<1>. QED
  BY <1>1, <1>2, <1>3, Zenon DEF Outcomes

LEMMA StarterKeepsSum ==
  ASSUME TypeOK, Local, SumInv, OneRunAtATime, NEW s \in Starters, Arrive(s) \/ Step(s)
  PROVE  SumInv'
<1> DEFINE own == runs[mem[s].run]
<1>0. /\ mem[s] \in Memory
      /\ pc[s] \in InRun => mem[s].run \in Runs /\ own \in Rows
      /\ pc[s] \in {"poll", "record"} => mem[s].repo \in Repos
  BY OwnRow DEF TypeOK, Memory
<1>a. SumOf(pc[s], mem[s], own) /\ LocalTo(pc[s], mem[s], own)
  BY DEF SumInv, Local
<1>b. ASSUME UNCHANGED mem PROVE mem' = [mem EXCEPT ![s] = mem[s]]
  BY <1>b, SameMemory
<1>c. pc[s] \in Behind => Counted(own, mem[s]) /\ own.status = "running" /\ RowSum(own)
  BY <1>0, <1>a DEF SumOf, LocalTo, Behind, SumInv
<1>d. pc[s] \in Behind => Active(s) /\ pc[s] \in InRun
  BY DEF Active, Behind
<1>. USE DEF InRun, Behind
<1>1. CASE Arrive(s) \/ TryStart(s) \/ AlreadyRunning(s) \/ InsertFails(s)
  <2>1. /\ pc[s] \in {"idle", "asked", "insert"} /\ UNCHANGED runs
        /\ \E q \in {"idle", "asked", "insert"} : StarterEffect(s, q, mem[s])
    BY <1>1, <1>b DEF Arrive, TryStart, AlreadyRunning, InsertFails, StarterEffect
  <2>2. \A q \in {"idle", "asked", "insert"} : SumOf(q, mem[s], own)
    BY <2>1, <1>a DEF SumOf
  <2>. QED
    BY <2>1, <2>2, SumWithoutWrite
<1>2. ASSUME NEW r \in Runs, InsertRun(s, r) PROVE SumInv'
  <2> DEFINE m == [mem[s] EXCEPT !.run = r]
             w == [runs[r] EXCEPT !.status = "running"]
  <2>1. /\ StarterEffect(s, "list", m) /\ pc[s] = "insert" /\ runs' = [runs EXCEPT ![r] = w]
        /\ runs[r].status = "unused"
    BY <1>2 DEF InsertRun, StarterEffect
  <2>2. m.run = r /\ m.created = {} /\ m.superseded = {}
    BY <2>1, <1>0, <1>a DEF Memory, SumOf
  <2>3. w \in Rows /\ w.status = "running" /\ w.events = {} /\ w.checked = {}
    <3>1. runs[r] \in Rows
      BY DEF TypeOK
    <3>2. w \in Rows /\ w.status = "running" /\ w.events = runs[r].events
          /\ w.checked = runs[r].checked
      BY <3>1 DEF Rows, Statuses
    <3>3. runs[r].events = {} /\ runs[r].checked = {}
      BY <2>1 DEF SumInv, RowSum, Finished
    <3>. QED
      BY <3>2, <3>3
  <2>4. Active(s)
    BY <2>1 DEF Active
  <2>. HIDE DEF m, w
  <2>5. SumOf("list", m, w) /\ RowSum(w)
    BY <2>2, <2>3 DEF SumOf, RowSum, Counted, EventsOf, Finished
  <2>. QED
    BY <2>1, <2>2, <2>3, <2>4, <2>5, SumWithWrite
<1>3. CASE ListEnabled(s)
  <2>1. PICK enabled \in SUBSET Repos :
          /\ mem' = [mem EXCEPT ![s].todo = enabled]
          /\ runs' = [runs EXCEPT ![mem[s].run].listed = enabled]
    BY <1>3 DEF ListEnabled
  <2> DEFINE m == [mem[s] EXCEPT !.todo = enabled]
             w == [own EXCEPT !.listed = enabled]
  <2>2. StarterEffect(s, "loop", m) /\ pc[s] = "list" /\ runs' = [runs EXCEPT ![mem[s].run] = w]
    BY <2>1, <1>3 DEF ListEnabled, StarterEffect
  <2>3. /\ m.run = mem[s].run /\ m.created = mem[s].created /\ m.superseded = mem[s].superseded
        /\ m.errors = mem[s].errors
    BY <1>0 DEF Memory
  <2>4. /\ w \in Rows /\ w.status = own.status /\ w.events = own.events /\ w.made = own.made
        /\ w.checked = own.checked
    BY <2>2, <1>0 DEF Rows
  <2>. HIDE DEF m, w
  <2>5. SumOf("loop", m, w) /\ RowSum(w)
    BY <2>2, <2>3, <2>4, <1>c DEF SumOf, RowSum, Counted, EventsOf, Finished
  <2>. QED
    BY <2>2, <2>3, <2>4, <2>5, <1>0, <1>d, SumWithWrite
<1>4. CASE ListFails(s)
  <2> DEFINE m == [mem[s] EXCEPT !.cut = "unlisted"]
  <2>1. StarterEffect(s, "finish", m) /\ UNCHANGED runs /\ pc[s] = "list"
    BY <1>4 DEF ListFails, StarterEffect
  <2>2. /\ m.run = mem[s].run /\ m.created = mem[s].created /\ m.superseded = mem[s].superseded
        /\ m.errors = mem[s].errors
    BY <1>0 DEF Memory
  <2>. HIDE DEF m
  <2>3. SumOf("finish", m, own)
    BY <2>1, <2>2, <1>c DEF SumOf, Counted
  <2>. QED
    BY <2>1, <2>2, <2>3, SumWithoutWrite
<1>5. ASSUME NEW r \in Repos, NextRepo(s, r) PROVE SumInv'
  <2> DEFINE m == [mem[s] EXCEPT !.todo = @ \ {r}, !.repo = r, !.checked = @ \cup {r}]
  <2>1. StarterEffect(s, "poll", m) /\ UNCHANGED runs /\ pc[s] = "loop"
    BY <1>5, Zenon DEF NextRepo, StarterEffect
  <2>2. /\ m.run = mem[s].run /\ m.created = mem[s].created /\ m.superseded = mem[s].superseded
        /\ m.errors = mem[s].errors
    BY <1>0 DEF Memory
  <2>. HIDE DEF m
  <2>3. SumOf("poll", m, own)
    BY <2>1, <2>2, <1>c DEF SumOf, Counted
  <2>. QED
    BY <2>1, <2>2, <2>3, SumWithoutWrite
<1>6. CASE Interrupted(s)
  <2> DEFINE m == [mem[s] EXCEPT !.cut = "interrupted"]
  <2>1. StarterEffect(s, "finish", m) /\ UNCHANGED runs /\ pc[s] = "loop"
    BY <1>6 DEF Interrupted, StarterEffect
  <2>2. /\ m.run = mem[s].run /\ m.created = mem[s].created /\ m.superseded = mem[s].superseded
        /\ m.errors = mem[s].errors
    BY <1>0 DEF Memory
  <2>. HIDE DEF m
  <2>3. SumOf("finish", m, own)
    BY <2>1, <2>2, <1>c DEF SumOf, Counted
  <2>. QED
    BY <2>1, <2>2, <2>3, SumWithoutWrite
<1>7. CASE LoopEnds(s)
  <2>1. StarterEffect(s, "finish", mem[s]) /\ UNCHANGED runs /\ pc[s] = "loop"
    BY <1>7, <1>b DEF LoopEnds, StarterEffect
  <2>2. SumOf("finish", mem[s], own)
    BY <2>1, <1>c DEF SumOf
  <2>. QED
    BY <2>1, <2>2, SumWithoutWrite
<1>8. ASSUME NEW outcome \in Outcomes, PollRepo(s, outcome) PROVE SumInv'
  <2> DEFINE failed == outcome.failed \/ HasError(outcome.actions)
             repo == mem[s].repo
             m == [mem[s] EXCEPT !.actions = outcome.actions,
                                 !.errors  = IF failed THEN @ \cup {repo} ELSE @]
             w == [own EXCEPT !.made = @ \cup {repo}]
  <2>1. mem' = [mem EXCEPT ![s] = m]
    BY <1>8, Zenon DEF PollRepo
  <2>2. StarterEffect(s, "record", m) /\ pc[s] = "poll" /\ repo \in Repos
    BY <2>1, <1>8, <1>0 DEF PollRepo, StarterEffect
  <2>3. /\ m.run = mem[s].run /\ m.created = mem[s].created /\ m.superseded = mem[s].superseded
        /\ m.errors = (IF failed THEN mem[s].errors \cup {repo} ELSE mem[s].errors)
        /\ m.actions = outcome.actions /\ m.repo = repo
    BY <1>0 DEF Memory
  <2>4. \A i \in DOMAIN m.actions : m.actions[i] = "error" => repo \in m.errors
    BY <2>3 DEF HasError
  <2>5. \A i \in DOMAIN m.actions : m.actions[i] = "create" => outcome.made
    BY <2>3, CreatedWasMade
  <2>6. Counted(own, mem[s]) /\ own.status = "running" /\ RowSum(own) /\ own \in Rows
        /\ Active(s) /\ mem[s].run \in Runs
    BY <2>2, <1>0, <1>c, <1>d
  <2>7. w \in Rows /\ w.status = own.status /\ w.events = own.events /\ w.checked = own.checked
        /\ w.made = own.made \cup {repo}
    BY <2>2, <2>6 DEF Rows
  <2>8. /\ outcome.made => runs' = [runs EXCEPT ![mem[s].run] = w]
        /\ ~outcome.made => UNCHANGED runs
    BY <1>8 DEF PollRepo
  <2>9. Counted(own, m) /\ Counted(w, m) /\ RowSum(w)
    <3>1. Counted(own, m)
      BY <2>3, <2>6 DEF Counted, EventsOf
    <3>2. Counted(w, m)
      BY <2>7, <3>1 DEF Counted, EventsOf
    <3>3. RowSum(w)
      BY <2>6, <2>7 DEF RowSum, Finished
    <3>. QED
      BY <3>1, <3>2, <3>3
  <2>. HIDE DEF m, w
  <2>10. CASE outcome.made
    <3>1. SumOf("record", m, w)
      BY <2>3, <2>4, <2>7, <2>9 DEF SumOf
    <3>. QED
      BY <3>1, <2>2, <2>3, <2>6, <2>7, <2>8, <2>9, <2>10, SumWithWrite
  <2>11. CASE ~outcome.made
    <3>1. SumOf("record", m, own)
      BY <2>3, <2>4, <2>5, <2>9, <2>11 DEF SumOf
    <3>. QED
      BY <3>1, <2>2, <2>3, <2>8, <2>11, SumWithoutWrite
  <2>. QED
    BY <2>10, <2>11
<1>9. CASE RecordAction(s)
  <2> DEFINE repo == mem[s].repo
             action == Head(mem[s].actions)
             m == [mem[s] EXCEPT
                     !.actions    = Tail(@),
                     !.created    = IF action = "create" THEN @ \cup {repo} ELSE @,
                     !.superseded = IF action = "supersede" THEN @ \cup {repo} ELSE @]
             w == [own EXCEPT !.events = @ \cup {<<repo, action>>}]
  <2>1. /\ mem' = [mem EXCEPT ![s] = m] /\ UNCHANGED <<pc, proc, stale, stops>> /\ pc[s] = "record"
        /\ mem[s].actions # <<>>
    BY <1>9 DEF RecordAction
  <2>2. StarterEffect(s, "record", m) /\ repo \in Repos /\ mem[s].actions \in Seq(Actions)
    BY <2>1, <1>0 DEF StarterEffect, TypeOK, Memory
  <2>3. /\ m.run = mem[s].run /\ m.errors = mem[s].errors /\ m.repo = repo
        /\ m.actions = Tail(mem[s].actions)
        /\ m.created = (IF action = "create" THEN mem[s].created \cup {repo} ELSE mem[s].created)
        /\ m.superseded = (IF action = "supersede" THEN mem[s].superseded \cup {repo}
                                                   ELSE mem[s].superseded)
    BY <1>0 DEF Memory
  <2>4. /\ 1 \in DOMAIN mem[s].actions /\ action = mem[s].actions[1] /\ action \in Actions
        /\ \A i \in DOMAIN m.actions : i + 1 \in DOMAIN mem[s].actions
                                       /\ m.actions[i] = mem[s].actions[i + 1]
    BY <2>1, <2>2, <2>3
  <2>5. /\ Counted(own, mem[s]) /\ own.status = "running" /\ RowSum(own) /\ own \in Rows
        /\ Active(s) /\ mem[s].run \in Runs
    BY <2>1, <1>0, <1>c, <1>d
  <2>6. \A i \in DOMAIN mem[s].actions :
          /\ mem[s].actions[i] = "error" => repo \in mem[s].errors
          /\ mem[s].actions[i] = "create" => repo \in own.made
    BY <2>1, <1>a DEF SumOf
  <2>7. /\ action = "error" => repo \in mem[s].errors
        /\ action = "create" => repo \in own.made
        /\ \A i \in DOMAIN m.actions : /\ m.actions[i] = "error" => repo \in mem[s].errors
                                       /\ m.actions[i] = "create" => repo \in own.made
    BY <2>4, <2>6
  <2>8. w \in Rows /\ w.status = own.status /\ w.checked = own.checked /\ w.made = own.made
        /\ w.events = own.events \cup {<<repo, action>>}
    <3>1. <<repo, action>> \in Repos \X Actions
      BY <2>2, <2>4
    <3>. HIDE DEF repo, action
    <3>. QED
      BY <3>1, <2>5 DEF Rows
  <2>9. runs' = [runs EXCEPT ![mem[s].run] = w] \/ UNCHANGED runs
    BY <1>9, Zenon DEF RecordAction
  <2>. HIDE DEF m, w, action
  <2>10. Counted(own, m) /\ Counted(w, m)
    BY <2>3, <2>5, <2>7, <2>8 DEF Counted, EventsOf
  <2>11. RowSum(w)
    BY <2>5, <2>8 DEF RowSum, Finished
  <2>12. SumOf("record", m, own) /\ SumOf("record", m, w)
    BY <2>3, <2>7, <2>8, <2>10 DEF SumOf
  <2>. QED
    BY <2>2, <2>3, <2>5, <2>8, <2>9, <2>11, <2>12, SumWithWrite, SumWithoutWrite
<1>10. CASE RepoDone(s)
  <2> DEFINE m == [mem[s] EXCEPT !.repo = NoRepo]
  <2>1. StarterEffect(s, "loop", m) /\ UNCHANGED runs /\ pc[s] = "record"
    BY <1>10 DEF RepoDone, StarterEffect
  <2>2. /\ m.run = mem[s].run /\ m.created = mem[s].created /\ m.superseded = mem[s].superseded
        /\ m.errors = mem[s].errors
    BY <1>0 DEF Memory
  <2>. HIDE DEF m
  <2>3. SumOf("loop", m, own)
    BY <2>1, <2>2, <1>c DEF SumOf, Counted
  <2>. QED
    BY <2>1, <2>2, <2>3, SumWithoutWrite
<1>11. CASE FinishRun(s)
  <2> DEFINE w == Result(own, mem[s])
  <2>1. StarterEffect(s, "release", mem[s]) /\ pc[s] = "finish" /\ runs' = [runs EXCEPT ![mem[s].run] = w]
    BY <1>11, <1>b DEF FinishRun, StarterEffect
  <2>2. w \in Rows /\ own \in Rows /\ mem[s].run \in Runs
    BY <2>1, <1>0, ResultTyped
  <2>3. /\ w.status = Verdict(mem[s]) /\ w.events = own.events /\ w.made = own.made
        /\ w.created = mem[s].created /\ w.superseded = mem[s].superseded
        /\ mem[s].errors \subseteq w.errors
    BY <2>2 DEF Result, Rows
  <2>4. w.status \in Finished
    BY <2>3 DEF Verdict, RunFinishStatus, Finished
  <2>. HIDE DEF w
  <2>5. RowSum(w) /\ SumOf("release", mem[s], w)
    BY <2>1, <2>3, <2>4, <1>c DEF RowSum, SumOf, Counted, EventsOf, Finished
  <2>. QED
    BY <2>1, <2>2, <2>5, <1>d, SumWithWrite
<1>12. CASE FinishFails(s)
  <2> DEFINE w == [own EXCEPT !.lost = TRUE]
  <2>1. StarterEffect(s, "release", mem[s]) /\ pc[s] = "finish" /\ runs' = [runs EXCEPT ![mem[s].run] = w]
    BY <1>12, <1>b DEF FinishFails, StarterEffect
  <2>2. w \in Rows /\ w.status = own.status /\ w.checked = own.checked /\ w.events = own.events
        /\ mem[s].run \in Runs
    BY <2>1, <1>0 DEF Rows
  <2>. HIDE DEF w
  <2>3. RowSum(w) /\ SumOf("release", mem[s], w)
    BY <2>1, <2>2, <1>c DEF RowSum, SumOf, Finished
  <2>. QED
    BY <2>1, <2>2, <2>3, <1>d, SumWithWrite
<1>13. CASE Release(s)
  <2>1. StarterEffect(s, "idle", NoMemory) /\ UNCHANGED runs
    BY <1>13 DEF Release, StarterEffect
  <2>2. SumOf("idle", NoMemory, runs[NoMemory.run])
    BY DEF SumOf, NoMemory
  <2>. QED
    BY <2>1, <2>2, SumWithoutWrite
<1>. QED
  BY <1>1, <1>2, <1>3, <1>4, <1>5, <1>6, <1>7, <1>8, <1>9, <1>10, <1>11, <1>12, <1>13 DEF Step

\* A row finished by the reconciliation has no counts.
LEMMA ProcessKeepsSum == TypeOK /\ Quiet /\ SumInv /\ Process => SumInv'
<1>. SUFFICES ASSUME TypeOK, Quiet, SumInv, Process PROVE SumInv'
  OBVIOUS
<1>1. CASE UNCHANGED <<pc, mem, runs>>
  BY <1>1 DEF SumInv, SumOf, RowSum, Counted, EventsOf
<1>2. ASSUME NEW r \in Runs, ReconcileRun(r) PROVE SumInv'
  <2> DEFINE w == [runs[r] EXCEPT !.status = "failed", !.errors = {NoRepo}]
  <2>1. /\ runs' = [runs EXCEPT ![r] = w] /\ UNCHANGED <<proc, pc, mem>>
        /\ \A s \in Starters : pc[s] = "idle"
        /\ runs[r].status = "running"
    BY <1>2 DEF ReconcileRun, Quiet
  <2>2. w.status = "failed" /\ w.checked = {}
    BY <2>1 DEF TypeOK, Rows, SumInv, RowSum, Finished
  <2>3. runs'[r] = w /\ \A v \in Runs \ {r} : runs'[v] = runs[v]
    BY <2>1 DEF TypeOK
  <2>. HIDE DEF w
  <2>4. \A v \in Runs : RowSum(runs[v])'
    BY <2>2, <2>3 DEF SumInv, RowSum, Finished, Counted, EventsOf
  <2>5. \A s \in Starters : SumOf(pc[s], mem[s], runs[mem[s].run])'
    BY <2>1 DEF SumInv, SumOf, Behind, InRun
  <2>. QED
    BY <2>4, <2>5 DEF SumInv
<1>3. CASE Exit \/ Crash
  BY <1>3 DEF Exit, Crash, Forget, SumInv, SumOf, RowSum, Counted, EventsOf, NoMemory, Behind, InRun
<1>. QED
  BY <1>1, <1>2, <1>3
     DEF Process, Boot, ListStale, ReconcileFails, StartScheduler, Stop, Drained, RunsAreDone

LEMMA SumStep == RunsInv /\ SumInv /\ [Next]_vars => SumInv'
<1>1. ASSUME SumInv, UNCHANGED vars PROVE SumInv'
  BY <1>1 DEF SumInv, SumOf, RowSum, Counted, EventsOf, vars
<1>. QED
  BY <1>1, StarterKeepsSum, ProcessKeepsSum DEF Next, RunsInv

\* A run that wrote its own result adds up with its events, whichever of its repos failed,
\* whichever events were not stored and wherever it was cut short.
THEOREM ResultAddsUp == Spec => []FinishedRunAddsUp
<1>1. Init => SumInv
  BY DEF Init, SumInv, SumOf, RowSum, NoMemory, NewRow, Behind, InRun, Finished
<1>2. SumInv => FinishedRunAddsUp
  BY DEF SumInv, RowSum, Counted, EventsOf, FinishedRunAddsUp
<1>. QED
  BY <1>1, <1>2, RunsInvInit, RunsInvStep, SumStep, PTL DEF Spec

=============================================================================
