------------------------- MODULE ConfigurationProofs -------------------------
(***************************************************************************)
(* What holds of the configuration's rows and of the settings in every     *)
(* instance: a request that nobody overtakes sees what it has read, so it  *)
(* neither moves a secret, nor is turned down by the database, nor changes *)
(* a field that it does not name.                                          *)
(***************************************************************************)
EXTENDS Configuration, Settings, TLAPS

-----------------------------------------------------------------------------
(* Typing.                                                                 *)

Ops == {"createIntegration", "patchIntegration", "deleteIntegration", "createProject",
        "patchProject", "deleteProject", "createRepo", "patchRepo", "deleteRepo"}

\* The literals are strings too, which the provers are not told.
Name == STRING \cup SourceKinds \cup {"kaneo", "none", "new", NoUrl, Keep, "nothing"}
Templates == [TemplateKeys -> Name]

IntegrationRows == [id : Name, kind : Name, url : Name, secretFor : Name, isDefault : BOOLEAN]
ProjectRows == [id : Name, integration : Name, templates : Templates]
RepoRows == [id : Name, integration : Name, project : Name]
Task == [op : Ops, id : Name, step : {"read", "write"}, overtaken : BOOLEAN,
         answer : {"none", "ok", "refused", "missing", "conflict", "failed"},
         url : Name, secret : BOOLEAN, isDefault : {"yes", "no", Keep},
         keys : SUBSET TemplateKeys, copy : Name \cup Templates,
         integration : Name, project : Name]

\* The type invariant.
ConfigTypeOK ==
  /\ integrations \subseteq IntegrationRows
  /\ projects \subseteq ProjectRows
  /\ repos \subseteq RepoRows
  /\ task \in [Edits -> {NoTask} \cup Task]
  /\ \A q \in Edits : task[q] # NoTask /\ task[q].step = "write" =>
       /\ task[q].op = "patchIntegration" => task[q].copy \in Name
       /\ task[q].op = "patchProject" => task[q].copy \in Templates

LEMMA NoTaskIsNoTask == NoTask \notin Task
BY DEF NoTask, Task, Ops

LEMMA EditsAreNames == \A q \in Edits : q \in Name
BY EditsAssumption DEF Name

\* A request that has been made and not yet answered.
Live(q) == task[q] # NoTask /\ task[q].answer = "none"

LEMMA LiveIsTask ==
  ASSUME ConfigTypeOK, NEW q \in Edits, task[q] # NoTask
  PROVE  task[q] \in Task
BY DEF ConfigTypeOK

LEMMA BaseTaskIsTask ==
  ASSUME NEW op \in Ops, NEW id \in Name
  PROVE  /\ BaseTask(op, id) \in Task
         /\ BaseTask(op, id).op = op /\ BaseTask(op, id).id = id
         /\ BaseTask(op, id).step = "read" /\ BaseTask(op, id).answer = "none"
BY DEF BaseTask, Task, Name, NoUrl, Keep

LEMMA TaskFields ==
  ASSUME NEW b \in Task
  PROVE  /\ \A u \in Name : [b EXCEPT !.url = u] \in Task
         /\ \A s \in BOOLEAN : [b EXCEPT !.secret = s] \in Task
         /\ \A d \in {"yes", "no", Keep} : [b EXCEPT !.isDefault = d] \in Task
         /\ \A i \in Name : [b EXCEPT !.integration = i] \in Task
         /\ \A p \in Name : [b EXCEPT !.project = p] \in Task
BY DEF Task

\* What is asked is a request at its first step; a new project names an existing
\* integration, a changed repo keeps its project.
AsksRight(t) ==
  /\ t \in Task /\ t.step = "read" /\ t.answer = "none"
  /\ t.op = "createProject" => IntegrationRow(t.integration) # {}
  /\ t.op = "createRepo" => Referable(t)
  /\ t.op = "patchRepo" =>
       IntegrationRow(t.integration) # {} /\ \E r \in repos : r.project = t.project

LEMMA AskedIsTask ==
  ASSUME ConfigTypeOK, NEW t \in IntegrationTasks \cup ProjectTasks \cup RepoTasks
  PROVE  AsksRight(t)
<1>1. ASSUME t \in IntegrationTasks PROVE AsksRight(t)
  <2>1. ASSUME NEW op \in {"createIntegration", "patchIntegration", "deleteIntegration"},
               NEW id \in Name, NEW u \in Hosts \cup {NoUrl, Keep}, NEW s \in BOOLEAN,
               NEW d \in {"yes", "no", Keep},
               t = IntegrationTask(op, id, u, s, d)
        PROVE  AsksRight(t)
    <3>1. u \in Name
      BY EditsAssumption DEF Name
    <3>. QED
      <4>. DEFINE a == [BaseTask(op, id) EXCEPT !.url = u]
                  b == [a EXCEPT !.secret = s]
                  c == [b EXCEPT !.isDefault = d]
      <4>1. BaseTask(op, id) \in Task /\ op \in Ops
        BY BaseTaskIsTask DEF Ops
      <4>2. a \in Task /\ a.op = op /\ a.step = "read" /\ a.answer = "none"
        BY <3>1, <4>1, TaskFields, BaseTaskIsTask DEF Task
      <4>. HIDE DEF a
      <4>3. b \in Task /\ b.op = op /\ b.step = "read" /\ b.answer = "none"
        BY <4>2, TaskFields DEF Task
      <4>. HIDE DEF b
      <4>4. c \in Task /\ c.op = op /\ c.step = "read" /\ c.answer = "none"
        BY <4>3, TaskFields DEF Task
      <4>5. t = c
        BY <2>1 DEF a, b, IntegrationTask
      <4>. QED
        BY <4>4, <4>5 DEF AsksRight
  <2>2. \A k \in SourceKinds \cup {"kaneo"} : k \in Name
    BY DEF Name
  <2>3. \A i \in integrations : i.id \in Name
    BY DEF ConfigTypeOK, IntegrationRows
  <2>4. ASSUME NEW i \in integrations, t = BaseTask("deleteIntegration", i.id)
        PROVE  AsksRight(t)
    BY <2>3, <2>4 DEF BaseTask, Task, Name, Keep, AsksRight, Ops
  <2>5. CASE \E k \in SourceKinds \cup {"kaneo"}, u \in Hosts \cup {NoUrl}, d \in {"yes", "no"} :
               t = NewIntegration(k, u, d)
    <3>1. PICK k \in SourceKinds \cup {"kaneo"}, u \in Hosts \cup {NoUrl}, d \in {"yes", "no"} :
            t = NewIntegration(k, u, d)
      BY <2>5
    <3>2. k \in Name /\ u \in Hosts \cup {NoUrl, Keep} /\ d \in {"yes", "no", Keep}
      BY <2>2
    <3>. QED
      BY <2>1, <3>1, <3>2 DEF NewIntegration
  <2>6. CASE \E i \in integrations, u \in Hosts \cup {Keep}, s \in BOOLEAN, d \in {"yes", "no", Keep} :
               t = IntegrationTask("patchIntegration", i.id, u, s, d)
    BY <2>1, <2>3, <2>6
  <2>. QED
    BY <1>1, <2>4, <2>5, <2>6 DEF IntegrationTasks
<1>2. ASSUME t \in ProjectTasks PROVE AsksRight(t)
  <2>1. CASE \E i \in integrations : t = [BaseTask("createProject", "new") EXCEPT !.integration = i.id]
    <3>1. PICK i \in integrations : t = [BaseTask("createProject", "new") EXCEPT !.integration = i.id]
      BY <2>1
    <3>2. i.id \in Name /\ "new" \in Name
      BY DEF ConfigTypeOK, IntegrationRows, Name
    <3>3. t \in Task /\ t.step = "read" /\ t.answer = "none" /\ t.integration = i.id
          /\ t.op = "createProject"
      BY <3>1, <3>2, BaseTaskIsTask DEF Ops, Task
    <3>. QED
      BY <3>3 DEF AsksRight, IntegrationRow
  <2>2. ASSUME NEW p \in projects, NEW k \in SUBSET TemplateKeys,
               t = [BaseTask("patchProject", p.id) EXCEPT !.keys = k]
        PROVE  AsksRight(t)
    <3>1. p.id \in Name
      BY DEF ConfigTypeOK, ProjectRows
    <3>. QED
      BY <2>2, <3>1, BaseTaskIsTask DEF Ops, Task, AsksRight
  <2>3. ASSUME NEW p \in projects, t = BaseTask("deleteProject", p.id)
        PROVE  AsksRight(t)
    <3>1. p.id \in Name
      BY DEF ConfigTypeOK, ProjectRows
    <3>. QED
      BY <2>3, <3>1, BaseTaskIsTask DEF Ops, Task, AsksRight
  <2>. QED
    BY <1>2, <2>1, <2>2, <2>3 DEF ProjectTasks
<1>3. ASSUME t \in RepoTasks PROVE AsksRight(t)
  <2>1. ASSUME NEW i \in {j.id : j \in integrations} \cup {"none"}, NEW p \in projects,
               t = RepoTask("createRepo", "new", i, p.id)
        PROVE  AsksRight(t)
    <3>1. i \in Name /\ p.id \in Name /\ "new" \in Name
      BY DEF ConfigTypeOK, IntegrationRows, ProjectRows, Name
    <3>2. /\ t \in Task /\ t.step = "read" /\ t.answer = "none" /\ t.op = "createRepo"
          /\ t.integration = i /\ t.project = p.id
      <4>. DEFINE a == BaseTask("createRepo", "new")
                  b == [a EXCEPT !.integration = i]
                  c == [b EXCEPT !.project = p.id]
      <4>1. a \in Task /\ a.op = "createRepo" /\ a.step = "read" /\ a.answer = "none"
        BY <3>1, BaseTaskIsTask DEF Ops
      <4>. HIDE DEF a
      <4>2. /\ b \in Task /\ b.op = "createRepo" /\ b.step = "read" /\ b.answer = "none"
            /\ b.integration = i
        BY <3>1, <4>1, TaskFields DEF Task
      <4>. HIDE DEF b
      <4>3. /\ c \in Task /\ c.op = "createRepo" /\ c.step = "read" /\ c.answer = "none"
            /\ c.integration = i /\ c.project = p.id
        BY <3>1, <4>2, TaskFields DEF Task
      <4>. QED
        BY <2>1, <4>3 DEF a, b, RepoTask
    <3>. QED
      BY <3>2 DEF AsksRight, Referable, IntegrationRow, ProjectRow
  <2>2. ASSUME NEW r \in repos, NEW i \in integrations,
               t = RepoTask("patchRepo", r.id, i.id, r.project)
        PROVE  AsksRight(t)
    <3>1. i.id \in Name /\ r.id \in Name /\ r.project \in Name
      BY DEF ConfigTypeOK, IntegrationRows, RepoRows
    <3>2. /\ t \in Task /\ t.step = "read" /\ t.answer = "none" /\ t.op = "patchRepo"
          /\ t.integration = i.id /\ t.project = r.project
      <4>. DEFINE a == BaseTask("patchRepo", r.id)
                  b == [a EXCEPT !.integration = i.id]
                  c == [b EXCEPT !.project = r.project]
      <4>1. a \in Task /\ a.op = "patchRepo" /\ a.step = "read" /\ a.answer = "none"
        BY <3>1, BaseTaskIsTask DEF Ops
      <4>. HIDE DEF a
      <4>2. /\ b \in Task /\ b.op = "patchRepo" /\ b.step = "read" /\ b.answer = "none"
            /\ b.integration = i.id
        BY <3>1, <4>1, TaskFields DEF Task
      <4>. HIDE DEF b
      <4>3. /\ c \in Task /\ c.op = "patchRepo" /\ c.step = "read" /\ c.answer = "none"
            /\ c.integration = i.id /\ c.project = r.project
        BY <3>1, <4>2, TaskFields DEF Task
      <4>. QED
        BY <2>2, <4>3 DEF a, b, RepoTask
    <3>. QED
      BY <3>2 DEF AsksRight, IntegrationRow
  <2>3. ASSUME NEW r \in repos, t = BaseTask("deleteRepo", r.id)
        PROVE  AsksRight(t)
    <3>1. r.id \in Name
      BY DEF ConfigTypeOK, RepoRows
    <3>. QED
      BY <2>3, <3>1, BaseTaskIsTask DEF Ops, Task, AsksRight
  <2>4. CASE \E i \in {j.id : j \in integrations} \cup {"none"}, p \in projects :
               t = RepoTask("createRepo", "new", i, p.id)
    BY <2>1, <2>4
  <2>5. CASE \E r \in repos, i \in integrations :
               t = RepoTask("patchRepo", r.id, i.id, r.project)
    BY <2>2, <2>5
  <2>. QED
    BY <1>3, <2>3, <2>4, <2>5 DEF RepoTasks
<1>. QED
  BY <1>1, <1>2, <1>3

-----------------------------------------------------------------------------
(* The steps of a request.                                                 *)

Quiet == UNCHANGED <<integrations, projects, repos>>
Alone(q) == \A p \in Edits \ {q} : task'[p] = task[p]

\* It is asked, it is turned down, it reads, or it stores.
Asks(q) == task[q] = NoTask /\ AsksRight(task'[q]) /\ Alone(q) /\ Quiet
Refusals == {"refused", "missing", "conflict", "failed"}
Stops(q, a) == Live(q) /\ task'[q] = Answered(q, a) /\ Alone(q) /\ Quiet
Reads(q) ==
  /\ ReadIntegration(q) \/ CountReferences(q) \/ ReadProject(q) \/ CountMonitoredRepos(q)
  /\ Live(q) /\ task[q].step = "read"
  /\ \E c \in Name \cup Templates :
       /\ task'[q] = [task[q] EXCEPT !.step = "write", !.copy = c]
       /\ task[q].op = "patchIntegration" => c \in Name
       /\ task[q].op = "patchProject" => c \in Templates
  /\ Alone(q) /\ Quiet
Stores(q) == Live(q) /\ Stored(q, Answered(q, "ok"))

LEMMA AnsweredTask ==
  ASSUME ConfigTypeOK, NEW q \in Edits, Live(q), NEW a \in Refusals \cup {"ok"}
  PROVE  /\ Answered(q, a) \in Task /\ Answered(q, a).answer = a
         /\ Answered(q, a).op = task[q].op /\ Answered(q, a).step = task[q].step
         /\ Answered(q, a).copy = task[q].copy /\ Answered(q, a).overtaken = task[q].overtaken
<1>1. task[q] \in Task
  BY LiveIsTask DEF Live
<1>. QED
  BY <1>1 DEF Answered, Task, Refusals

LEMMA AnswerStops ==
  ASSUME ConfigTypeOK, NEW q \in Edits, Live(q), NEW a \in Refusals, AnswerTask(q, a), Quiet
  PROVE  Stops(q, a) /\ task' \in [Edits -> {NoTask} \cup Task]
<1>1. Answered(q, a) \in Task
  BY AnsweredTask
<1>. QED
  BY <1>1 DEF AnswerTask, Stops, Alone, ConfigTypeOK

LEMMA StepReads ==
  ASSUME ConfigTypeOK, NEW q \in Edits, Live(q), task[q].step = "read", NEW c \in Name \cup Templates,
         NextStep(q, [task[q] EXCEPT !.step = "write", !.copy = c]), Quiet,
         ReadIntegration(q) \/ CountReferences(q) \/ ReadProject(q) \/ CountMonitoredRepos(q),
         task[q].op = "patchIntegration" => c \in Name,
         task[q].op = "patchProject" => c \in Templates
  PROVE  Reads(q) /\ task' \in [Edits -> {NoTask} \cup Task]
<1>1. task[q] \in Task
  BY LiveIsTask DEF Live
<1>2. [task[q] EXCEPT !.step = "write"] \in Task
  BY <1>1 DEF Task
<1>. DEFINE w == [task[q] EXCEPT !.step = "write"]
<1>3. [w EXCEPT !.copy = c] \in Task
  BY <1>2 DEF Task
<1>4. task' = [task EXCEPT ![q] = [task[q] EXCEPT !.step = "write", !.copy = c]]
  BY DEF NextStep
<1>5. /\ task'[q] = [task[q] EXCEPT !.step = "write", !.copy = c]
      /\ Alone(q) /\ task' \in [Edits -> {NoTask} \cup Task]
  BY <1>3, <1>4 DEF Alone, ConfigTypeOK
<1>. QED
  BY <1>5 DEF Reads

LEMMA StoredTask ==
  ASSUME ConfigTypeOK, NEW q \in Edits, Stores(q)
  PROVE  /\ task' \in [Edits -> {NoTask} \cup Task]
         /\ task'[q] = Answered(q, "ok")
         /\ \A p \in Edits \ {q} :
              /\ Live(p) => task'[p] = [task[p] EXCEPT !.overtaken = TRUE]
              /\ ~Live(p) => task'[p] = task[p]
<1>1. Answered(q, "ok") \in Task
  BY AnsweredTask DEF Stores
<1>2. ASSUME NEW p \in Edits, Live(p) PROVE [task[p] EXCEPT !.overtaken = TRUE] \in Task
  <2>1. task[p] \in Task
    BY <1>2, LiveIsTask DEF Live
  <2>. QED
    BY <2>1 DEF Task
<1>3. task' = [p \in Edits |-> IF p = q THEN Answered(q, "ok")
                 ELSE IF Live(p) THEN [task[p] EXCEPT !.overtaken = TRUE] ELSE task[p]]
  BY DEF Stores, Stored, Live
<1>4. \A p \in Edits : task[p] \in {NoTask} \cup Task
  BY DEF ConfigTypeOK
<1>5. \A p \in Edits : task'[p] = IF p = q THEN Answered(q, "ok")
                 ELSE IF Live(p) THEN [task[p] EXCEPT !.overtaken = TRUE] ELSE task[p]
  BY <1>3, Zenon
<1>6. \A p \in Edits : task'[p] \in {NoTask} \cup Task
  BY <1>1, <1>2, <1>4, <1>5
<1>7. task' \in [Edits -> {NoTask} \cup Task]
  BY <1>3, <1>6
<1>. QED
  BY <1>5, <1>7

LEMMA LiveInStep ==
  ASSUME NEW q \in Edits, NEW op, NEW step, InStep(q, op, step)
  PROVE  Live(q) /\ task[q].op = op /\ task[q].step = step
BY DEF InStep, Live

LEMMA RequestStep ==
  ASSUME ConfigTypeOK, NEW q \in Edits,
         \/ AskTask(q) \/ CreateIntegration(q) \/ ReadIntegration(q) \/ WriteIntegration(q)
         \/ CountReferences(q) \/ DeleteIntegration(q)
         \/ CreateProject(q) \/ ReadProject(q) \/ WriteProject(q)
         \/ CountMonitoredRepos(q) \/ DeleteProject(q)
         \/ CreateRepo(q) \/ UpdateRepo(q) \/ DeleteRepo(q)
  PROVE  /\ task' \in [Edits -> {NoTask} \cup Task]
         /\ Asks(q) \/ (\E a \in Refusals : Stops(q, a)) \/ Reads(q) \/ Stores(q)
<1>. DEFINE Goal == /\ task' \in [Edits -> {NoTask} \cup Task]
                    /\ Asks(q) \/ (\E a \in Refusals : Stops(q, a)) \/ Reads(q) \/ Stores(q)
<1>. SUFFICES Goal
  OBVIOUS
<1>a. ASSUME NEW a \in Refusals, Live(q), AnswerTask(q, a), Quiet PROVE Goal
  BY <1>a, AnswerStops DEF Goal
<1>b. ASSUME Stores(q) PROVE Goal
  BY <1>b, StoredTask DEF Goal
<1>c. ASSUME Reads(q), task' \in [Edits -> {NoTask} \cup Task] PROVE Goal
  BY <1>c DEF Goal
<1>. HIDE DEF Goal
<1>1. CASE AskTask(q)
  <2>1. PICK t \in IntegrationTasks \cup ProjectTasks \cup RepoTasks : task' = [task EXCEPT ![q] = t]
    BY <1>1 DEF AskTask
  <2>2. t \in Task /\ AsksRight(t)
    BY AskedIsTask DEF AsksRight
  <2>3. task'[q] = t /\ Alone(q) /\ task' \in [Edits -> {NoTask} \cup Task]
    BY <2>1, <2>2 DEF Alone, ConfigTypeOK
  <2>. QED
    BY <1>1, <2>2, <2>3 DEF Asks, AskTask, Quiet, Goal
<1>2. CASE CreateIntegration(q)
  <2>1. Live(q)
    BY <1>2, LiveInStep DEF CreateIntegration
  <2>2. CASE Stored(q, Answered(q, "ok"))
    BY <2>1, <2>2, <1>b DEF Stores
  <2>3. CASE UNCHANGED integrations /\ (AnswerTask(q, "refused") \/ AnswerTask(q, "failed"))
    BY <1>2, <2>1, <2>3, <1>a DEF CreateIntegration, Quiet, Refusals
  <2>. QED
    BY <1>2, <2>2, <2>3 DEF CreateIntegration, StoreIntegrations
<1>3. CASE ReadIntegration(q)
  <2>1. Live(q) /\ task[q].op = "patchIntegration" /\ task[q].step = "read" /\ Quiet
    BY <1>3, LiveInStep DEF ReadIntegration, Quiet
  <2>2. CASE AnswerTask(q, "missing") \/ AnswerTask(q, "refused")
    BY <2>1, <2>2, <1>a DEF Refusals
  <2>3. ASSUME NEW row \in IntegrationRow(task[q].id),
               NextStep(q, [task[q] EXCEPT !.step = "write",
                              !.copy = IF task[q].url = Keep THEN row.url ELSE task[q].url])
        PROVE  Goal
    <3>1. PICK c : c = IF task[q].url = Keep THEN row.url ELSE task[q].url
      OBVIOUS
    <3>2. c \in Name
      BY <2>1, <3>1, LiveIsTask DEF Live, Task, IntegrationRow, ConfigTypeOK, IntegrationRows
    <3>. QED
      BY <1>3, <2>1, <2>3, <3>1, <3>2, StepReads, <1>c
  <2>. QED
    BY <1>3, <2>2, <2>3 DEF ReadIntegration
<1>4. CASE WriteIntegration(q)
  <2>1. Live(q)
    BY <1>4, LiveInStep DEF WriteIntegration
  <2>2. CASE Stored(q, Answered(q, "ok"))
    BY <2>1, <2>2, <1>b DEF Stores
  <2>3. CASE UNCHANGED integrations /\ (AnswerTask(q, "missing") \/ AnswerTask(q, "failed"))
    BY <1>4, <2>1, <2>3, <1>a DEF WriteIntegration, Quiet, Refusals
  <2>. QED
    BY <1>4, <2>2, <2>3 DEF WriteIntegration, StoreIntegrations
<1>5. CASE CountReferences(q) \/ CountMonitoredRepos(q)
  <2>1. /\ Live(q) /\ task[q].op \in {"deleteIntegration", "deleteProject"} /\ task[q].step = "read"
        /\ Quiet
    BY <1>5, LiveInStep DEF CountReferences, CountMonitoredRepos, Quiet
  <2>2. CASE AnswerTask(q, "missing") \/ AnswerTask(q, "conflict")
    BY <2>1, <2>2, <1>a DEF Refusals
  <2>3. CASE NextStep(q, [task[q] EXCEPT !.step = "write"])
    <3>1. task[q] \in Task /\ task[q].copy \in Name \cup Templates
      BY <2>1, LiveIsTask DEF Live, Task
    <3>2. [task[q] EXCEPT !.step = "write"] = [task[q] EXCEPT !.step = "write", !.copy = task[q].copy]
      BY <3>1 DEF Task
    <3>. QED
      BY <1>5, <2>1, <2>3, <3>1, <3>2, StepReads, <1>c
  <2>. QED
    BY <1>5, <2>2, <2>3 DEF CountReferences, CountMonitoredRepos
<1>6. CASE ReadProject(q)
  <2>1. Live(q) /\ task[q].op = "patchProject" /\ task[q].step = "read" /\ Quiet
    BY <1>6, LiveInStep DEF ReadProject, Quiet
  <2>2. CASE AnswerTask(q, "missing")
    BY <2>1, <2>2, <1>a DEF Refusals
  <2>3. ASSUME NEW row \in ProjectRow(task[q].id),
               NextStep(q, [task[q] EXCEPT !.step = "write",
                              !.copy = Merged(row.templates, task[q].keys, q)])
        PROVE  Goal
    <3>1. PICK c : c = Merged(row.templates, task[q].keys, q)
      OBVIOUS
    <3>2. row.templates \in Templates
      BY DEF ProjectRow, ConfigTypeOK, ProjectRows
    <3>3. c \in Templates
      BY <3>1, <3>2, EditsAreNames DEF Merged, Templates
    <3>. QED
      BY <1>6, <2>1, <2>3, <3>1, <3>3, StepReads, <1>c
  <2>. QED
    BY <1>6, <2>2, <2>3 DEF ReadProject
<1>7. CASE DeleteIntegration(q) \/ CreateProject(q) \/ DeleteProject(q) \/ CreateRepo(q) \/ UpdateRepo(q)
           \/ WriteProject(q) \/ DeleteRepo(q)
  <2>1. Live(q)
    BY <1>7, LiveInStep
    DEF DeleteIntegration, CreateProject, DeleteProject, CreateRepo, UpdateRepo, WriteProject, DeleteRepo
  <2>2. CASE Stored(q, Answered(q, "ok"))
    BY <2>1, <2>2, <1>b DEF Stores
  <2>3. CASE Quiet /\ (AnswerTask(q, "missing") \/ AnswerTask(q, "failed"))
    BY <2>1, <2>3, <1>a DEF Refusals
  <2>. QED
    BY <1>7, <2>2, <2>3
    DEF DeleteIntegration, CreateProject, DeleteProject, CreateRepo, UpdateRepo, WriteProject,
        DeleteRepo, Quiet
<1>. QED
  BY <1>1, <1>2, <1>3, <1>4, <1>5, <1>6, <1>7

\* What a step does to a request that was made.
LEMMA TaskStep ==
  ASSUME ConfigTypeOK, ConfigNext, NEW p \in Edits, task[p] # NoTask
  PROVE  /\ task'[p] # NoTask /\ task'[p] \in Task
         /\ task'[p].op = task[p].op
         /\ task[p].answer # "none" => task'[p] = task[p]
         /\ task[p].overtaken => task'[p].overtaken
<1>1. task[p] \in Task
  BY LiveIsTask
<1>2. PICK q \in Edits : Asks(q) \/ (\E a \in Refusals : Stops(q, a)) \/ Reads(q) \/ Stores(q)
  BY RequestStep DEF ConfigNext
<1>3. CASE task'[p] = task[p]
  BY <1>1, <1>3
<1>4. CASE Live(p) /\ \E a \in Refusals \cup {"ok"} : task'[p] = Answered(p, a)
  BY <1>4, AnsweredTask, NoTaskIsNoTask DEF Live
<1>5. CASE Live(p) /\ Reads(p)
  <2>1. PICK c \in Name \cup Templates :
          task'[p] = [task[p] EXCEPT !.step = "write", !.copy = c]
    BY <1>5 DEF Reads
  <2>2. [task[p] EXCEPT !.step = "write"] \in Task
    BY <1>1 DEF Task
  <2>. DEFINE w == [task[p] EXCEPT !.step = "write"]
  <2>3. [w EXCEPT !.copy = c] \in Task
    BY <2>2 DEF Task
  <2>. QED
    BY <1>1, <1>5, <2>1, <2>3, NoTaskIsNoTask DEF Task, Live
<1>6. CASE Live(p) /\ task'[p] = [task[p] EXCEPT !.overtaken = TRUE]
  <2>1. [task[p] EXCEPT !.overtaken = TRUE] \in Task
    BY <1>1 DEF Task
  <2>. QED
    BY <1>1, <1>6, <2>1, NoTaskIsNoTask DEF Task, Live
<1>7. CASE p = q
  BY <1>2, <1>4, <1>5, <1>7, StoredTask DEF Asks, Stops, Reads, Stores
<1>8. CASE p # q
  <2>1. CASE Stores(q)
    BY <1>3, <1>6, <1>8, <2>1, StoredTask
  <2>2. CASE Alone(q)
    BY <1>3, <1>8, <2>2 DEF Alone
  <2>. QED
    BY <1>2, <2>1, <2>2 DEF Asks, Stops, Reads
<1>. QED
  BY <1>7, <1>8

\* A request that is still in flight after a step, and that nobody has overtaken,
\* saw the rows as they are.
LEMMA NotOvertaken ==
  ASSUME ConfigTypeOK, ConfigNext, NEW p \in Edits, Live(p)', ~task'[p].overtaken
  PROVE  /\ Quiet
         /\ \/ Asks(p)
            \/ Reads(p) /\ ~task[p].overtaken
            \/ Live(p) /\ task'[p] = task[p]
<1>1. PICK q \in Edits : Asks(q) \/ (\E a \in Refusals : Stops(q, a)) \/ Reads(q) \/ Stores(q)
  BY RequestStep DEF ConfigNext
<1>2. CASE Stores(q)
  <2>1. CASE p = q
    BY <1>2, <2>1, StoredTask, AnsweredTask DEF Live, Stores
  <2>2. CASE p # q /\ Live(p)
    <3>1. task[p] \in Task
      BY <2>2, LiveIsTask DEF Live
    <3>. QED
      BY <1>2, <2>2, <3>1, StoredTask DEF Task
  <2>3. CASE p # q /\ ~Live(p)
    BY <1>2, <2>3, StoredTask DEF Live
  <2>. QED
    BY <2>1, <2>2, <2>3
<1>3. CASE Quiet /\ Alone(q) /\ p # q
  BY <1>3 DEF Alone, Live
<1>4. CASE p = q /\ \E a \in Refusals : Stops(q, a)
  BY <1>4, AnsweredTask DEF Live, Stops, Refusals
<1>5. CASE p = q /\ Asks(q)
  BY <1>5 DEF Asks
<1>6. CASE p = q /\ Reads(q)
  <2>1. task[p] # NoTask
    BY <1>6 DEF Reads, Live
  <2>. QED
    BY <1>6, <2>1, TaskStep, LiveIsTask DEF Reads, Task
<1>. QED
  BY <1>1, <1>2, <1>3, <1>4, <1>5, <1>6 DEF Asks, Stops, Reads

LEMMA CopyTyped ==
  ASSUME ConfigTypeOK, ConfigNext, NEW q \in Edits, task'[q] # NoTask, task'[q].step = "write"
  PROVE  /\ task'[q].op = "patchIntegration" => task'[q].copy \in Name
         /\ task'[q].op = "patchProject" => task'[q].copy \in Templates
<1>1. PICK p \in Edits : Asks(p) \/ (\E a \in Refusals : Stops(p, a)) \/ Reads(p) \/ Stores(p)
  BY RequestStep DEF ConfigNext
<1>2. CASE task'[q] = task[q]
  BY <1>2 DEF ConfigTypeOK
<1>3. CASE Live(q) /\ \E a \in Refusals \cup {"ok"} : task'[q] = Answered(q, a)
  BY <1>3, AnsweredTask DEF ConfigTypeOK, Live
<1>4. CASE Live(q) /\ task'[q] = [task[q] EXCEPT !.overtaken = TRUE]
  <2>1. task[q] \in Task
    BY <1>4, LiveIsTask DEF Live
  <2>. QED
    BY <1>4, <2>1 DEF ConfigTypeOK, Live, Task
<1>5. CASE Reads(q)
  <2>1. task[q] \in Task
    BY <1>5, LiveIsTask DEF Live, Reads
  <2>2. PICK c \in Name \cup Templates :
          /\ task'[q] = [task[q] EXCEPT !.step = "write", !.copy = c]
          /\ task[q].op = "patchIntegration" => c \in Name
          /\ task[q].op = "patchProject" => c \in Templates
    BY <1>5 DEF Reads
  <2>. QED
    BY <2>1, <2>2 DEF Task
<1>6. CASE Asks(q)
  BY <1>6 DEF Asks, AsksRight
<1>7. CASE p = q
  BY <1>1, <1>3, <1>5, <1>6, <1>7, StoredTask DEF Stops, Stores
<1>8. CASE p # q
  BY <1>1, <1>2, <1>4, <1>8, StoredTask DEF Asks, Stops, Reads, Alone
<1>. QED
  BY <1>7, <1>8

\* The rows of a PATCH.
Patched(row, t) ==
  [row EXCEPT !.url = t.copy,
              !.secretFor = IF t.secret THEN t.copy ELSE row.secretFor,
              !.isDefault = IF t.isDefault = Keep THEN row.isDefault ELSE t.isDefault = "yes"]

LEMMA PatchedRow ==
  ASSUME NEW row \in IntegrationRows, NEW t \in Task, t.copy \in Name
  PROVE  /\ Patched(row, t) \in IntegrationRows
         /\ Patched(row, t).id = row.id /\ Patched(row, t).kind = row.kind
         /\ Patched(row, t).url = t.copy
         /\ Patched(row, t).secretFor = IF t.secret THEN t.copy ELSE row.secretFor
         /\ Patched(row, t).isDefault =
              IF t.isDefault = Keep THEN row.isDefault ELSE t.isDefault = "yes"
<1>. DEFINE a == [row EXCEPT !.url = t.copy]
            s == IF t.secret THEN t.copy ELSE row.secretFor
            b == [a EXCEPT !.secretFor = s]
            d == IF t.isDefault = Keep THEN row.isDefault ELSE t.isDefault = "yes"
            c == [b EXCEPT !.isDefault = d]
<1>1. s \in Name /\ d \in BOOLEAN
  BY DEF IntegrationRows
<1>2. /\ a \in IntegrationRows
      /\ a.id = row.id /\ a.kind = row.kind /\ a.url = t.copy
      /\ a.isDefault = row.isDefault
  BY DEF IntegrationRows
<1>. HIDE DEF s, d, a
<1>3. /\ b \in IntegrationRows
      /\ b.id = row.id /\ b.kind = row.kind /\ b.url = t.copy /\ b.secretFor = s
      /\ b.isDefault = row.isDefault
  BY <1>1, <1>2 DEF IntegrationRows
<1>. HIDE DEF b
<1>4. /\ c \in IntegrationRows
      /\ c.id = row.id /\ c.kind = row.kind /\ c.url = t.copy /\ c.secretFor = s /\ c.isDefault = d
  BY <1>1, <1>3 DEF IntegrationRows
<1>5. Patched(row, t) = c
  BY DEF Patched, a, b, s, d
<1>. QED
  BY <1>4, <1>5 DEF s, d

-----------------------------------------------------------------------------
(* The inductive invariant.                                                *)

\* Ids are unique in a table, and a row that a request made is of one that was
\* answered.
IdsInv ==
  /\ \A i, j \in integrations : i.id = j.id => i = j
  /\ \A p, r \in projects : p.id = r.id => p = r
  /\ \A r \in integrations \cup projects : r.id \in Edits =>
       task[r.id] # NoTask /\ task[r.id].answer = "ok"

\* What the database enforces and the requests in flight rely on.
RowsInv ==
  /\ OneDefault(integrations)
  /\ \A r \in repos : ProjectRow(r.project) # {}

\* What a request has checked or read still holds.
Checked(q) ==
  LET t == task[q] IN
  /\ t.op = "patchIntegration" /\ t.step = "write" =>
       \A row \in IntegrationRow(t.id) : ~t.secret => t.copy = row.url
  /\ t.op = "deleteIntegration" /\ t.step = "write" => UsersOfIntegration(t.id) = {}
  /\ t.op = "createProject" => IntegrationRow(t.integration) # {}
  /\ t.op = "patchProject" /\ t.step = "write" =>
       \A row \in ProjectRow(t.id) : t.copy = Merged(row.templates, t.keys, q)
  /\ t.op = "deleteProject" /\ t.step = "write" => UsersOfProject(t.id) = {}
  /\ t.op \in {"createRepo", "patchRepo"} => Referable(t)

CheckedInv == \A q \in Edits : Live(q) /\ ~task[q].overtaken => Checked(q)

ConfigInv == ConfigTypeOK /\ IdsInv /\ RowsInv /\ CheckedInv

-----------------------------------------------------------------------------
(* What a step does to the rows.                                           *)

\* A row beside one that was stored: its default may have been cleared.
Beside(i, new) ==
  IF new.isDefault /\ i.kind = new.kind THEN [i EXCEPT !.isDefault = FALSE] ELSE i

\* The rows with one added or replaced.
Replacement(new, rows) ==
  \A r \in rows : r = new \/ \E i \in integrations : i.id # new.id /\ r = Beside(i, new)

CreatedBy(q, new) ==
  task[q].op = "createIntegration" /\ new.id = q /\ new.secretFor = new.url
PatchedBy(q, new) ==
  /\ task[q].op = "patchIntegration" /\ task[q].step = "write"
  /\ \E row \in IntegrationRow(task[q].id) : new = Patched(row, task[q])

LEMMA BesideRow ==
  ASSUME NEW i \in IntegrationRows, NEW new \in IntegrationRows
  PROVE  /\ Beside(i, new) \in IntegrationRows
         /\ Beside(i, new).id = i.id /\ Beside(i, new).kind = i.kind
         /\ Beside(i, new).url = i.url /\ Beside(i, new).secretFor = i.secretFor
         /\ Beside(i, new).isDefault =>
              i.isDefault /\ ~(new.isDefault /\ i.kind = new.kind)
BY DEF Beside, IntegrationRows

LEMMA ClearedIsBeside ==
  ASSUME NEW new, NEW kind, NEW id, new.kind = kind, new.id = id, new.isDefault,
         NEW r \in DefaultCleared(kind, id)
  PROVE  \E i \in integrations :
           r = IF i.id # id THEN Beside(i, new) ELSE i
<1>1. PICK i \in integrations :
        r = IF i.kind = kind /\ i.id # id THEN [i EXCEPT !.isDefault = FALSE] ELSE i
  BY DEF DefaultCleared
<1>. QED
  BY <1>1 DEF Beside

LEMMA OneDefaultKept ==
  ASSUME ConfigTypeOK, OneDefault(integrations), NEW new \in IntegrationRows, NEW rows,
         Replacement(new, rows)
  PROVE  OneDefault(rows)
<1>. SUFFICES ASSUME NEW a \in rows, NEW b \in rows, a.isDefault, b.isDefault, a.kind = b.kind
              PROVE  a = b
  BY DEF OneDefault
<1>1. ASSUME NEW r \in rows, NEW i \in integrations, r = Beside(i, new), r.isDefault
      PROVE  r = i /\ i.isDefault /\ ~(new.isDefault /\ r.kind = new.kind)
  BY <1>1, BesideRow DEF Beside, ConfigTypeOK
<1>. QED
  BY <1>1 DEF Replacement, OneDefault

LEMMA IntegrationStep ==
  ASSUME ConfigTypeOK, IdsInv, NEW q \in Edits, CreateIntegration(q) \/ WriteIntegration(q)
  PROVE  /\ Live(q) /\ UNCHANGED <<projects, repos>>
         /\ \/ Quiet /\ (AnswerTask(q, "refused") \/ AnswerTask(q, "missing"))
            \/ \E new \in IntegrationRows, rows \in SUBSET IntegrationRows :
                 /\ Replacement(new, rows) /\ StoreIntegrations(q, rows)
                 /\ CreatedBy(q, new) \/ PatchedBy(q, new)
<1>1. Live(q) /\ UNCHANGED <<projects, repos>> /\ task[q] \in Task
  BY LiveInStep, LiveIsTask DEF CreateIntegration, WriteIntegration, Live
<1>2. ASSUME NEW new \in IntegrationRows, NEW rows, Replacement(new, rows)
      PROVE  rows \in SUBSET IntegrationRows
  BY <1>2, BesideRow DEF Replacement, ConfigTypeOK
<1>3. CASE CreateIntegration(q)
  <2>. DEFINE t == task[q]
              row == [id |-> q, kind |-> t.id, url |-> t.url, secretFor |-> t.url,
                      isDefault |-> t.isDefault = "yes"]
              rows == (IF row.isDefault THEN DefaultCleared(t.id, q) ELSE integrations) \cup {row}
  <2>1. /\ row \in IntegrationRows /\ row.id = q /\ row.kind = t.id
        /\ row.secretFor = row.url
    BY <1>1, EditsAreNames DEF IntegrationRows, Task
  <2>2. \/ AnswerTask(q, "refused") /\ UNCHANGED integrations
        \/ StoreIntegrations(q, rows)
    BY <1>3 DEF CreateIntegration
  <2>3. t.op = "createIntegration"
    BY <1>3, LiveInStep DEF CreateIntegration
  <2>. HIDE DEF row
  <2>4. \A i \in integrations : i.id # q
    BY <1>1 DEF IdsInv, Live
  <2>5. Replacement(row, rows)
    <3>1. CASE row.isDefault
      BY <2>1, <2>4, <3>1, ClearedIsBeside DEF Replacement
    <3>2. CASE ~row.isDefault
      BY <2>1, <2>4, <3>2 DEF Replacement, Beside
    <3>. QED
      BY <3>1, <3>2
  <2>. HIDE DEF rows
  <2>. QED
    BY <1>1, <1>2, <2>1, <2>2, <2>3, <2>5 DEF Quiet, CreatedBy
<1>4. CASE WriteIntegration(q)
  <2>1. CASE UNCHANGED integrations /\ AnswerTask(q, "missing")
    BY <1>1, <2>1 DEF Quiet
  <2>2. ASSUME NEW row \in IntegrationRow(task[q].id), NEW rows, StoreIntegrations(q, rows),
               NEW new, new = Patched(row, task[q]),
               rows = ((IF new.isDefault THEN DefaultCleared(row.kind, row.id)
                        ELSE integrations) \ {row}) \cup {new}
        PROVE  /\ new \in IntegrationRows /\ Replacement(new, rows) /\ PatchedBy(q, new)
    <3>1. task[q].op = "patchIntegration" /\ task[q].step = "write"
      BY <1>4, LiveInStep DEF WriteIntegration
    <3>2. row \in integrations /\ row \in IntegrationRows
      BY DEF IntegrationRow, ConfigTypeOK
    <3>3. task[q].copy \in Name
      BY <1>1, <3>1 DEF ConfigTypeOK, Live
    <3>4. new \in IntegrationRows /\ new.id = row.id /\ new.kind = row.kind
      BY <1>1, <2>2, <3>2, <3>3, PatchedRow
    <3>5. ASSUME NEW r \in rows, r # new
          PROVE  \E i \in integrations : i.id # new.id /\ r = Beside(i, new)
      <4>1. CASE new.isDefault
        <5>1. r \in DefaultCleared(row.kind, row.id) /\ r # row
          BY <2>2, <3>5, <4>1
        <5>2. PICK i \in integrations : r = IF i.id # row.id THEN Beside(i, new) ELSE i
          BY <3>4, <4>1, <5>1, ClearedIsBeside
        <5>3. i.id # row.id
          BY <3>2, <5>1, <5>2 DEF IdsInv
        <5>. QED
          BY <3>4, <5>2, <5>3
      <4>2. CASE ~new.isDefault
        BY <2>2, <3>2, <3>4, <3>5, <4>2 DEF IdsInv, Beside
      <4>. QED
        BY <4>1, <4>2
    <3>. QED
      BY <2>2, <3>1, <3>4, <3>5 DEF Replacement, PatchedBy
  <2>3. CASE \E row \in IntegrationRow(task[q].id) :
               StoreIntegrations(q,
                 ((IF Patched(row, task[q]).isDefault THEN DefaultCleared(row.kind, row.id)
                   ELSE integrations) \ {row}) \cup {Patched(row, task[q])})
    <3>1. PICK row \in IntegrationRow(task[q].id) :
            StoreIntegrations(q,
              ((IF Patched(row, task[q]).isDefault THEN DefaultCleared(row.kind, row.id)
                ELSE integrations) \ {row}) \cup {Patched(row, task[q])})
      BY <2>3
    <3>2. PICK new : new = Patched(row, task[q])
      OBVIOUS
    <3>3. PICK rows : rows = ((IF new.isDefault THEN DefaultCleared(row.kind, row.id)
                               ELSE integrations) \ {row}) \cup {new}
      OBVIOUS
    <3>4. StoreIntegrations(q, rows)
      BY <3>1, <3>2, <3>3
    <3>. QED
      BY <1>1, <1>2, <2>2, <3>2, <3>3, <3>4
  <2>. QED
    BY <1>4, <2>1, <2>3 DEF WriteIntegration, Patched
<1>. QED
  BY <1>3, <1>4

-----------------------------------------------------------------------------
(* The rows after a step.                                                  *)

\* One disjunct for each statement that stores rows.
IntegrationStored(q) ==
  /\ \E new \in IntegrationRows :
       Replacement(new, integrations') /\ (CreatedBy(q, new) \/ PatchedBy(q, new))
  /\ UNCHANGED <<projects, repos>>
IntegrationDropped(q) ==
  integrations' \subseteq integrations /\ UNCHANGED <<projects, repos>>
  /\ task[q].op = "deleteIntegration"
ProjectStored(q) ==
  /\ task[q].op = "createProject"
  /\ \E row \in ProjectRows : row.id = q /\ projects' = projects \cup {row}
  /\ UNCHANGED <<integrations, repos>>
TemplatesStored(q) ==
  /\ task[q].op = "patchProject" /\ task[q].step = "write" /\ task[q].copy \in Templates
  /\ projects' = {IF p.id = task[q].id THEN [p EXCEPT !.templates = task[q].copy] ELSE p : p \in projects}
  /\ UNCHANGED <<integrations, repos>>
ProjectDropped(q) ==
  /\ projects' = projects \ ProjectRow(task[q].id)
  /\ \A r \in repos : r.project # task[q].id
  /\ task[q].op = "deleteProject"
  /\ UNCHANGED <<integrations, repos>>
RepoStored(q) ==
  /\ repos' \subseteq RepoRows
  /\ \A r \in repos' : r \in repos \/ ProjectRow(r.project) # {}
  /\ task[q].op \in {"createRepo", "patchRepo", "deleteRepo"}
  /\ UNCHANGED <<integrations, projects>>

RowsStored(q) ==
  \/ IntegrationStored(q) \/ IntegrationDropped(q) \/ ProjectStored(q) \/ TemplatesStored(q)
  \/ ProjectDropped(q) \/ RepoStored(q)

LEMMA RowStep ==
  ASSUME ConfigTypeOK, IdsInv, RowsInv, ConfigNext
  PROVE  Quiet \/ \E q \in Edits : Stores(q) /\ task'[q] = Answered(q, "ok") /\ RowsStored(q)
<1>. DEFINE Goal == Quiet \/ \E q \in Edits : Stores(q) /\ task'[q] = Answered(q, "ok") /\ RowsStored(q)
<1>. SUFFICES Goal
  OBVIOUS
<1>a. ASSUME NEW q \in Edits, Live(q), Stored(q, Answered(q, "ok")), RowsStored(q) PROVE Goal
  BY <1>a, StoredTask DEF Stores, Goal
<1>b. ASSUME Quiet PROVE Goal
  BY <1>b DEF Goal
<1>. HIDE DEF Goal
<1>. SUFFICES ASSUME NEW q \in Edits,
                \/ AskTask(q) \/ CreateIntegration(q) \/ ReadIntegration(q) \/ WriteIntegration(q)
                \/ CountReferences(q) \/ DeleteIntegration(q)
                \/ CreateProject(q) \/ ReadProject(q) \/ WriteProject(q)
                \/ CountMonitoredRepos(q) \/ DeleteProject(q)
                \/ CreateRepo(q) \/ UpdateRepo(q) \/ DeleteRepo(q)
              PROVE  Goal
  BY DEF ConfigNext
<1>1. CASE AskTask(q) \/ ReadIntegration(q) \/ CountReferences(q) \/ ReadProject(q) \/ CountMonitoredRepos(q)
  BY <1>1, <1>b
  DEF AskTask, ReadIntegration, CountReferences, ReadProject, CountMonitoredRepos, Quiet
<1>2. CASE CreateIntegration(q) \/ WriteIntegration(q)
  <2>1. /\ Live(q) /\ UNCHANGED <<projects, repos>>
        /\ \/ Quiet
           \/ \E new \in IntegrationRows, rows \in SUBSET IntegrationRows :
                /\ Replacement(new, rows) /\ StoreIntegrations(q, rows)
                /\ CreatedBy(q, new) \/ PatchedBy(q, new)
    BY <1>2, IntegrationStep
  <2>2. ASSUME NEW new \in IntegrationRows, NEW rows \in SUBSET IntegrationRows,
               Replacement(new, rows), StoreIntegrations(q, rows),
               CreatedBy(q, new) \/ PatchedBy(q, new)
        PROVE  Goal
    <3>1. integrations' = rows /\ Stored(q, Answered(q, "ok"))
      BY <2>2, OneDefaultKept DEF StoreIntegrations, RowsInv
    <3>2. RowsStored(q)
      BY <2>1, <2>2, <3>1 DEF RowsStored, IntegrationStored, Replacement
    <3>. QED
      BY <2>1, <3>1, <3>2, <1>a
  <2>. QED
    BY <2>1, <2>2, <1>b
<1>3. CASE DeleteIntegration(q)
  BY <1>3, <1>a, <1>b, LiveInStep DEF DeleteIntegration, Quiet, RowsStored, IntegrationDropped
<1>4. CASE CreateProject(q)
  <2>1. Live(q) /\ task[q].op = "createProject" /\ task[q] \in Task
    BY <1>4, LiveInStep, LiveIsTask DEF CreateProject, Live
  <2>2. PICK row : row = [id |-> q, integration |-> task[q].integration,
                          templates |-> [k \in TemplateKeys |-> q]]
    OBVIOUS
  <2>3. row \in ProjectRows /\ row.id = q
    BY <2>1, <2>2, EditsAreNames DEF Task, ProjectRows, Templates
  <2>4. UNCHANGED <<integrations, repos>>
        /\ \/ UNCHANGED projects
           \/ projects' = projects \cup {row} /\ Stored(q, Answered(q, "ok"))
    BY <1>4, <2>2 DEF CreateProject
  <2>. QED
    BY <2>1, <2>3, <2>4, <1>a, <1>b DEF Quiet, RowsStored, ProjectStored
<1>5. CASE WriteProject(q)
  <2>1. Live(q) /\ task[q].op = "patchProject" /\ task[q].step = "write"
    BY <1>5, LiveInStep DEF WriteProject
  <2>2. task[q].copy \in Templates
    BY <2>1 DEF ConfigTypeOK, Live
  <2>. QED
    BY <1>5, <2>1, <2>2, <1>a, <1>b DEF WriteProject, Quiet, RowsStored, TemplatesStored
<1>6. CASE DeleteProject(q)
  BY <1>6, <1>a, <1>b, LiveInStep DEF DeleteProject, Quiet, RowsStored, ProjectDropped
<1>7. CASE CreateRepo(q)
  <2>1. Live(q) /\ task[q].op = "createRepo" /\ task[q] \in Task
    BY <1>7, LiveInStep, LiveIsTask DEF CreateRepo, Live
  <2>2. PICK row : row = [id |-> q, integration |-> task[q].integration, project |-> task[q].project]
    OBVIOUS
  <2>3. row \in RepoRows /\ row.project = task[q].project
    BY <2>1, <2>2, EditsAreNames DEF Task, RepoRows
  <2>4. UNCHANGED <<integrations, projects>>
        /\ \/ UNCHANGED repos
           \/ repos' = repos \cup {row} /\ Referable(task[q]) /\ Stored(q, Answered(q, "ok"))
    BY <1>7, <2>2 DEF CreateRepo
  <2>5. repos \subseteq RepoRows
    BY DEF ConfigTypeOK
  <2>. QED
    BY <2>1, <2>3, <2>4, <2>5, <1>a, <1>b DEF Quiet, RowsStored, RepoStored, Referable
<1>8. CASE UpdateRepo(q)
  <2>1. Live(q) /\ task[q].op = "patchRepo" /\ task[q] \in Task
    BY <1>8, LiveInStep, LiveIsTask DEF UpdateRepo, Live
  <2>2. UNCHANGED <<integrations, projects>>
        /\ \/ UNCHANGED repos
           \/ /\ \E row \in SUBSET repos :
                   repos' = (repos \ row) \cup {Repointed(r, task[q]) : r \in row}
              /\ Referable(task[q]) /\ Stored(q, Answered(q, "ok"))
    BY <1>8 DEF UpdateRepo
  <2>3. ASSUME NEW r \in repos
        PROVE  /\ Repointed(r, task[q]) \in RepoRows
               /\ Repointed(r, task[q]).project = task[q].project
    BY <2>1, <2>3 DEF ConfigTypeOK, RepoRows, Task, Repointed
  <2>4. repos \subseteq RepoRows
    BY DEF ConfigTypeOK
  <2>5. CASE UNCHANGED repos
    BY <2>2, <2>5, <1>b DEF Quiet
  <2>6. CASE ~UNCHANGED repos
    <3>1. ASSUME NEW r \in repos' PROVE r \in RepoRows /\ (r \in repos \/ ProjectRow(r.project) # {})
      BY <2>2, <2>3, <2>4, <2>6, <3>1 DEF Referable
    <3>. QED
      BY <2>1, <2>2, <2>6, <3>1, <1>a DEF RowsStored, RepoStored
  <2>. QED
    BY <2>5, <2>6
<1>9. CASE DeleteRepo(q)
  <2>1. repos \subseteq RepoRows
    BY DEF ConfigTypeOK
  <2>. QED
    BY <1>9, <2>1, <1>a, <1>b, LiveInStep DEF DeleteRepo, Quiet, RowsStored, RepoStored
<1>. QED
  BY <1>1, <1>2, <1>3, <1>4, <1>5, <1>6, <1>7, <1>8, <1>9

LEMMA PatchedTyped ==
  ASSUME ConfigTypeOK, NEW q \in Edits, Live(q), NEW new, PatchedBy(q, new)
  PROVE  \E row \in IntegrationRows :
           /\ row \in integrations /\ row.id = task[q].id
           /\ new = Patched(row, task[q]) /\ new \in IntegrationRows
           /\ new.id = row.id /\ new.kind = row.kind /\ new.url = task[q].copy
           /\ new.secretFor = IF task[q].secret THEN task[q].copy ELSE row.secretFor
           /\ new.isDefault = IF task[q].isDefault = Keep THEN row.isDefault
                              ELSE task[q].isDefault = "yes"
<1>1. PICK row \in IntegrationRow(task[q].id) : new = Patched(row, task[q])
  BY DEF PatchedBy
<1>2. row \in integrations /\ row.id = task[q].id /\ row \in IntegrationRows
  BY DEF IntegrationRow, ConfigTypeOK
<1>3. task[q] \in Task /\ task[q].copy \in Name
  BY LiveIsTask DEF PatchedBy, Live, ConfigTypeOK
<1>. QED
  BY <1>1, <1>2, <1>3, PatchedRow

LEMMA TypeStep ==
  ASSUME ConfigTypeOK, IdsInv, RowsInv, ConfigNext
  PROVE  ConfigTypeOK'
<1>1. task' \in [Edits -> {NoTask} \cup Task]
  BY RequestStep DEF ConfigNext
<1>2. \A q \in Edits : task'[q] # NoTask /\ task'[q].step = "write" =>
        /\ task'[q].op = "patchIntegration" => task'[q].copy \in Name
        /\ task'[q].op = "patchProject" => task'[q].copy \in Templates
  BY CopyTyped
<1>3. /\ integrations' \subseteq IntegrationRows /\ projects' \subseteq ProjectRows
      /\ repos' \subseteq RepoRows
  <2>1. CASE Quiet
    BY <2>1 DEF Quiet, ConfigTypeOK
  <2>2. ASSUME NEW q \in Edits, RowsStored(q)
        PROVE  /\ integrations' \subseteq IntegrationRows /\ projects' \subseteq ProjectRows
               /\ repos' \subseteq RepoRows
    <3>1. CASE IntegrationStored(q)
      BY <3>1, BesideRow DEF IntegrationStored, Replacement, ConfigTypeOK
    <3>2. CASE IntegrationDropped(q) \/ ProjectStored(q) \/ ProjectDropped(q) \/ RepoStored(q)
      BY <3>2 DEF IntegrationDropped, ProjectStored, ProjectDropped, RepoStored, ConfigTypeOK
    <3>3. CASE TemplatesStored(q)
      <4>1. ASSUME NEW p \in projects
            PROVE  [p EXCEPT !.templates = task[q].copy] \in ProjectRows /\ p \in ProjectRows
        BY <3>3 DEF TemplatesStored, ConfigTypeOK, ProjectRows
      <4>2. projects' \subseteq ProjectRows
        BY <3>3, <4>1 DEF TemplatesStored
      <4>. QED
        BY <3>3, <4>2 DEF TemplatesStored, ConfigTypeOK
    <3>. QED
      BY <2>2, <3>1, <3>2, <3>3 DEF RowsStored
  <2>. QED
    BY <2>1, <2>2, RowStep
<1>. QED
  BY <1>1, <1>2, <1>3 DEF ConfigTypeOK

\* The ids and the templates of the projects after a PATCH.
LEMMA TemplatesStep ==
  ASSUME ConfigTypeOK, NEW q \in Edits, TemplatesStored(q), NEW r \in projects'
  PROVE  \E p \in projects :
           /\ r.id = p.id
           /\ r = IF p.id = task[q].id THEN [p EXCEPT !.templates = task[q].copy] ELSE p
           /\ r.templates = IF p.id = task[q].id THEN task[q].copy ELSE p.templates
<1>1. PICK p \in projects :
        r = IF p.id = task[q].id THEN [p EXCEPT !.templates = task[q].copy] ELSE p
  BY DEF TemplatesStored
<1>2. p \in ProjectRows
  BY DEF ConfigTypeOK
<1>. QED
  BY <1>1, <1>2 DEF ProjectRows

LEMMA IdsStep ==
  ASSUME ConfigTypeOK, IdsInv, RowsInv, ConfigNext
  PROVE  IdsInv'
<1>1. ASSUME NEW p \in Edits, task[p] # NoTask, task[p].answer = "ok"
      PROVE  task'[p] # NoTask /\ task'[p].answer = "ok"
  BY <1>1, TaskStep
<1>2. CASE Quiet
  BY <1>1, <1>2 DEF Quiet, IdsInv
<1>3. ASSUME NEW q \in Edits, Stores(q), task'[q] = Answered(q, "ok"), RowsStored(q)
      PROVE  IdsInv'
  <2>1. task'[q] # NoTask /\ task'[q].answer = "ok"
    BY <1>3, AnsweredTask, NoTaskIsNoTask DEF Stores
  <2>2. Live(q)
    BY <1>3 DEF Stores
  <2>3. CASE IntegrationStored(q)
    <3>1. PICK new \in IntegrationRows :
            Replacement(new, integrations') /\ (CreatedBy(q, new) \/ PatchedBy(q, new))
      BY <2>3 DEF IntegrationStored
    <3>2. new.id = q \/ \E i \in integrations : new.id = i.id
      BY <2>2, <3>1, PatchedTyped DEF CreatedBy
    <3>3. \A r \in integrations' : r = new \/ \E i \in integrations :
            i.id # new.id /\ r = Beside(i, new) /\ r.id = i.id
      BY <3>1, BesideRow DEF Replacement, ConfigTypeOK
    <3>4. \A i, j \in integrations' : i.id = j.id => i = j
      BY <3>3 DEF IdsInv
    <3>5. \A r \in integrations' : r.id \in Edits => task'[r.id] # NoTask /\ task'[r.id].answer = "ok"
      BY <1>1, <2>1, <3>2, <3>3 DEF IdsInv
    <3>. QED
      BY <1>1, <2>3, <3>4, <3>5 DEF IdsInv, IntegrationStored
  <2>4. CASE IntegrationDropped(q) \/ ProjectDropped(q) \/ RepoStored(q)
    BY <1>1, <2>4 DEF IntegrationDropped, ProjectDropped, RepoStored, IdsInv
  <2>5. CASE ProjectStored(q)
    <3>1. PICK row \in ProjectRows : row.id = q /\ projects' = projects \cup {row}
      BY <2>5 DEF ProjectStored
    <3>2. \A p \in projects : p.id # q
      BY <2>2 DEF IdsInv, Live
    <3>. QED
      BY <1>1, <2>1, <2>5, <3>1, <3>2 DEF ProjectStored, IdsInv
  <2>6. CASE TemplatesStored(q)
    <3>1. \A p, r \in projects' : p.id = r.id => p = r
      BY <2>6, TemplatesStep DEF IdsInv
    <3>2. \A r \in projects' : r.id \in Edits => task'[r.id] # NoTask /\ task'[r.id].answer = "ok"
      BY <1>1, <2>6, TemplatesStep DEF IdsInv
    <3>. QED
      BY <1>1, <2>6, <3>1, <3>2 DEF TemplatesStored, IdsInv
  <2>. QED
    BY <1>3, <2>3, <2>4, <2>5, <2>6 DEF RowsStored
<1>. QED
  BY <1>2, <1>3, RowStep

LEMMA RowsInvStep ==
  ASSUME ConfigTypeOK, IdsInv, RowsInv, ConfigNext
  PROVE  RowsInv'
<1>1. CASE Quiet
  BY <1>1 DEF Quiet, RowsInv, OneDefault, ProjectRow
<1>2. ASSUME NEW q \in Edits, RowsStored(q)
      PROVE  RowsInv'
  <2>1. OneDefault(integrations')
    <3>1. CASE IntegrationStored(q)
      BY <3>1, OneDefaultKept DEF IntegrationStored, RowsInv
    <3>2. CASE IntegrationDropped(q) \/ UNCHANGED integrations
      BY <3>2 DEF IntegrationDropped, RowsInv, OneDefault
    <3>. QED
      BY <1>2, <3>1, <3>2 DEF RowsStored, ProjectStored, TemplatesStored, ProjectDropped, RepoStored
  <2>2. ASSUME NEW r \in repos' PROVE \E p \in projects' : p.id = r.project
    <3>1. CASE IntegrationStored(q) \/ IntegrationDropped(q) \/ ProjectStored(q)
      BY <3>1 DEF IntegrationStored, IntegrationDropped, ProjectStored, RowsInv, ProjectRow
    <3>2. CASE ProjectDropped(q)
      BY <3>2 DEF ProjectDropped, RowsInv, ProjectRow
    <3>3. CASE RepoStored(q)
      BY <3>3 DEF RepoStored, RowsInv, ProjectRow
    <3>4. CASE TemplatesStored(q)
      <4>1. PICK p \in projects : p.id = r.project
        BY <3>4 DEF TemplatesStored, RowsInv, ProjectRow
      <4>2. PICK s : s = IF p.id = task[q].id THEN [p EXCEPT !.templates = task[q].copy] ELSE p
        OBVIOUS
      <4>3. s \in projects'
        BY <3>4, <4>2 DEF TemplatesStored
      <4>4. s.id = p.id
        BY <4>2 DEF ConfigTypeOK, ProjectRows
      <4>. QED
        BY <4>1, <4>3, <4>4
    <3>. QED
      BY <1>2, <3>1, <3>2, <3>3, <3>4 DEF RowsStored
  <2>3. (\A r \in repos : ProjectRow(r.project) # {})'
    BY <2>2 DEF ProjectRow
  <2>. QED
    BY <2>1, <2>3 DEF RowsInv, OneDefault
<1>. QED
  BY <1>1, <1>2, RowStep

\* What is read or checked holds as long as nobody stores rows.
LEMMA AskedIsChecked ==
  ASSUME RowsInv, NEW q \in Edits, Asks(q), task'[q].step = "read"
  PROVE  Checked(q)'
<1>1. PICK t : t = task'[q]
  OBVIOUS
<1>2. /\ t.op = "createProject" => IntegrationRow(t.integration) # {}
      /\ t.op \in {"createRepo", "patchRepo"} => Referable(t)
  BY <1>1 DEF Asks, AsksRight, Referable, RowsInv
<1>3. /\ t.op = "createProject" => IntegrationRow(t.integration)' # {}
      /\ t.op \in {"createRepo", "patchRepo"} => Referable(t)'
  BY <1>2 DEF Asks, Quiet, Referable, IntegrationRow, ProjectRow
<1>. QED
  BY <1>1, <1>3 DEF Checked, Referable, IntegrationRow, ProjectRow

LEMMA ReadIsChecked ==
  ASSUME ConfigTypeOK, IdsInv, NEW q \in Edits, Reads(q), Checked(q)
  PROVE  Checked(q)'
<1>1. task[q] \in Task /\ Live(q) /\ task[q].step = "read"
  BY LiveIsTask DEF Reads, Live
<1>2. PICK c \in Name \cup Templates : task'[q] = [task[q] EXCEPT !.step = "write", !.copy = c]
  BY DEF Reads
<1>3. /\ task'[q].op = task[q].op /\ task'[q].id = task[q].id /\ task'[q].secret = task[q].secret
      /\ task'[q].keys = task[q].keys /\ task'[q].integration = task[q].integration
      /\ task'[q].project = task[q].project /\ task'[q].copy = c /\ task'[q].step = "write"
  BY <1>1, <1>2 DEF Task
<1>4. Quiet
  BY DEF Reads
<1>5. CASE ReadIntegration(q)
  <2>1. task[q].op = "patchIntegration"
    BY <1>5, LiveInStep DEF ReadIntegration
  <2>2. \A a : task'[q] # Answered(q, a)
    BY <1>1, <1>3 DEF Answered, Task
  <2>3. task \in [Edits -> {NoTask} \cup Task]
    BY DEF ConfigTypeOK
  <2>4. PICK url :
          /\ \E row \in IntegrationRow(task[q].id) : ~task[q].secret => url = row.url
          /\ task'[q] = [task[q] EXCEPT !.step = "write", !.copy = url]
    BY <1>5, <2>2, <2>3 DEF ReadIntegration, AnswerTask, NextStep
  <2>5. c = url
    BY <1>1, <1>3, <2>4 DEF Task
  <2>6. \A r \in IntegrationRow(task[q].id) : ~task[q].secret => c = r.url
    BY <2>4, <2>5 DEF IntegrationRow, IdsInv
  <2>. QED
    BY <1>3, <1>4, <2>1, <2>6 DEF Checked, Quiet, IntegrationRow
<1>6. CASE ReadProject(q)
  <2>1. task[q].op = "patchProject"
    BY <1>6, LiveInStep DEF ReadProject
  <2>2. \A a : task'[q] # Answered(q, a)
    BY <1>1, <1>3 DEF Answered, Task
  <2>3. task \in [Edits -> {NoTask} \cup Task]
    BY DEF ConfigTypeOK
  <2>4. PICK m :
          /\ \E row \in ProjectRow(task[q].id) : m = Merged(row.templates, task[q].keys, q)
          /\ task'[q] = [task[q] EXCEPT !.step = "write", !.copy = m]
    BY <1>6, <2>2, <2>3 DEF ReadProject, AnswerTask, NextStep
  <2>5. c = m
    BY <1>1, <1>3, <2>4 DEF Task
  <2>6. \A r \in ProjectRow(task[q].id) : c = Merged(r.templates, task[q].keys, q)
    BY <2>4, <2>5 DEF ProjectRow, IdsInv
  <2>. QED
    BY <1>3, <1>4, <2>1, <2>6 DEF Checked, Quiet, ProjectRow
<1>7. CASE CountReferences(q)
  <2>1. task[q].op = "deleteIntegration"
    BY <1>7, LiveInStep DEF CountReferences
  <2>2. \A a : task'[q] # Answered(q, a)
    BY <1>1, <1>3 DEF Answered, Task
  <2>3. UsersOfIntegration(task[q].id) = {}
    BY <1>7, <2>2 DEF CountReferences, AnswerTask, ConfigTypeOK
  <2>. QED
    BY <1>3, <1>4, <2>1, <2>3 DEF Checked, Quiet, UsersOfIntegration
<1>8. CASE CountMonitoredRepos(q)
  <2>1. task[q].op = "deleteProject"
    BY <1>8, LiveInStep DEF CountMonitoredRepos
  <2>2. \A a : task'[q] # Answered(q, a)
    BY <1>1, <1>3 DEF Answered, Task
  <2>3. UsersOfProject(task[q].id) = {}
    BY <1>8, <2>2 DEF CountMonitoredRepos, AnswerTask, ConfigTypeOK
  <2>. QED
    BY <1>3, <1>4, <2>1, <2>3 DEF Checked, Quiet, UsersOfProject
<1>. QED
  BY <1>5, <1>6, <1>7, <1>8 DEF Reads

LEMMA CheckedStep ==
  ASSUME ConfigInv, ConfigNext
  PROVE  CheckedInv'
<1>. SUFFICES ASSUME NEW q \in Edits, Live(q)', ~task'[q].overtaken
              PROVE  Checked(q)'
  BY DEF CheckedInv
<1>1. /\ Quiet
      /\ Asks(q) \/ (Reads(q) /\ ~task[q].overtaken) \/ (Live(q) /\ task'[q] = task[q])
  BY NotOvertaken DEF ConfigInv
<1>2. CASE Asks(q)
  BY <1>2, AskedIsChecked DEF Asks, AsksRight, ConfigInv
<1>3. CASE Reads(q) /\ ~task[q].overtaken
  BY <1>3, ReadIsChecked DEF Reads, ConfigInv, CheckedInv
<1>4. CASE Live(q) /\ task'[q] = task[q]
  <2>1. Checked(q)
    BY <1>1, <1>4 DEF ConfigInv, CheckedInv
  <2>. QED
    BY <1>1, <1>4, <2>1
    DEF Checked, Quiet, IntegrationRow, ProjectRow, UsersOfIntegration, UsersOfProject, Referable
<1>. QED
  BY <1>1, <1>2, <1>3, <1>4

-----------------------------------------------------------------------------
(* The invariant is kept.                                                  *)

LEMMA ConfigInvInit == ConfigInit => ConfigInv
<1>. SUFFICES ASSUME ConfigInit PROVE ConfigInv
  OBVIOUS
<1>1. \A q \in Edits : task[q] = NoTask
  BY DEF ConfigInit
<1>2. ConfigTypeOK
  <2>1. integrations \subseteq IntegrationRows
    BY StoredRowsAssumption DEF ConfigInit, IntegrationRows, Name
  <2>2. projects \subseteq ProjectRows
    BY StoredRowsAssumption DEF ConfigInit, ProjectRows, Templates, Name
  <2>3. repos \subseteq RepoRows
    BY StoredRowsAssumption DEF ConfigInit, RepoRows, Name
  <2>. QED
    BY <1>1, <2>1, <2>2, <2>3 DEF ConfigInit, ConfigTypeOK
<1>3. IdsInv
  BY StoredIdsAssumption DEF ConfigInit, IdsInv
<1>4. RowsInv
  BY StoredStateAssumption DEF ConfigInit, RowsInv, ProjectRow
<1>5. CheckedInv
  BY <1>1 DEF CheckedInv, Live
<1>. QED
  BY <1>2, <1>3, <1>4, <1>5 DEF ConfigInv

LEMMA ConfigStutter ==
  ASSUME ConfigInv, UNCHANGED configVars
  PROVE  ConfigInv'
<1>1. UNCHANGED <<integrations, projects, repos, task>>
  BY DEF configVars
<1>2. ConfigTypeOK'
  BY <1>1 DEF ConfigInv, ConfigTypeOK
<1>3. IdsInv' /\ RowsInv'
  BY <1>1 DEF ConfigInv, IdsInv, RowsInv, OneDefault, ProjectRow
<1>4. CheckedInv'
  BY <1>1 DEF ConfigInv, CheckedInv, Checked, Live, IntegrationRow, ProjectRow,
     UsersOfIntegration, UsersOfProject, Referable
<1>. QED
  BY <1>2, <1>3, <1>4 DEF ConfigInv

LEMMA ConfigInvStep == ConfigInv /\ [ConfigNext]_configVars => ConfigInv'
<1>1. ASSUME ConfigInv, ConfigNext PROVE ConfigInv'
  BY <1>1, TypeStep, IdsStep, RowsInvStep, CheckedStep DEF ConfigInv
<1>. QED
  BY <1>1, ConfigStutter

\* What a request in flight has read or checked is still so, for every number of
\* requests, unless another one stored rows meanwhile (handlers/integrations.go,
\* ticket_projects.go, store/monitored_repos.go).
THEOREM ConfigInvariant == ConfigSpec => []ConfigInv
BY ConfigInvInit, ConfigInvStep, PTL DEF ConfigSpec

-----------------------------------------------------------------------------
(* A secret beside another host, and a request turned down.                *)

LEMMA SecretStep ==
  ASSUME ConfigInv, SecretMovedByOverlap, ConfigNext
  PROVE  SecretMovedByOverlap'
<1>1. CASE \E q \in Edits : task[q] # NoTask /\ task[q].op = "patchIntegration" /\ task[q].overtaken
  BY <1>1, TaskStep DEF ConfigInv, SecretMovedByOverlap
<1>2. CASE SecretSentToItsHost
  <2>1. CASE Quiet
    BY <1>2, <2>1 DEF Quiet, SecretMovedByOverlap, SecretSentToItsHost
  <2>2. ASSUME NEW q \in Edits, Stores(q), RowsStored(q)
        PROVE  SecretMovedByOverlap'
    <3>1. CASE IntegrationStored(q)
      <4>1. PICK new \in IntegrationRows :
              Replacement(new, integrations') /\ (CreatedBy(q, new) \/ PatchedBy(q, new))
        BY <3>1 DEF IntegrationStored
      <4>2. \A r \in integrations' : r = new \/ r.secretFor = r.url
        BY <1>2, <4>1, BesideRow DEF Replacement, ConfigInv, ConfigTypeOK, SecretSentToItsHost
      <4>3. CASE new.secretFor = new.url
        BY <4>2, <4>3 DEF SecretMovedByOverlap, SecretSentToItsHost
      <4>4. CASE new.secretFor # new.url
        <5>1. Live(q) /\ PatchedBy(q, new)
          BY <2>2, <4>1, <4>4 DEF Stores, CreatedBy
        <5>2. PICK row \in integrations :
                /\ row.id = task[q].id /\ new.url = task[q].copy
                /\ new.secretFor = IF task[q].secret THEN task[q].copy ELSE row.secretFor
          BY <5>1, PatchedTyped DEF ConfigInv
        <5>3. ~task[q].secret /\ task[q].copy # row.url
          BY <1>2, <4>4, <5>2 DEF SecretSentToItsHost
        <5>4. ~Checked(q)
          BY <5>1, <5>2, <5>3 DEF Checked, IntegrationRow, PatchedBy
        <5>5. task[q].overtaken /\ task[q].op = "patchIntegration" /\ task[q] # NoTask
          BY <5>1, <5>4 DEF ConfigInv, CheckedInv, PatchedBy, Live
        <5>. QED
          BY <5>5, TaskStep DEF ConfigInv, SecretMovedByOverlap
      <4>. QED
        BY <4>3, <4>4
    <3>2. CASE integrations' \subseteq integrations
      BY <1>2, <3>2 DEF SecretMovedByOverlap, SecretSentToItsHost
    <3>. QED
      BY <2>2, <3>1, <3>2
      DEF RowsStored, IntegrationDropped, ProjectStored, TemplatesStored, ProjectDropped, RepoStored
  <2>. QED
    BY <2>1, <2>2, RowStep DEF ConfigInv
<1>. QED
  BY <1>1, <1>2 DEF SecretMovedByOverlap

\* A stored secret stands beside another host than its own only after an overtaken
\* PATCH, for every number of integrations and of requests (integrations.go:179-236).
THEOREM SecretStaysUnlessOvertaken == ConfigSpec => []SecretMovedByOverlap
<1>1. ConfigInit => SecretMovedByOverlap
  BY StoredStateAssumption DEF ConfigInit, SecretMovedByOverlap, SecretSentToItsHost
<1>2. ConfigInv /\ SecretMovedByOverlap /\ [ConfigNext]_configVars => SecretMovedByOverlap'
  <2>1. ASSUME SecretMovedByOverlap, UNCHANGED configVars PROVE SecretMovedByOverlap'
    BY <2>1 DEF configVars, SecretMovedByOverlap, SecretSentToItsHost
  <2>. QED
    BY <2>1, SecretStep
<1>. QED
  BY <1>1, <1>2, ConfigInvariant, PTL DEF ConfigSpec

\* A PATCH of an integration between its check and its write.
Patching(q) == Live(q) /\ task[q].op = "patchIntegration" /\ task[q].step = "write"

\* Nobody edits an integration while another edit of it is under way.
OnePatchAtATime ==
  \A p, q \in Edits : Patching(p) /\ Patching(q) /\ task[p].id = task[q].id => p = q

\* A PATCH of a row that exists or existed, holding the row's URL if it keeps the secret.
HoldsUrl(q) ==
  /\ task[q].id \in Edits => task[task[q].id] # NoTask /\ task[task[q].id].answer = "ok"
  /\ ~task[q].secret => \A row \in IntegrationRow(task[q].id) : row.url = task[q].copy

HostInv == SecretSentToItsHost /\ \A q \in Edits : Patching(q) => HoldsUrl(q)

\* A PATCH is about to write because it has just checked, or it was before.
LEMMA PatchingStep ==
  ASSUME ConfigTypeOK, ConfigNext, NEW p \in Edits, Patching(p)'
  PROVE  \/ Reads(p)
         \/ /\ Patching(p)
            /\ task'[p].id = task[p].id /\ task'[p].secret = task[p].secret
            /\ task'[p].copy = task[p].copy
<1>1. PICK q \in Edits : Asks(q) \/ (\E a \in Refusals : Stops(q, a)) \/ Reads(q) \/ Stores(q)
  BY RequestStep DEF ConfigNext
<1>2. CASE task'[p] = task[p]
  BY <1>2 DEF Patching, Live
<1>3. CASE Live(p) /\ task'[p] = [task[p] EXCEPT !.overtaken = TRUE]
  <2>1. task[p] \in Task
    BY <1>3, LiveIsTask DEF Live
  <2>. QED
    BY <1>3, <2>1 DEF Patching, Live, Task
<1>4. CASE p = q
  <2>1. ASSUME NEW a \in Refusals \cup {"ok"}, Live(p) PROVE task'[p] # Answered(p, a)
    BY <2>1, AnsweredTask DEF Patching, Live, Refusals
  <2>. QED
    BY <1>1, <1>4, <2>1, StoredTask DEF Asks, AsksRight, Stops, Stores, Patching
<1>5. CASE p # q /\ Stores(q)
  BY <1>2, <1>3, <1>5, StoredTask DEF Patching, Live
<1>6. CASE p # q /\ Alone(q)
  BY <1>2, <1>6 DEF Alone
<1>. QED
  BY <1>1, <1>4, <1>5, <1>6 DEF Asks, Stops, Reads

\* The check of a PATCH.
LEMMA ReadHolds ==
  ASSUME ConfigInv, ConfigNext, NEW p \in Edits, Reads(p), Patching(p)'
  PROVE  HoldsUrl(p)'
<1>1. task[p] \in Task /\ Live(p) /\ task[p].step = "read" /\ Quiet
  BY LiveIsTask DEF Reads, Live, ConfigInv
<1>2. PICK c \in Name \cup Templates : task'[p] = [task[p] EXCEPT !.step = "write", !.copy = c]
  BY DEF Reads
<1>3. /\ task'[p].op = task[p].op /\ task'[p].id = task[p].id /\ task'[p].step = "write"
      /\ task[p].op = "patchIntegration"
  BY <1>1, <1>2 DEF Task, Patching
<1>4. Checked(p)'
  <2>1. Checked(p)
    BY <1>1, <1>3 DEF Checked
  <2>. QED
    BY <2>1, ReadIsChecked DEF ConfigInv
<1>5. ReadIntegration(p)
  BY <1>3 DEF Reads, CountReferences, ReadProject, CountMonitoredRepos, InStep
<1>6. IntegrationRow(task[p].id) # {}
  <2>1. task'[p] # Answered(p, "missing")
    BY <1>1, <1>3 DEF Answered, Task
  <2>. QED
    BY <1>5, <2>1 DEF ReadIntegration, AnswerTask, ConfigInv, ConfigTypeOK
<1>7. task[p].id \in Edits => task[task[p].id] # NoTask /\ task[task[p].id].answer = "ok"
  BY <1>6 DEF IntegrationRow, ConfigInv, IdsInv
<1>8. task'[p].id \in Edits => task'[task'[p].id] # NoTask /\ task'[task'[p].id].answer = "ok"
  BY <1>3, <1>7, TaskStep DEF ConfigInv
<1>. QED
  BY <1>4, <1>8 DEF HoldsUrl, Checked, Patching

LEMMA HostStep ==
  ASSUME ConfigInv, HostInv, OnePatchAtATime, ConfigNext
  PROVE  HostInv'
<1>1. ASSUME NEW p \in Edits, Patching(p)', ~Reads(p)
      PROVE  /\ Patching(p) /\ HoldsUrl(p)
             /\ task'[p].id = task[p].id /\ task'[p].secret = task[p].secret
             /\ task'[p].copy = task[p].copy
             /\ task[p].id \in Edits => task'[task[p].id] # NoTask /\ task'[task[p].id].answer = "ok"
  <2>1. /\ Patching(p) /\ HoldsUrl(p)
        /\ task'[p].id = task[p].id /\ task'[p].secret = task[p].secret
        /\ task'[p].copy = task[p].copy
    BY <1>1, PatchingStep DEF ConfigInv, HostInv
  <2>. QED
    BY <2>1, TaskStep DEF HoldsUrl, ConfigInv
<1>2. ASSUME SecretSentToItsHost',
             \A p \in Edits : Patching(p)' /\ ~Reads(p) /\ ~task[p].secret =>
               \A row \in integrations' : row.id = task[p].id => row.url = task[p].copy
      PROVE  HostInv'
  <2>1. ASSUME NEW p \in Edits, Patching(p)' PROVE HoldsUrl(p)'
    <3>1. CASE Reads(p)
      BY <2>1, <3>1, ReadHolds
    <3>2. CASE ~Reads(p)
      BY <1>1, <1>2, <2>1, <3>2 DEF HoldsUrl, IntegrationRow
    <3>. QED
      BY <3>1, <3>2
  <2>. QED
    BY <1>2, <2>1 DEF HostInv
<1>3. CASE integrations' \subseteq integrations
  BY <1>1, <1>2, <1>3 DEF HostInv, SecretSentToItsHost, HoldsUrl, IntegrationRow
<1>4. ASSUME NEW q \in Edits, Stores(q), task'[q] = Answered(q, "ok"), IntegrationStored(q)
      PROVE  HostInv'
  <2>1. PICK new \in IntegrationRows :
          Replacement(new, integrations') /\ (CreatedBy(q, new) \/ PatchedBy(q, new))
    BY <1>4 DEF IntegrationStored
  <2>2. \A r \in integrations' : r = new \/ \E i \in integrations :
          i.id # new.id /\ r.id = i.id /\ r.url = i.url /\ r.secretFor = i.secretFor
    BY <2>1, BesideRow DEF Replacement, ConfigInv, ConfigTypeOK
  <2>3. Live(q)
    BY <1>4 DEF Stores
  <2>4. ASSUME PatchedBy(q, new)
        PROVE  Patching(q) /\ new.id = task[q].id /\ new.secretFor = new.url
    <3>1. Patching(q)
      BY <2>3, <2>4 DEF PatchedBy, Patching
    <3>2. PICK row \in integrations :
            /\ row.id = task[q].id /\ new.id = row.id /\ new.url = task[q].copy
            /\ new.secretFor = IF task[q].secret THEN task[q].copy ELSE row.secretFor
      BY <2>3, <2>4, PatchedTyped DEF ConfigInv
    <3>. QED
      BY <3>1, <3>2 DEF HostInv, HoldsUrl, SecretSentToItsHost, IntegrationRow
  <2>5. SecretSentToItsHost'
    BY <2>1, <2>2, <2>4 DEF CreatedBy, HostInv, SecretSentToItsHost
  <2>6. ASSUME NEW p \in Edits, Patching(p)', ~Reads(p) PROVE task[p].id # new.id
    <3>1. p # q
      BY <1>4, <2>3, <2>6, AnsweredTask DEF Patching, Live, ConfigInv
    <3>2. CASE PatchedBy(q, new)
      BY <1>1, <2>4, <2>6, <3>1, <3>2 DEF OnePatchAtATime
    <3>3. CASE CreatedBy(q, new)
      BY <1>1, <2>3, <2>6, <3>3 DEF CreatedBy, HoldsUrl, Live
    <3>. QED
      BY <2>1, <3>2, <3>3
  <2>. QED
    BY <1>1, <1>2, <2>2, <2>5, <2>6 DEF HoldsUrl, IntegrationRow
<1>. QED
  BY <1>3, <1>4, RowStep
  DEF ConfigInv, Quiet, RowsStored, IntegrationDropped, ProjectStored, TemplatesStored,
      ProjectDropped, RepoStored

\* "The stored secret may only be sent to the host it was entered for"
\* (handlers/integrations.go:205) holds as long as no two PATCHes of the same integration
\* are between their checks and their writes; every other request may come in between.
THEOREM SecretStaysWithOnePatch ==
  ConfigSpec /\ []OnePatchAtATime => []SecretSentToItsHost
<1>1. ConfigInit => HostInv
  BY StoredStateAssumption DEF ConfigInit, HostInv, SecretSentToItsHost, Patching, Live
<1>2. ConfigInv /\ HostInv /\ OnePatchAtATime /\ [ConfigNext]_configVars => HostInv'
  <2>1. ASSUME HostInv, UNCHANGED configVars PROVE HostInv'
    BY <2>1 DEF configVars, HostInv, SecretSentToItsHost, Patching, HoldsUrl, Live, IntegrationRow
  <2>. QED
    BY <2>1, HostStep
<1>3. HostInv => SecretSentToItsHost
  BY DEF HostInv
<1>. QED
  BY <1>1, <1>2, <1>3, ConfigInvariant, PTL DEF ConfigSpec

\* The answer that a step gives.
LEMMA AnswerGiven ==
  ASSUME ConfigTypeOK, NEW q \in Edits, Live(q)
  PROVE  /\ \A a \in Refusals : AnswerTask(q, a) => task'[q].answer = a
         /\ Stored(q, Answered(q, "ok")) => task'[q].answer = "ok"
<1>1. ASSUME NEW a \in Refusals, AnswerTask(q, a) PROVE task'[q].answer = a
  <2>1. task'[q] = Answered(q, a)
    BY <1>1 DEF AnswerTask, ConfigTypeOK
  <2>. QED
    BY <2>1, AnsweredTask
<1>2. ASSUME Stored(q, Answered(q, "ok")) PROVE task'[q].answer = "ok"
  BY <1>2, StoredTask, AnsweredTask DEF Stores
<1>. QED
  BY <1>1, <1>2

LEMMA AloneNeverFails ==
  ASSUME ConfigInv, NEW q \in Edits, Live(q), ~task[q].overtaken,
         \/ AskTask(q) \/ CreateIntegration(q) \/ ReadIntegration(q) \/ WriteIntegration(q)
         \/ CountReferences(q) \/ DeleteIntegration(q)
         \/ CreateProject(q) \/ ReadProject(q) \/ WriteProject(q)
         \/ CountMonitoredRepos(q) \/ DeleteProject(q)
         \/ CreateRepo(q) \/ UpdateRepo(q) \/ DeleteRepo(q)
  PROVE  task'[q].answer # "failed"
<1>. SUFFICES ASSUME task'[q].answer = "failed" PROVE FALSE
  OBVIOUS
<1>1. /\ Checked(q) /\ task[q] \in Task /\ ConfigTypeOK /\ IdsInv
      /\ task \in [Edits -> {NoTask} \cup Task]
  BY LiveIsTask DEF ConfigInv, CheckedInv, Live, ConfigTypeOK
<1>2. /\ ~AnswerTask(q, "refused") /\ ~AnswerTask(q, "missing") /\ ~AnswerTask(q, "conflict")
      /\ ~Stored(q, Answered(q, "ok"))
  BY <1>1, AnswerGiven DEF Refusals
<1>3. ~Reads(q)
  BY <1>1 DEF Reads, Task, Live
<1>4. CASE AskTask(q)
  BY <1>4 DEF AskTask, Live
<1>5. CASE CreateIntegration(q) \/ WriteIntegration(q)
  <2>1. \E new \in IntegrationRows, rows \in SUBSET IntegrationRows :
          Replacement(new, rows) /\ StoreIntegrations(q, rows)
    BY <1>1, <1>2, <1>5, IntegrationStep
  <2>. QED
    BY <1>1, <1>2, <2>1, OneDefaultKept DEF StoreIntegrations, ConfigInv, RowsInv
<1>6. CASE ReadIntegration(q)
  <2>1. PICK url : NextStep(q, [task[q] EXCEPT !.step = "write", !.copy = url])
    BY <1>2, <1>6 DEF ReadIntegration
  <2>. QED
    BY <1>1, <2>1 DEF NextStep, Task, Live
<1>7. CASE CountReferences(q) \/ CountMonitoredRepos(q)
  <2>1. NextStep(q, [task[q] EXCEPT !.step = "write"])
    BY <1>2, <1>7 DEF CountReferences, CountMonitoredRepos
  <2>. QED
    BY <1>1, <2>1 DEF NextStep, Task, Live
<1>8. CASE ReadProject(q)
  <2>1. PICK m : NextStep(q, [task[q] EXCEPT !.step = "write", !.copy = m])
    BY <1>2, <1>8 DEF ReadProject
  <2>. QED
    BY <1>1, <2>1 DEF NextStep, Task, Live
<1>9. CASE DeleteIntegration(q)
  BY <1>1, <1>2, <1>9, LiveInStep DEF DeleteIntegration, Checked, UsersOfIntegration
<1>10. CASE CreateProject(q)
  BY <1>1, <1>2, <1>10, LiveInStep DEF CreateProject, Checked
<1>11. CASE WriteProject(q) \/ DeleteRepo(q)
  BY <1>2, <1>11 DEF WriteProject, DeleteRepo
<1>12. CASE DeleteProject(q)
  BY <1>1, <1>2, <1>12, LiveInStep DEF DeleteProject, Checked, UsersOfProject
<1>13. CASE CreateRepo(q) \/ UpdateRepo(q)
  BY <1>1, <1>2, <1>13, LiveInStep DEF CreateRepo, UpdateRepo, Checked
<1>. QED
  BY <1>4, <1>5, <1>6, <1>7, <1>8, <1>9, <1>10, <1>11, <1>12, <1>13

LEMMA FailureStep ==
  ASSUME ConfigInv, FailureNeedsOverlap, ConfigNext
  PROVE  FailureNeedsOverlap'
<1>. SUFFICES ASSUME NEW p \in Edits, task'[p] # NoTask, task'[p].answer = "failed", ~task'[p].overtaken
              PROVE  FALSE
  BY DEF FailureNeedsOverlap
<1>1. CASE task[p] # NoTask /\ task[p].answer # "none"
  BY <1>1, TaskStep DEF ConfigInv, FailureNeedsOverlap
<1>2. CASE task[p] = NoTask \/ Live(p)
  <2>1. PICK q \in Edits :
          \/ AskTask(q) \/ CreateIntegration(q) \/ ReadIntegration(q) \/ WriteIntegration(q)
          \/ CountReferences(q) \/ DeleteIntegration(q)
          \/ CreateProject(q) \/ ReadProject(q) \/ WriteProject(q)
          \/ CountMonitoredRepos(q) \/ DeleteProject(q)
          \/ CreateRepo(q) \/ UpdateRepo(q) \/ DeleteRepo(q)
    BY DEF ConfigNext
  <2>2. Asks(q) \/ (\E a \in Refusals : Stops(q, a)) \/ Reads(q) \/ Stores(q)
    BY <2>1, RequestStep DEF ConfigInv
  <2>3. CASE p = q
    <3>1. CASE Asks(q)
      BY <2>3, <3>1 DEF Asks, AsksRight
    <3>2. CASE Live(q)
      BY <2>1, <2>3, <3>2, AloneNeverFails, TaskStep DEF ConfigInv, Live
    <3>. QED
      BY <2>2, <3>1, <3>2 DEF Stops, Reads, Stores
  <2>4. CASE p # q
    <3>1. CASE Alone(q)
      BY <1>2, <2>4, <3>1 DEF Alone, Live
    <3>2. CASE Stores(q)
      <4>1. CASE ~Live(p)
        BY <1>2, <2>4, <3>2, <4>1, StoredTask DEF ConfigInv
      <4>2. CASE Live(p)
        <5>1. task[p] \in Task
          BY <4>2, LiveIsTask DEF Live, ConfigInv
        <5>. QED
          BY <2>4, <3>2, <4>2, <5>1, StoredTask DEF Live, Task, ConfigInv
      <4>. QED
        BY <4>1, <4>2
    <3>. QED
      BY <2>2, <3>1, <3>2 DEF Asks, Stops, Reads
  <2>. QED
    BY <2>3, <2>4
<1>. QED
  BY <1>1, <1>2 DEF Live

\* A request that names existing rows is turned down by the database only if another
\* one stored rows meanwhile: on its own, no request meets a constraint
\* (integrations.go:273, ticket_projects.go:253, store/integrations.go:160).
THEOREM FailureIsOvertaken == ConfigSpec => []FailureNeedsOverlap
<1>1. ConfigInit => FailureNeedsOverlap
  BY DEF ConfigInit, FailureNeedsOverlap
<1>2. ConfigInv /\ FailureNeedsOverlap /\ [ConfigNext]_configVars => FailureNeedsOverlap'
  <2>1. ASSUME FailureNeedsOverlap, UNCHANGED configVars PROVE FailureNeedsOverlap'
    BY <2>1 DEF configVars, FailureNeedsOverlap
  <2>. QED
    BY <2>1, FailureStep
<1>. QED
  BY <1>1, <1>2, ConfigInvariant, PTL DEF ConfigSpec

-----------------------------------------------------------------------------
(* A PATCH that nobody overtakes.                                          *)

KeepsUnnamed(q) ==
  /\ task[q].op = "patchProject" =>
       \A p \in projects, r \in projects' : \A k \in TemplateKeys \ task[q].keys :
         p.id = r.id => r.templates[k] = p.templates[k]
  /\ task[q].op = "patchIntegration" =>
       \A i \in integrations, j \in integrations' : i.id = j.id =>
         /\ i.id = task[q].id /\ task[q].isDefault = Keep => j.isDefault = i.isDefault
         /\ j.secretFor # i.secretFor => i.id = task[q].id /\ task[q].secret

LEMMA FieldsStep ==
  ASSUME ConfigInv, ConfigNext, NEW q \in Edits, Live(q), ~task[q].overtaken, task'[q].answer = "ok"
  PROVE  KeepsUnnamed(q)
<1>1. Checked(q) /\ task[q] \in Task
  BY LiveIsTask DEF ConfigInv, CheckedInv, Live
<1>2. CASE Quiet
  BY <1>2 DEF Quiet, KeepsUnnamed, ConfigInv, IdsInv
<1>3. ASSUME NEW p \in Edits, Stores(p), RowsStored(p)
      PROVE  KeepsUnnamed(q)
  <2>1. p = q
    <3>1. CASE p # q
      <4>1. task'[q] = [task[q] EXCEPT !.overtaken = TRUE]
        BY <1>3, <3>1, StoredTask DEF ConfigInv
      <4>. QED
        BY <1>1, <4>1 DEF Task, Live
    <3>. QED
      BY <3>1
  <2>2. CASE task[q].op = "patchProject"
    <3>1. TemplatesStored(q) /\ task[q].step = "write"
      BY <1>3, <2>1, <2>2
      DEF RowsStored, IntegrationStored, CreatedBy, PatchedBy, IntegrationDropped, ProjectStored,
          ProjectDropped, RepoStored, TemplatesStored
    <3>2. ASSUME NEW a \in projects, NEW r \in projects', NEW k \in TemplateKeys \ task[q].keys,
                 a.id = r.id
          PROVE  r.templates[k] = a.templates[k]
      <4>1. PICK b \in projects :
              /\ r.id = b.id
              /\ r.templates = IF b.id = task[q].id THEN task[q].copy ELSE b.templates
        BY <3>1, TemplatesStep DEF ConfigInv
      <4>2. a = b
        BY <3>2, <4>1 DEF ConfigInv, IdsInv
      <4>3. a.id = task[q].id => task[q].copy = Merged(a.templates, task[q].keys, q)
        BY <1>1, <2>2, <3>1 DEF Checked, ProjectRow
      <4>. QED
        BY <3>2, <4>1, <4>2, <4>3 DEF Merged
    <3>. QED
      BY <2>2, <3>2 DEF KeepsUnnamed
  <2>3. CASE task[q].op = "patchIntegration"
    <3>1. IntegrationStored(q)
      BY <1>3, <2>1, <2>3
      DEF RowsStored, IntegrationDropped, ProjectStored, ProjectDropped, RepoStored, TemplatesStored
    <3>2. PICK new \in IntegrationRows : Replacement(new, integrations') /\ PatchedBy(q, new)
      BY <2>3, <3>1 DEF IntegrationStored, CreatedBy
    <3>3. PICK row \in integrations :
            /\ row.id = task[q].id /\ new.id = row.id
            /\ new.secretFor = IF task[q].secret THEN task[q].copy ELSE row.secretFor
            /\ new.isDefault = IF task[q].isDefault = Keep THEN row.isDefault
                               ELSE task[q].isDefault = "yes"
      BY <3>2, PatchedTyped DEF ConfigInv
    <3>4. ASSUME NEW i \in integrations, NEW j \in integrations', i.id = j.id
          PROVE  /\ i.id = task[q].id /\ task[q].isDefault = Keep => j.isDefault = i.isDefault
                 /\ j.secretFor # i.secretFor => i.id = task[q].id /\ task[q].secret
      <4>1. CASE j = new
        <5>1. i = row
          BY <3>3, <3>4, <4>1 DEF ConfigInv, IdsInv
        <5>. QED
          BY <3>3, <4>1, <5>1
      <4>2. CASE j # new
        <5>1. PICK k \in integrations : k.id # new.id /\ j = Beside(k, new)
          BY <3>2, <4>2 DEF Replacement
        <5>2. j.id = k.id /\ j.secretFor = k.secretFor
          BY <5>1, BesideRow DEF ConfigInv, ConfigTypeOK
        <5>3. i = k
          BY <3>4, <5>2 DEF ConfigInv, IdsInv
        <5>. QED
          BY <3>3, <5>1, <5>2, <5>3
      <4>. QED
        BY <4>1, <4>2
    <3>. QED
      BY <2>3, <3>4 DEF KeepsUnnamed
  <2>. QED
    BY <2>2, <2>3 DEF KeepsUnnamed
<1>. QED
  BY <1>2, <1>3, RowStep DEF ConfigInv

\* A PATCH that nobody overtakes changes the fields that it names, and no other: of the
\* templates, of the default flag, of the secret (ticket_projects.go:199-220,
\* integrations.go:179-236).
THEOREM PatchKeepsFields == ConfigSpec => UnnamedFieldsKept
<1>1. ConfigInv /\ [ConfigNext]_configVars =>
        [\A q \in Edits :
           /\ task[q] # NoTask /\ task[q].answer = "none" /\ ~task[q].overtaken
           /\ task'[q].answer = "ok"
           =>
             /\ task[q].op = "patchProject" =>
                  \A p \in projects, r \in projects' : \A k \in TemplateKeys \ task[q].keys :
                    p.id = r.id => r.templates[k] = p.templates[k]
             /\ task[q].op = "patchIntegration" =>
                  \A i \in integrations, j \in integrations' : i.id = j.id =>
                    /\ i.id = task[q].id /\ task[q].isDefault = Keep => j.isDefault = i.isDefault
                    /\ j.secretFor # i.secretFor => i.id = task[q].id /\ task[q].secret]_configVars
  BY FieldsStep DEF KeepsUnnamed, Live
<1>. QED
  BY <1>1, ConfigInvariant, PTL DEF ConfigSpec, UnnamedFieldsKept

-----------------------------------------------------------------------------
(* The settings.                                                           *)

SettingsRow == [interval : Nat, invite : Nat, reset : Nat]
Running == [asked : SettingsRow, step : {"read", "interval", "expiry"}, copy : SettingsRow,
            overtaken : BOOLEAN]
Ended == {NoPatch} \cup {Answer(a) : a \in {"ok", "refused", "failed"}}

\* The type invariant.
SettingsTypeOK ==
  /\ settings \in SettingsRow
  /\ patch \in [Clients -> Running \cup Ended]
  /\ page.form \in SettingsRow

\* What a PATCH has read is the row, until another one stores it, and allowed.
CopyInv ==
  \A c \in Clients : PatchRunning(c) /\ patch[c].step # "read" =>
    /\ ~patch[c].overtaken => patch[c].copy = settings
    /\ Allowed(patch[c].copy)

SettingsInv == SettingsTypeOK /\ CopyInv /\ Allowed(settings)

LEMMA EndedStep == \A e \in Ended : e.step \notin {"read", "interval", "expiry"}
BY DEF Ended, NoPatch, Answer

LEMMA RunningPatch ==
  ASSUME SettingsTypeOK, NEW c \in Clients
  PROVE  /\ PatchRunning(c) <=> patch[c] \in Running
         /\ ~PatchRunning(c) <=> patch[c] \in Ended
BY EndedStep DEF SettingsTypeOK, PatchRunning, Running

\* A patch of one client moves, and stores the row or not.
Moves(c, p) == patch' = [patch EXCEPT ![c] = p] /\ UNCHANGED settings
PatchStep(c) ==
  \/ \E p \in Running \cup Ended :
       /\ Moves(c, p)
       /\ p \in Running /\ p.step # "read" =>
            \/ p.copy = settings
            \/ patch[c] \in Running /\ patch[c].step # "read" /\ p.copy = patch[c].copy
               /\ p.overtaken = patch[c].overtaken
  \/ \E p \in Running \cup Ended :
       /\ patch[c] \in Running /\ patch[c].step # "read"
       /\ Overtake(c, p)
       /\ settings' \in SettingsRow /\ Allowed(settings')
       /\ p \in Running => p.step # "read" /\ p.copy = settings'
       /\ \A f \in {"interval", "invite", "reset"} :
            settings'[f] # settings[f] =>
              patch[c].asked[f] = settings'[f] \/ settings'[f] = patch[c].copy[f]

LEMMA AskedSettings ==
  ASSUME SettingsTypeOK, NEW n \in Nat, NEW i \in Nat, NEW r \in Nat
  PROVE  SettingsOf(n, i, r) \in SettingsRow
BY DEF SettingsOf, SettingsRow

LEMMA SentRunning ==
  ASSUME NEW s \in SettingsRow
  PROVE  Sent(s) \in Running /\ Sent(s).step = "read"
BY DEF Sent, Running

LEMMA AnswersEnd ==
  Answer("ok") \in Ended /\ Answer("refused") \in Ended /\ Answer("failed") \in Ended /\ NoPatch \in Ended
BY DEF Ended

\* Every step that moves a patch.
LEMMA PatchMoves ==
  ASSUME SettingsInv, SettingsNext
  PROVE  \/ UNCHANGED <<settings, patch>>
         \/ \E c \in Clients : PatchStep(c)
         \/ RestartServer
<1>. DEFINE Goal == \/ UNCHANGED <<settings, patch>>
                    \/ \E c \in Clients : PatchStep(c)
                    \/ RestartServer
<1>. SUFFICES Goal
  OBVIOUS
<1>a. ASSUME NEW c \in Clients, NEW p \in Ended, Continue(c, p), UNCHANGED settings PROVE Goal
  <2>1. p \notin Running
    BY EndedStep DEF Running
  <2>. QED
    BY <1>a, <2>1 DEF Goal, PatchStep, Moves, Continue
<1>b. ASSUME NEW c \in Clients, NEW s \in SettingsRow, Continue(c, Sent(s)), UNCHANGED settings PROVE Goal
  BY <1>b, SentRunning DEF Goal, PatchStep, Moves, Continue
<1>c. ASSUME NEW c \in Clients, PatchStep(c) PROVE Goal
  BY <1>c DEF Goal
<1>d. SettingsTypeOK /\ CopyInv
  BY DEF SettingsInv
<1>. HIDE DEF Goal
<1>1. CASE ApiPatch
  <2>1. Absent \in Nat
    BY DEF Absent
  <2>. QED
    BY <1>1, <1>b, <1>d, <2>1, AskedSettings, SettingsAssumption DEF ApiPatch, Clients
<1>2. CASE ApiAnswered \/ SaveAnswered \/ \E c \in Clients : PatchFails(c)
  BY <1>2, <1>a, AnswersEnd DEF ApiAnswered, SaveAnswered, PatchFails, Finish, Clients
<1>3. CASE Save
  <2>1. CASE UNCHANGED patch
    BY <1>3, <2>1 DEF Save, Goal
  <2>2. CASE Continue("page", Sent(page.form))
    BY <1>3, <1>b, <1>d, <2>2 DEF Save, Clients, SettingsTypeOK
  <2>. QED
    BY <1>3, <2>1, <2>2 DEF Save
<1>4. CASE Refetch \/ ReloadSchedule
           \/ \E n \in Intervals, i \in Invites, r \in Resets : Type(n, i, r)
  BY <1>4 DEF Refetch, ReloadSchedule, Type, Goal
<1>5. ASSUME NEW c \in Clients, ReadRow(c) PROVE Goal
  <2>1. patch[c] \in Running
    BY <1>5, <1>d, RunningPatch DEF ReadRow, PatchAt, PatchRunning
  <2>2. PICK p : p = [patch[c] EXCEPT !.step = "interval", !.copy = settings, !.overtaken = FALSE]
    OBVIOUS
  <2>3. p \in Running /\ p.copy = settings
    BY <1>d, <2>1, <2>2 DEF Running, SettingsTypeOK
  <2>4. Moves(c, p)
    BY <1>5, <2>2 DEF ReadRow, Continue, Moves
  <2>. QED
    BY <2>3, <2>4, <1>c DEF PatchStep
<1>6. ASSUME NEW c \in Clients, StoreInterval(c) PROVE Goal
  <2>1. patch[c] \in Running /\ patch[c].step = "interval" /\ patch[c].asked \in SettingsRow
    BY <1>6, <1>d, RunningPatch DEF StoreInterval, PatchAt, PatchRunning, Running
  <2>2. CASE Continue(c, [patch[c] EXCEPT !.step = "expiry"]) /\ UNCHANGED settings
    <3>1. PICK p : p = [patch[c] EXCEPT !.step = "expiry"]
      OBVIOUS
    <3>2. p \in Running /\ p.copy = patch[c].copy /\ p.overtaken = patch[c].overtaken
      BY <2>1, <3>1 DEF Running
    <3>. QED
      BY <2>1, <2>2, <3>1, <3>2, <1>c DEF PatchStep, Moves, Continue
  <2>3. CASE Finish(c, "refused") /\ UNCHANGED settings
    BY <2>3, <1>a, AnswersEnd DEF Finish
  <2>4. CASE /\ IntervalAllowed(patch[c].asked.interval)
             /\ settings' = [settings EXCEPT !.interval = patch[c].asked.interval]
             /\ Overtake(c, [patch[c] EXCEPT !.step = "expiry", !.copy = settings', !.overtaken = FALSE])
    <3>1. /\ settings' \in SettingsRow /\ settings'.interval = patch[c].asked.interval
          /\ settings'.invite = settings.invite /\ settings'.reset = settings.reset
      BY <2>1, <2>4, <1>d DEF SettingsTypeOK, SettingsRow
    <3>2. PICK p : p = [patch[c] EXCEPT !.step = "expiry", !.copy = settings', !.overtaken = FALSE]
      OBVIOUS
    <3>3. p \in Running /\ p.copy = settings' /\ p.step = "expiry"
      BY <2>1, <3>1, <3>2 DEF Running
    <3>4. Allowed(settings')
      BY <2>4, <3>1 DEF Allowed, SettingsInv
    <3>. QED
      BY <2>1, <2>4, <3>1, <3>2, <3>3, <3>4, <1>c DEF PatchStep
  <2>. QED
    BY <1>6, <2>2, <2>3, <2>4 DEF StoreInterval
<1>7. ASSUME NEW c \in Clients, StoreExpiry(c) PROVE Goal
  <2>1. /\ patch[c] \in Running /\ patch[c].step = "expiry" /\ patch[c].asked \in SettingsRow
        /\ patch[c].copy \in SettingsRow /\ Allowed(patch[c].copy)
    BY <1>7, <1>d, RunningPatch DEF StoreExpiry, PatchAt, PatchRunning, Running, CopyInv
  <2>. DEFINE asked == patch[c].asked
              copy == patch[c].copy
              invite == Filled(asked.invite, copy.invite)
              reset == Filled(asked.reset, copy.reset)
  <2>2. CASE (Finish(c, "ok") \/ Finish(c, "refused")) /\ UNCHANGED settings
    BY <2>2, <1>a, AnswersEnd DEF Finish
  <2>3. CASE /\ asked.invite # Absent => InviteAllowed(invite)
             /\ asked.reset # Absent => ResetAllowed(reset)
             /\ settings' = [settings EXCEPT !.invite = invite, !.reset = reset]
             /\ Overtake(c, Answer("ok"))
    <3>1. invite \in Nat /\ reset \in Nat
      BY <2>1 DEF Filled, SettingsRow
    <3>2. InviteAllowed(invite) /\ ResetAllowed(reset)
      BY <2>1, <2>3 DEF Filled, Allowed
    <3>3. /\ settings' \in SettingsRow /\ settings'.interval = settings.interval
          /\ settings'.invite = invite /\ settings'.reset = reset
      BY <2>3, <3>1, <1>d DEF SettingsTypeOK, SettingsRow
    <3>4. Allowed(settings')
      BY <3>2, <3>3 DEF Allowed, SettingsInv
    <3>5. Answer("ok") \in Ended /\ Answer("ok") \notin Running
      BY AnswersEnd, EndedStep DEF Running
    <3>6. /\ invite \in {asked.invite, copy.invite}
          /\ reset \in {asked.reset, copy.reset}
      BY DEF Filled
    <3>7. \A f \in {"interval", "invite", "reset"} :
            settings'[f] # settings[f] => asked[f] = settings'[f] \/ settings'[f] = copy[f]
      BY <3>3, <3>6
    <3>. QED
      BY <2>1, <2>3, <3>3, <3>4, <3>5, <3>7, <1>c DEF PatchStep
  <2>. QED
    BY <1>7, <2>2, <2>3 DEF StoreExpiry
<1>8. CASE RestartServer
  BY <1>8 DEF Goal
<1>. QED
  BY <1>1, <1>2, <1>3, <1>4, <1>5, <1>6, <1>7, <1>8 DEF SettingsNext

LEMMA PageTyped ==
  ASSUME SettingsTypeOK, SettingsNext
  PROVE  page'.form \in SettingsRow
<1>1. CASE \E c \in Clients : ReadRow(c) \/ StoreInterval(c) \/ StoreExpiry(c) \/ PatchFails(c)
  BY <1>1 DEF ReadRow, StoreInterval, StoreExpiry, PatchFails, SettingsTypeOK
<1>2. CASE ApiPatch \/ ApiAnswered \/ ReloadSchedule \/ RestartServer
  BY <1>2 DEF ApiPatch, ApiAnswered, ReloadSchedule, RestartServer, SettingsTypeOK
<1>3. CASE Save \/ SaveAnswered
  <2>1. PICK n : page' = [page EXCEPT !.notice = n]
    BY <1>3 DEF Save, SaveAnswered
  <2>. QED
    BY <2>1 DEF SettingsTypeOK
<1>4. CASE Refetch
  BY <1>4 DEF Refetch, SettingsTypeOK
<1>5. CASE \E n \in Intervals, i \in Invites, r \in Resets : Type(n, i, r)
  <2>1. PICK n \in Nat, i \in Nat, r \in Nat : Type(n, i, r)
    BY <1>5, SettingsAssumption
  <2>2. PICK s \in SettingsRow : s = SettingsOf(n, i, r)
    BY AskedSettings
  <2>. QED
    BY <2>1, <2>2 DEF Type, SettingsTypeOK
<1>. QED
  BY <1>1, <1>2, <1>3, <1>4, <1>5 DEF SettingsNext

LEMMA OvertakenPatch ==
  ASSUME SettingsTypeOK, NEW c \in Clients, NEW p \in Running \cup Ended, Overtake(c, p)
  PROVE  /\ patch' \in [Clients -> Running \cup Ended]
         /\ patch'[c] = p
         /\ \A d \in Clients \ {c} :
              \/ patch'[d] \in Ended /\ patch'[d] = patch[d]
              \/ /\ patch[d] \in Running /\ patch'[d] \in Running
                 /\ patch'[d].step = patch[d].step /\ patch'[d].copy = patch[d].copy
                 /\ patch'[d].overtaken
<1>1. ASSUME NEW d \in Clients, patch[d] \in Running
      PROVE  /\ [patch[d] EXCEPT !.overtaken = TRUE] \in Running
             /\ [patch[d] EXCEPT !.overtaken = TRUE].step = patch[d].step
             /\ [patch[d] EXCEPT !.overtaken = TRUE].copy = patch[d].copy
             /\ [patch[d] EXCEPT !.overtaken = TRUE].overtaken
  BY <1>1 DEF Running
<1>2. patch' = [d \in Clients |-> IF d = c THEN p
                  ELSE IF patch[d] \in Running THEN [patch[d] EXCEPT !.overtaken = TRUE] ELSE patch[d]]
  BY RunningPatch DEF Overtake
<1>3. \A d \in Clients : patch'[d] = IF d = c THEN p
                  ELSE IF patch[d] \in Running THEN [patch[d] EXCEPT !.overtaken = TRUE] ELSE patch[d]
  BY <1>2, Zenon
<1>4. \A d \in Clients : patch[d] \in Running \cup Ended
  BY DEF SettingsTypeOK
<1>5. \A d \in Clients : patch'[d] \in Running \cup Ended
  BY <1>1, <1>3, <1>4
<1>6. patch' \in [Clients -> Running \cup Ended]
  BY <1>2, <1>5
<1>. QED
  BY <1>1, <1>3, <1>4, <1>6

LEMMA SettingsInvStep == SettingsInv /\ [SettingsNext]_settingsVars => SettingsInv'
<1>. SUFFICES ASSUME SettingsInv, [SettingsNext]_settingsVars PROVE SettingsInv'
  OBVIOUS
<1>. DEFINE Copied(c, p) == p \in Running /\ p.step # "read" =>
                              /\ ~p.overtaken => p.copy = settings'
                              /\ Allowed(p.copy)
<1>t. SettingsTypeOK /\ CopyInv /\ Allowed(settings)
  BY DEF SettingsInv
<1>k. \A c \in Clients : patch[c] \in Running /\ patch[c].step # "read" =>
        /\ ~patch[c].overtaken => patch[c].copy = settings
        /\ Allowed(patch[c].copy)
  BY <1>t, RunningPatch DEF CopyInv
<1>a. ASSUME patch' \in [Clients -> Running \cup Ended], \A c \in Clients : Copied(c, patch'[c]),
             settings' \in SettingsRow, Allowed(settings'), page'.form \in SettingsRow
      PROVE  SettingsInv'
  <2>1. SettingsTypeOK'
    BY <1>a DEF SettingsTypeOK
  <2>2. \A c \in Clients : patch'[c].step \in {"read", "interval", "expiry"} => patch'[c] \in Running
    BY <1>a, EndedStep
  <2>3. CopyInv'
    BY <1>a, <2>2 DEF CopyInv, PatchRunning, Allowed
  <2>. QED
    BY <1>a, <2>1, <2>3 DEF SettingsInv, Allowed
<1>1. CASE UNCHANGED settingsVars
  BY <1>1, <1>t, <1>k, <1>a DEF settingsVars, SettingsTypeOK
<1>2. CASE SettingsNext
  <2>1. page'.form \in SettingsRow
    BY <1>2, <1>t, PageTyped
  <2>2. CASE UNCHANGED <<settings, patch>>
    BY <2>1, <2>2, <1>t, <1>k, <1>a DEF SettingsTypeOK
  <2>3. CASE RestartServer
    <3>1. \A c \in Clients : patch'[c] \in Ended
      BY <2>3, <1>t, RunningPatch, AnswersEnd DEF RestartServer
    <3>2. \A e \in Ended : e \notin Running
      BY EndedStep DEF Running
    <3>3. patch' \in [Clients -> Running \cup Ended]
      BY <2>3, <3>1 DEF RestartServer
    <3>. QED
      BY <2>1, <2>3, <3>1, <3>2, <3>3, <1>t, <1>a DEF RestartServer, SettingsTypeOK
  <2>4. ASSUME NEW c \in Clients, NEW p \in Running \cup Ended, Moves(c, p),
               p \in Running /\ p.step # "read" =>
                 \/ p.copy = settings
                 \/ patch[c] \in Running /\ patch[c].step # "read" /\ p.copy = patch[c].copy
                    /\ p.overtaken = patch[c].overtaken
        PROVE  SettingsInv'
    <3>1. Copied(c, p)
      BY <2>4, <1>t, <1>k DEF Moves
    <3>2. patch' \in [Clients -> Running \cup Ended] /\ \A d \in Clients :
            patch'[d] = IF d = c THEN p ELSE patch[d]
      BY <2>4, <1>t DEF Moves, SettingsTypeOK
    <3>3. \A d \in Clients : Copied(d, patch'[d])
      BY <2>4, <3>1, <3>2, <1>k DEF Moves
    <3>. QED
      BY <2>1, <2>4, <3>2, <3>3, <1>t, <1>a DEF Moves, SettingsTypeOK
  <2>5. ASSUME NEW c \in Clients, NEW p \in Running \cup Ended, Overtake(c, p),
               settings' \in SettingsRow, Allowed(settings'),
               p \in Running => p.step # "read" /\ p.copy = settings'
        PROVE  SettingsInv'
    <3>1. \A d \in Clients : Copied(d, patch'[d])
      <4>1. ASSUME NEW d \in Clients \ {c} PROVE Copied(d, patch'[d])
        <5>1. CASE patch'[d] \in Ended
          BY <5>1, EndedStep DEF Running
        <5>2. CASE /\ patch[d] \in Running /\ patch'[d] \in Running
                   /\ patch'[d].step = patch[d].step /\ patch'[d].copy = patch[d].copy
                   /\ patch'[d].overtaken
          BY <5>2, <1>k
        <5>. QED
          BY <2>5, <5>1, <5>2, <1>t, OvertakenPatch
      <4>2. Copied(c, patch'[c])
        BY <2>5, <1>t, OvertakenPatch
      <4>. QED
        BY <4>1, <4>2
    <3>2. patch' \in [Clients -> Running \cup Ended]
      BY <2>5, <1>t, OvertakenPatch
    <3>. QED
      BY <2>1, <2>5, <3>1, <3>2, <1>a
  <2>. QED
    BY <1>2, <2>2, <2>3, <2>4, <2>5, PatchMoves DEF PatchStep
<1>. QED
  BY <1>1, <1>2

LEMMA SettingsInvInit == SettingsInit => SettingsInv
<1>. SUFFICES ASSUME SettingsInit PROVE SettingsInv
  OBVIOUS
<1>1. settings \in SettingsRow /\ page.form \in SettingsRow /\ Allowed(settings)
  BY SettingsAssumption DEF SettingsInit, SettingsRow
<1>2. \A c \in Clients : patch[c] \in Ended
  BY AnswersEnd DEF SettingsInit
<1>3. patch \in [Clients -> Running \cup Ended]
  BY <1>2 DEF SettingsInit
<1>4. CopyInv
  BY <1>2, EndedStep DEF CopyInv, PatchRunning
<1>. QED
  BY <1>1, <1>3, <1>4 DEF SettingsInv, SettingsTypeOK

\* Whatever is asked for and whoever is overtaken, the row keeps values that the schema's
\* CHECK constraints accept: PATCH fills a field that is left out from its copy and checks
\* only the ones that are sent (handlers/settings.go:75-95, db/schema.sql:26-36).
THEOREM StoredSettingsAllowed == SettingsSpec => []Allowed(settings)
<1>1. SettingsInv => Allowed(settings)
  BY DEF SettingsInv
<1>. QED
  BY <1>1, SettingsInvInit, SettingsInvStep, PTL DEF SettingsSpec

\* A PATCH of the settings that nobody overtakes changes the fields that it names, and no
\* other, for every value asked for (handlers/settings.go:75-76).
THEOREM PatchLosesNothing == SettingsSpec => OnlyOverlapLoses
<1>1. ASSUME SettingsInv, SettingsNext, NEW c \in Clients, PatchRunning(c), ~patch[c].overtaken,
             patch'[c].step # patch[c].step, NEW f \in {"interval", "invite", "reset"},
             settings'[f] # settings[f]
      PROVE  patch[c].asked[f] = settings'[f]
  <2>1. PICK d \in Clients, p \in Running \cup Ended :
          /\ patch[d] \in Running /\ patch[d].step # "read"
          /\ Overtake(d, p)
          /\ settings'[f] # settings[f] =>
               patch[d].asked[f] = settings'[f] \/ settings'[f] = patch[d].copy[f]
    BY <1>1, PatchMoves DEF PatchStep, Moves, RestartServer
  <2>2. c = d
    BY <1>1, <2>1, OvertakenPatch DEF SettingsInv
  <2>3. patch[c].copy = settings
    BY <1>1, <2>1, <2>2 DEF SettingsInv, CopyInv
  <2>. QED
    BY <1>1, <2>1, <2>2, <2>3
<1>2. SettingsInv /\ [SettingsNext]_settingsVars =>
        [\A c \in Clients :
           /\ PatchRunning(c) /\ ~patch[c].overtaken
           /\ patch'[c].step # patch[c].step
           => \A f \in {"interval", "invite", "reset"} :
                settings'[f] # settings[f] => patch[c].asked[f] = settings'[f]]_settingsVars
  BY <1>1
<1>. QED
  BY <1>2, SettingsInvInit, SettingsInvStep, PTL DEF SettingsSpec, OnlyOverlapLoses

=============================================================================
