---------------------------- MODULE RoadmapPlan ----------------------------
(***************************************************************************)
(* The roadmap that scripts/generate-roadmap.mjs registers: eleven epics,  *)
(* each with its leaf tasks and what a leaf waits for.  Of a registration  *)
(* only the ids, the epic's and the leaves' depends_on are kept; titles,   *)
(* texts, acceptance criteria and files are left out.                      *)
(*                                                                         *)
(* FormerRoadmap holds the plan it replaced, to which the same applies.    *)
(* The audits check that each depends_on names a task; nothing checks that *)
(* the plan can be worked through, which is what this module is about.     *)
(***************************************************************************)
EXTENDS FormerRoadmap

VARIABLES
  roadmap,          \* the plan that is worked through
  worked,           \* the leaves whose work is done
  byEpic            \* the epics' depends_on is observed as well

(***************************************************************************)
(* The registrations: `after` is the epic's depends_on, `leaves` maps each *)
(* of its leaves to the leaf's depends_on.                                 *)
(***************************************************************************)
E01 ==
  [after |-> {},
   leaves |->
     "E01-01" :> {}
  @@ "E01-02" :> {"E01-01"}
  @@ "E01-03" :> {"E01-02"}
  @@ "E01-04" :> {"E01-01"}
  @@ "E01-05" :> {"E01-04"}]

E02 ==
  [after |-> {"E01"},
   leaves |->
     "E02-01" :> {"E01-04"}
  @@ "E02-02" :> {"E01-03", "E02-01"}
  @@ "E02-03" :> {"E02-02"}
  @@ "E02-04" :> {"E02-03"}]

\* Mutant: a leaf of an earlier epic waits for one of a later epic.
E03AfterE04 ==
  [after |-> {"E01", "E02"},
   leaves |->
     "E03-01" :> {"E01-03"} @@ "E03-02" :> {"E03-01", "E04-01"} @@ "E03-03" :> {"E03-02"}]

E03 ==
  [after |-> {"E01", "E02"},
   leaves |->
     "E03-01" :> {"E01-03"}
  @@ "E03-02" :> {"E03-01", "E02-01"}
  @@ "E03-03" :> {"E03-02"}]

E04 ==
  [after |-> {"E02", "E03"},
   leaves |->
     "E04-01" :> {"E03-02", "E02-03"}
  @@ "E04-02" :> {"E03-02", "E02-03"}
  @@ "E04-03" :> {"E04-02"}
  @@ "E04-04" :> {"E04-03"}
  @@ "E04-05" :> {"E03-02", "E02-03"}
  @@ "E04-06" :> {"E03-02", "E02-03"}
  @@ "E04-07" :> {"E04-01", "E04-02", "E04-03", "E04-04", "E04-05", "E04-06", "E02-03"}]

E05 ==
  [after |-> {"E04"},
   leaves |->
     "E05-01" :> {"E04-02"}
  @@ "E05-02" :> {"E05-01"}
  @@ "E05-03" :> {"E05-01"}
  @@ "E05-04" :> {"E05-02", "E05-03"}]

E06 ==
  [after |-> {"E04", "E05"},
   leaves |->
     "E06-01" :> {"E04-03"}
  @@ "E06-02" :> {"E06-01"}
  @@ "E06-03" :> {"E06-01"}]

E07 ==
  [after |-> {"E05", "E06", "E04"},
   leaves |->
     "E07-01" :> {"E06-01", "E05-01"}
  @@ "E07-02" :> {"E07-01", "E04-06"}
  @@ "E07-03" :> {"E07-02", "E03-02"}
  @@ "E07-04" :> {"E07-01", "E03-02"}
  @@ "E07-05" :> {"E07-03", "E07-04", "E06-03"}]

E08 ==
  [after |-> {"E01", "E04"},
   leaves |->
     "E08-01" :> {"E01-01"}
  @@ "E08-02" :> {"E01-01"}
  @@ "E08-03" :> {"E08-02", "E04-07"}
  @@ "E08-04" :> {"E08-03", "E08-01"}
  @@ "E08-05" :> {"E08-04"}]

E09 ==
  [after |-> {"E08", "E04"},
   leaves |->
     "E09-01" :> {"E08-05", "E08-03"}
  @@ "E09-02" :> {"E09-01", "E08-03"}
  @@ "E09-03" :> {"E09-02"}
  @@ "E09-04" :> {"E09-03"}
  @@ "E09-05" :> {"E09-01", "E08-03"}
  @@ "E09-06" :> {"E09-01", "E08-03"}]

E10 ==
  [after |-> {"E08", "E07"},
   leaves |->
     "E10-01" :> {"E09-01", "E08-03"}
  @@ "E10-02" :> {"E10-01", "E08-03"}
  @@ "E10-03" :> {"E10-02"}]

E11 ==
  [after |-> {"E07", "E10"},
   leaves |->
     "E11-01" :> {"E01", "E07"}
  @@ "E11-02" :> {"E11-01"}
  @@ "E11-03" :> {"E01"}
  @@ "E11-04" :> {"E11-03"}
  @@ "E11-05" :> {"E11-03", "E01-02", "E08-01"}
  @@ "E11-06" :> {"E11-02", "E11-04", "E07-05"}]

(***************************************************************************)
(* The roadmap as the registry hands it to the import.                     *)
(***************************************************************************)
Registered ==
     "E01" :> E01 @@ "E02" :> E02 @@ "E03" :> E03 @@ "E04" :> E04
  @@ "E05" :> E05 @@ "E06" :> E06 @@ "E07" :> E07 @@ "E08" :> E08
  @@ "E09" :> E09 @@ "E10" :> E10 @@ "E11" :> E11

Plan == IF roadmap = "current" THEN Registered ELSE FormerlyRegistered

PlanEpics == DOMAIN Plan

LeavesOf(e) == DOMAIN Plan[e].leaves

PlanLeaves == UNION {LeavesOf(e) : e \in PlanEpics}

EpicOf(l) == CHOOSE e \in PlanEpics : l \in LeavesOf(e)

BlockersOf(l) == Plan[EpicOf(l)].leaves[l]

\* A blocker is a leaf that is worked or an epic whose subtasks all are.
Resolved(b) ==
  \/ b \in worked
  \/ b \in PlanEpics /\ LeavesOf(b) \subseteq worked

PlanInit ==
  /\ roadmap \in {"current", "former"}
  /\ worked = {}
  /\ byEpic \in BOOLEAN

\* The import posts the leaves' depends_on as `blocks' relations and drops
\* the epics' own; whoever works the plan may observe those or not.
Unblocked ==
  {l \in PlanLeaves \ worked :
     /\ \A b \in BlockersOf(l) : Resolved(b)
     /\ byEpic => \A e \in Plan[EpicOf(l)].after : Resolved(e)}

(***************************************************************************)
(* Everything the board shows as unblocked is worked on and finished.      *)
(***************************************************************************)
Wave ==
  /\ Unblocked # {}
  /\ worked' = worked \cup Unblocked
  /\ UNCHANGED <<roadmap, byEpic>>

(***************************************************************************)
(* However far the work has come, some leaf is unblocked until all are     *)
(* worked, with and without the epics' own order: no cycle of leaves,      *)
(* epics and subtasks, and no name that is not in the plan.  The audits    *)
(* (audit-roadmap-intake.mjs:38) see that a name exists, never a cycle.    *)
(***************************************************************************)
PlanCanBeFinished == worked # PlanLeaves => Unblocked # {}

=============================================================================
