------------------------------ MODULE MCTooling ------------------------------
(***************************************************************************)
(* Instances of the repository's tooling for TLC: the roadmap's own order, *)
(* its import into the task board, and the release job.  A behaviour is of *)
(* one of the three, the others stay as they begin.                        *)
(***************************************************************************)
EXTENDS RoadmapPlan, RoadmapIntake, DraftRelease

VARIABLE part

toolingVars == <<part, roadmap, worked, byEpic, plan, board, posted, run,
                 history, tags, releases, job>>

MCEpics  == {"E1"}
MCLeaves == {"L1", "L2"}

GoodPlan ==
  [parent   |-> [l \in MCLeaves |-> "E1"],
   blockers |-> [t \in MCEpics \cup MCLeaves |-> IF t = "L2" THEN {"L1"} ELSE {}],
   marker   |-> [t \in MCEpics \cup MCLeaves |-> t],
   covers   |-> [r \in {"api", "ui"} |-> {"L1"}],
   pairs    |-> {<<"api", "ui">>}]

\* One fault for each of the audits to find, and the plan without any.
MCPlans ==
  {GoodPlan,
   [GoodPlan EXCEPT !.parent["L1"] = "none"],
   [GoodPlan EXCEPT !.blockers["L2"] = {"L1", "L9"}],
   [GoodPlan EXCEPT !.marker["L2"] = "none"],
   [GoodPlan EXCEPT !.marker["L1"] = "L2"],
   [GoodPlan EXCEPT !.covers["ui"] = {}]}

MCVersions == {[num |-> n, rc |-> 0] : n \in 1..3}

MCInit ==
  /\ PlanInit /\ IntakeInit /\ ReleaseInit
  /\ \/ part = "plan" /\ plan = GoodPlan
     \/ part = "import" /\ roadmap = "current" /\ ~byEpic
     \/ part = "release" /\ plan = GoodPlan /\ roadmap = "current" /\ ~byEpic

MCNext ==
  /\ UNCHANGED part
  /\ \/ part = "plan" /\ Wave /\ UNCHANGED intakeVars /\ UNCHANGED releaseVars
     \/ /\ part = "import" /\ IntakeNext
        /\ UNCHANGED <<roadmap, worked, byEpic>> /\ UNCHANGED releaseVars
     \/ /\ part = "release" /\ ReleaseNext
        /\ UNCHANGED <<roadmap, worked, byEpic>> /\ UNCHANGED intakeVars

MCSpec == MCInit /\ [][MCNext]_toolingVars

=============================================================================
