----------------------------- MODULE MCPollRuns -----------------------------
(***************************************************************************)
(* Instances of the scheduler's parts for TLC: the runs of polls, with     *)
(* repos, rows and requests as model values, and the settings that the     *)
(* polls are scheduled by.  They share no state, so each behaviour is of   *)
(* one of them, and the other one stays as it begins.                      *)
(***************************************************************************)
EXTENDS PollRuns, Settings, TLC

CONSTANTS r1, r2, n1, n2, q1, q2,
          Parts   \* the parts that move

VARIABLE part

schedulerVars == <<part, proc, stale, running, pc, mem, runs, stops,
                   settings, patch, schedule, page>>

StarterSymmetry == Permutations(Runs) \cup Permutations(Requests)

MCSettings == SettingsOf(5, 1, 5)

MCInit == part \in Parts /\ Init /\ SettingsInit

MCNext ==
  /\ UNCHANGED part
  /\ \/ part = "runs" /\ Next /\ UNCHANGED settingsVars
     \/ part = "settings" /\ SettingsNext /\ UNCHANGED vars

MCSpec == MCInit /\ [][MCNext]_schedulerVars

MCFairSpec ==
  /\ MCSpec
  /\ part = "runs" => Fairness
  /\ part = "settings" => SettingsFairness

=============================================================================
