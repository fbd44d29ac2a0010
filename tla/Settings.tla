------------------------------- MODULE Settings -------------------------------
(***************************************************************************)
(* The application settings: the row, the PATCH handler that stores it in  *)
(* up to two statements, the settings page of one administrator, other     *)
(* clients of the API, and the scheduler that follows the poll interval.   *)
(***************************************************************************)
EXTENDS Naturals

CONSTANTS Intervals, Invites, Resets,   \* the values that are asked for
          FirstSettings

VARIABLES settings, patch, schedule, page

settingsVars == <<settings, patch, schedule, page>>

Absent == 9999                          \* a field that a PATCH leaves out
Clients == {"page", "api"}
NoPatch == [step |-> "none"]

SettingsOf(interval, invite, reset) == [interval |-> interval, invite |-> invite, reset |-> reset]

\* Minutes, hours, minutes (handlers/settings.go).
IntervalAllowed(n) == n >= 5
InviteAllowed(n) == n >= 1 /\ n <= 720
ResetAllowed(n) == n >= 5 /\ n <= 1440
Allowed(s) == IntervalAllowed(s.interval) /\ InviteAllowed(s.invite) /\ ResetAllowed(s.reset)

\* EnsureDefault stores allowed values; a request may ask for any number.
ASSUME SettingsAssumption ==
  /\ FirstSettings \in [interval : Nat, invite : Nat, reset : Nat] /\ Allowed(FirstSettings)
  /\ Intervals \subseteq Nat /\ Invites \subseteq Nat /\ Resets \subseteq Nat

SettingsInit ==
  /\ settings = FirstSettings
  /\ patch = [c \in Clients |-> NoPatch]
  /\ schedule = 0
  /\ page = [data |-> FirstSettings, form |-> FirstSettings, notice |-> "none"]

(***************************************************************************)
(* SettingsHandlers.Patch: read the row, then store the interval, then     *)
(* store both expiries, checking each value just before its statement.     *)
(***************************************************************************)
Sent(asked) == [asked |-> asked, step |-> "read", copy |-> asked, overtaken |-> FALSE]

PatchAt(c, step) == patch[c].step = step
Continue(c, p) == patch' = [patch EXCEPT ![c] = p]
Answer(answer) == [step |-> answer]
Finish(c, answer) == Continue(c, Answer(answer))
PatchRunning(c) == patch[c].step \in {"read", "interval", "expiry"}

\* Client c stored the row: the copy of the other one is out of date.
Overtake(c, p) ==
  patch' = [d \in Clients |->
    IF d = c THEN p
    ELSE IF PatchRunning(d) THEN [patch[d] EXCEPT !.overtaken = TRUE] ELSE patch[d]]

ApiPatch ==
  /\ patch["api"] = NoPatch
  /\ \E interval \in Intervals \cup {Absent}, invite \in Invites \cup {Absent},
        reset \in Resets \cup {Absent} :
       Continue("api", Sent(SettingsOf(interval, invite, reset)))
  /\ UNCHANGED <<settings, schedule, page>>

ReadRow(c) ==
  /\ PatchAt(c, "read")
  /\ Continue(c, [patch[c] EXCEPT !.step = "interval", !.copy = settings, !.overtaken = FALSE])
  /\ UNCHANGED <<settings, schedule, page>>

\* The statement answers with the row as it now is.
StoreInterval(c) ==
  /\ PatchAt(c, "interval")
  /\ LET n == patch[c].asked.interval
     IN  \/ n = Absent /\ Continue(c, [patch[c] EXCEPT !.step = "expiry"]) /\ UNCHANGED settings
         \/ n # Absent /\ ~IntervalAllowed(n) /\ Finish(c, "refused") /\ UNCHANGED settings
         \/ /\ n # Absent /\ IntervalAllowed(n)
            /\ settings' = [settings EXCEPT !.interval = n]
            /\ Overtake(c, [patch[c] EXCEPT !.step = "expiry", !.copy = settings', !.overtaken = FALSE])
  /\ UNCHANGED <<schedule, page>>

\* Mutant: a field that is left out is stored as its type's zero, clamped.
FilledWithLeast(asked, stored) == IF asked = Absent THEN 5 ELSE asked

Filled(asked, stored) == IF asked = Absent THEN stored ELSE asked

StoreExpiry(c) ==
  /\ PatchAt(c, "expiry")
  /\ LET p == patch[c]
         invite == Filled(p.asked.invite, p.copy.invite)
         reset == Filled(p.asked.reset, p.copy.reset)
     IN  \/ /\ p.asked.invite = Absent /\ p.asked.reset = Absent
            /\ Finish(c, "ok") /\ UNCHANGED settings
         \/ /\ p.asked.invite # Absent \/ p.asked.reset # Absent
            /\ IF /\ p.asked.invite # Absent => InviteAllowed(invite)
                  /\ p.asked.reset # Absent => ResetAllowed(reset)
               THEN /\ settings' = [settings EXCEPT !.invite = invite, !.reset = reset]
                    /\ Overtake(c, Answer("ok"))
               ELSE Finish(c, "refused") /\ UNCHANGED settings
  /\ UNCHANGED <<schedule, page>>

\* A statement fails, or the connection breaks before the answer is read.
PatchFails(c) ==
  /\ PatchRunning(c)
  /\ Finish(c, "failed")
  /\ UNCHANGED <<settings, schedule, page>>

ApiAnswered ==
  /\ patch["api"].step \in {"ok", "refused", "failed"}
  /\ Continue("api", NoPatch)
  /\ UNCHANGED <<settings, schedule, page>>

(***************************************************************************)
(* settings-view.tsx.                                                      *)
(***************************************************************************)

\* A number field takes any number of its range, and for a moment others.
Type(interval, invite, reset) ==
  /\ page' = [page EXCEPT !.form = SettingsOf(interval, invite, reset), !.notice = "none"]
  /\ UNCHANGED <<settings, patch, schedule>>

\* validateForm repeats the server's bounds.
FormValid(form) ==
  form.interval >= 5 /\ form.invite \in 1..720 /\ form.reset \in 5..1440

\* handleSave sends all three fields, whichever were changed.
Save ==
  /\ patch["page"] = NoPatch
  /\ \/ /\ FormValid(page.form)
        /\ Continue("page", Sent(page.form))
        /\ page' = [page EXCEPT !.notice = "none"]
     \/ /\ ~FormValid(page.form)
        /\ page' = [page EXCEPT !.notice = "invalid"]
        /\ UNCHANGED patch
  /\ UNCHANGED <<settings, schedule>>

SaveAnswered ==
  /\ patch["page"].step \in {"ok", "refused", "failed"}
  /\ page' = [page EXCEPT !.notice = IF patch["page"].step = "ok" THEN "saved" ELSE patch["page"].step]
  /\ Continue("page", NoPatch)
  /\ UNCHANGED <<settings, schedule>>

\* The effect on `data': a refetch that brings other values fills the form with
\* them and takes the success message away; equal values change nothing.
Refetch ==
  /\ page.data # settings
  /\ page' = [data |-> settings, form |-> settings,
              notice |-> IF page.notice = "saved" THEN "none" ELSE page.notice]
  /\ UNCHANGED <<settings, patch, schedule>>

(***************************************************************************)
(* The scheduler: watchSettings reloads the schedule every minute.         *)
(***************************************************************************)
ClampPollIntervalMinutes(n) == IF n < 5 THEN 5 ELSE n

\* Mutant: the schedule is set once, at the start.
ReloadAtStart ==
  /\ schedule = 0
  /\ schedule' = ClampPollIntervalMinutes(settings.interval)
  /\ UNCHANGED <<settings, patch, page>>

ReloadSchedule ==
  /\ LET n == ClampPollIntervalMinutes(settings.interval)
     IN  schedule # n /\ schedule' = n
  /\ UNCHANGED <<settings, patch, page>>

\* A new process starts without a schedule; requests in flight are gone.
RestartServer ==
  /\ schedule' = 0
  /\ patch' = [c \in Clients |-> IF PatchRunning(c) THEN Answer("failed") ELSE patch[c]]
  /\ UNCHANGED <<settings, page>>

SettingsNext ==
  \/ \E c \in Clients : ReadRow(c) \/ StoreInterval(c) \/ StoreExpiry(c) \/ PatchFails(c)
  \/ ApiPatch \/ ApiAnswered \/ Save \/ SaveAnswered \/ Refetch \/ ReloadSchedule \/ RestartServer
  \/ \E interval \in Intervals, invite \in Invites, reset \in Resets : Type(interval, invite, reset)

\* The ticker of watchSettings never stops while the server runs.
SettingsFairness == WF_settingsVars(ReloadSchedule)
SettingsSpec == SettingsInit /\ [][SettingsNext]_settingsVars /\ SettingsFairness

-----------------------------------------------------------------------------
(* Properties *)

\* A PATCH changes a field that it does not name only if another one stored the
\* row after this one had read it (handlers/settings.go:75-76).
OnlyOverlapLoses ==
  [][\A c \in Clients :
       /\ PatchRunning(c) /\ ~patch[c].overtaken
       /\ patch'[c].step # patch[c].step
       => \A f \in {"interval", "invite", "reset"} :
            settings'[f] # settings[f] => patch[c].asked[f] = settings'[f]]_settingsVars

\* Once the stored interval stays as it is, the polls are scheduled by it,
\* through restarts too (poll/scheduler.go:424-475).
ScheduleFollows ==
  \A n \in Intervals :
    <>[](settings.interval = n) => []<>(schedule = n)

=============================================================================
