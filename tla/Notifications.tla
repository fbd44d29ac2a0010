---------------------------- MODULE Notifications ----------------------------
(***************************************************************************)
(* The messages of one repo's polls: the notification targets, the repo's  *)
(* selection of them (empty: every enabled target), which deletions shrink *)
(* behind the administrator's back, and a poll that holds a copy of the    *)
(* selection while both are edited.                                        *)
(***************************************************************************)
EXTENDS Sequences

CONSTANTS Targets,        \* IDs of notification targets
          Subscriptions,  \* the sets of events a target can be given
          ActionLists     \* the actions an evaluation can report, in order

ASSUME NotifyAssumption == ActionLists \subseteq Seq(STRING)

VARIABLES targets,   \* every target there was: whether it exists, enabled, events
          selected,  \* the repo's rows of monitored_repo_notifications
          poll,      \* the poll's copy of the selection and what is left to send
          audience,  \* history: the targets selected at some time of the poll,
                     \* or all of them once the selection was empty
          sent       \* history: the targets that got a message of the poll

notifyVars == <<targets, selected, poll, audience, sent>>

Resting == [stage |-> "idle", picked |-> {}, actions |-> << >>, queue |-> {}]

NotifyInit ==
  /\ targets = << >>
  /\ selected = {}
  /\ poll = Resting
  /\ audience = {}
  /\ sent = {}

Meant(selection) == IF selection = {} THEN Targets ELSE selection

\* A change of the stored targets or the selection, seen by a poll under way.
Select(selection) ==
  /\ selected' = selection
  /\ audience' = IF poll.stage = "idle" THEN {} ELSE audience \cup Meant(selection)
  /\ UNCHANGED <<poll, sent>>

Existing == {t \in DOMAIN targets : targets[t].exists}

\* An ID is given once.
CreateTarget(t, enabled, events) ==
  /\ t \notin DOMAIN targets
  /\ targets' = [s \in DOMAIN targets \cup {t} |->
                   IF s = t THEN [exists |-> TRUE, enabled |-> enabled, events |-> events]
                            ELSE targets[s]]
  /\ UNCHANGED <<selected, poll, audience, sent>>

PatchTarget(t, enabled, events) ==
  /\ t \in Existing
  /\ targets' = [targets EXCEPT ![t].enabled = enabled, ![t].events = events]
  /\ UNCHANGED <<selected, poll, audience, sent>>

\* Deleting a target deletes its rows of the selection.
DeleteTarget(t) ==
  /\ t \in Existing
  /\ targets' = [targets EXCEPT ![t].exists = FALSE]
  /\ Select(selected \ {t})

\* replaceNotificationTargets; a selected target must exist.
SelectTargets(selection) ==
  /\ selection \subseteq Existing
  /\ Select(selection)
  /\ UNCHANGED targets

LoadRepo ==
  /\ poll.stage = "idle"
  /\ poll' = [poll EXCEPT !.stage = "loaded", !.picked = selected]
  /\ audience' = Meant(selected)
  /\ sent' = {}
  /\ UNCHANGED <<targets, selected>>

\* Mutant: the row comes back without the targets that could not be read.
SaveWithWhatWasRead ==
  /\ poll.stage = "loaded"
  /\ \E picked \in {selected, {}} : poll' = [poll EXCEPT !.picked = picked]
  /\ UNCHANGED <<targets, selected, audience, sent>>

\* The poll state is stored and the selection read again; if that read fails,
\* the poll keeps the selection it was loaded with.
SavePollState ==
  /\ poll.stage = "loaded"
  /\ \E picked \in {selected, poll.picked} : poll' = [poll EXCEPT !.picked = picked]
  /\ UNCHANGED <<targets, selected, audience, sent>>

\* The evaluation is returned and its events recorded.
Evaluated(actions) ==
  /\ poll.stage = "loaded"
  /\ poll' = [poll EXCEPT !.stage = "notifying", !.actions = actions]
  /\ UNCHANGED <<targets, selected, audience, sent>>

\* The engine's own write failed: nothing is recorded.
EvaluationFails ==
  /\ poll.stage = "loaded"
  /\ poll' = Resting
  /\ audience' = {}
  /\ sent' = {}
  /\ UNCHANGED <<targets, selected>>

\* resolveNotificationTargets, targetSubscribes.
Addressed(event) ==
  {t \in Existing :
     /\ targets[t].enabled
     /\ poll.picked = {} \/ t \in poll.picked
     /\ event \in targets[t].events}

\* NotifyRepoAction up to its loop.
NotifyRepoAction ==
  /\ poll.stage = "notifying" /\ poll.actions # << >> /\ poll.queue = {}
  /\ \E listed \in BOOLEAN :
       poll' = [poll EXCEPT !.actions = Tail(@),
                            !.queue = IF listed THEN Addressed(Head(poll.actions)) ELSE {}]
  /\ UNCHANGED <<targets, selected, audience, sent>>

\* sendToTarget: a target deleted meanwhile has no URL any more; a failed
\* delivery is logged.
SendToTarget(t) ==
  /\ t \in poll.queue
  /\ poll' = [poll EXCEPT !.queue = @ \ {t}]
  /\ \/ t \in Existing /\ sent' = sent \cup {t}
     \/ UNCHANGED sent
  /\ UNCHANGED <<targets, selected, audience>>

Notified ==
  /\ poll.stage = "notifying" /\ poll.actions = << >> /\ poll.queue = {}
  /\ poll' = Resting
  /\ audience' = {}
  /\ sent' = {}
  /\ UNCHANGED <<targets, selected>>

NotifyNext ==
  \/ \E t \in Targets :
       \/ \E enabled \in BOOLEAN, events \in Subscriptions :
            CreateTarget(t, enabled, events) \/ PatchTarget(t, enabled, events)
       \/ DeleteTarget(t)
       \/ SendToTarget(t)
  \/ \E selection \in SUBSET Targets : SelectTargets(selection)
  \/ LoadRepo \/ SavePollState \/ EvaluationFails
  \/ \E actions \in ActionLists : Evaluated(actions)
  \/ NotifyRepoAction \/ Notified

NotifySpec == NotifyInit /\ [][NotifyNext]_notifyVars

-----------------------------------------------------------------------------
(* Properties *)

\* "If you select notification targets on a repo, only those targets get that
\* repo's messages" (guide/notifications.md:60), as far as it holds: a target
\* that gets a message was selected at some time since the poll loaded the
\* repo, unless the selection was empty at such a time, because nothing was
\* selected or because all that was selected has been deleted.  A selection
\* that cannot be read again never widens it (engine.go:622-638).
OnlyChosenTargets == sent \subseteq audience

=============================================================================
