----------------------------- MODULE TicketCalls -----------------------------
(***************************************************************************)
(* One CreateTicket call of a ticket provider: its requests, the ticket    *)
(* system at the other end, lost and late answers, and the error classes   *)
(* that tell the engine whether it may ask again.                          *)
(***************************************************************************)
EXTENDS Naturals

CONSTANT Systems   \* the kinds of ticket system, of "jira", "linear", "kaneo"

VARIABLES call,    \* the call: its settings, where it is and what it returned
          wire,    \* the request or its answer on the way, or "empty"
          issues   \* how many tickets the ticket system stored for the call

callVars == <<call, wire, issues>>

\* The provider, whether the create sends a priority and moves the new ticket
\* to an initial status; key: the ID of the ticket has arrived.
CallsInit ==
  /\ call \in [system : Systems, priority : BOOLEAN, initial : BOOLEAN,
               key : {FALSE}, stage : {"ready"}, told : {"nothing"}]
  /\ wire = "empty"
  /\ issues = 0

Return(answer) == call' = [call EXCEPT !.stage = "over", !.told = answer]

\* A project without an ID, a request that cannot be built, no connection.
NotSent ==
  /\ call.stage = "ready"
  /\ Return("notStored")
  /\ UNCHANGED <<wire, issues>>

\* The caller's deadline passes before there is a connection.
CancelledEarly ==
  /\ call.stage = "ready"
  /\ Return("unclear")
  /\ UNCHANGED <<wire, issues>>

SendRequest ==
  /\ call.stage = "ready"
  /\ call' = [call EXCEPT !.stage = "waiting"]
  /\ wire' = "request"
  /\ UNCHANGED issues

\* A request is stored and answered, well or badly.
SystemStores ==
  /\ wire = "request"
  /\ issues' = issues + 1
  /\ wire' \in {"id", "garbled", "5xx"}
  /\ UNCHANGED call

\* A 4xx means it was not processed.  Jira rejects a priority its screen does
\* not have; Linear may answer 200 with an error.
SystemRefuses ==
  /\ wire = "request"
  /\ \/ wire' \in {"4xx", "5xx"}
     \/ call.system = "linear" /\ wire' = "failed"
     \/ call.system = "jira" /\ call.priority /\ wire' = "noPriority"
  /\ UNCHANGED <<call, issues>>

\* Mutant: a call that timed out may be repeated.
GiveUpNotStored ==
  /\ call.stage = "waiting"
  /\ Return("notStored")
  /\ UNCHANGED <<wire, issues>>

\* The timeout of the call, or a connection that breaks while it waits.
GiveUp ==
  /\ call.stage = "waiting"
  /\ Return("unclear")
  /\ UNCHANGED <<wire, issues>>

IdArrives ==
  /\ call.stage = "waiting" /\ wire = "id"
  /\ call' = IF call.system = "jira" /\ call.initial
               THEN [call EXCEPT !.key = TRUE, !.stage = "created"]
               ELSE [call EXCEPT !.key = TRUE, !.stage = "over", !.told = "id"]
  /\ wire' = "empty"
  /\ UNCHANGED issues

\* Jira is asked again without the priority.
DropPriority ==
  /\ call.stage = "waiting" /\ wire = "noPriority"
  /\ call' = [call EXCEPT !.priority = FALSE, !.stage = "ready"]
  /\ wire' = "empty"
  /\ UNCHANGED issues

\* CreateDefinitelyNotStored on the other answers.
ErrorArrives ==
  /\ call.stage = "waiting" /\ wire \in {"4xx", "5xx", "garbled", "failed"}
  /\ Return(IF wire = "4xx" THEN "notStored" ELSE "unclear")
  /\ wire' = "empty"
  /\ UNCHANGED issues

\* The transition to the initial status, which may fail.
ApplyInitialStatus ==
  /\ call.stage = "created"
  /\ Return("id")
  /\ UNCHANGED <<wire, issues>>

CallsNext ==
  \/ NotSent \/ CancelledEarly \/ SendRequest \/ SystemStores \/ SystemRefuses
  \/ GiveUp \/ IdArrives \/ DropPriority \/ ErrorArrives \/ ApplyInitialStatus

CallsSpec == CallsInit /\ [][CallsNext]_callVars

-----------------------------------------------------------------------------
(* Properties *)

Tickets ==
  CASE issues > 1              -> "twice"
    [] issues = 1              -> "stored"
    [] call.told = "notStored" -> "refused"
    [] OTHER                   -> "none"

Create == INSTANCE TicketCreate WITH told <- call.told, ticket <- Tickets

\* Every call keeps the contract the engine's create relies on: the retry
\* without a priority never makes a second ticket, and no ticket appears after
\* an error that CreateDefinitelyNotStored accepts (create_error.go:54-75,
\* jira.go:174-180).
KeepsContract == Create!Spec

\* A ticket whose ID reached the provider is never lost: "a failed transition
\* must not fail the create" (jira.go:189-190).
IdNotLost == call.key /\ call.stage = "over" => call.told = "id"

=============================================================================
