--------------------------- MODULE ConsoleDelete ---------------------------
(***************************************************************************)
(* The delete dialogs of the web console: each page lists rows, one of     *)
(* which can be put up for deletion, confirmed and deleted by a call that  *)
(* answers after the dialog may have been dismissed and opened again for   *)
(* another row.  The pages for repositories, integrations and ticket       *)
(* projects number their attempts; the other three do not.                 *)
(***************************************************************************)
EXTENDS Naturals, FiniteSets

CONSTANTS Pages,        \* the pages of this instance
          Listable,     \* the ids of the rows a page can show
          Self,         \* the id of the signed-in user on the users page
          MaxOpenings,  \* bound on the dialogs opened
          MaxAttempts   \* bound on the numbers given to confirmed deletes

VARIABLES page,         \* the page on the screen
          stored,       \* the rows the API holds
          used,         \* those of them other rows refer to
          list,         \* what the page fetched, and how its last fetch went
          target,       \* deleteTarget
          problem,      \* deleteError
          attempt,      \* deleteAttempt.current
          call,         \* the delete request under way
          opening       \* how many delete dialogs were opened so far

deleteVars == <<page, stored, used, list, target, problem, attempt, call, opening>>

Numbered == {"repos", "integrations", "projects"}
None == "none"
NoCall == [id |-> None]

\* The rows a page shows with their buttons: none while the first fetch is
\* under way; after a failed one those of the last fetch that succeeded.
Shown == IF list.loading THEN {} ELSE list.rows

\* The users page offers no delete for oneself and none for the last user.
Deletable ==
    {r \in Shown : page = "users" => r # Self /\ Cardinality(list.rows) > 1}

\* The text of the error under the dialog's question.
Problem(answer) ==
    IF answer = "in use" /\ page # "repos" THEN "deleteInUse"
    ELSE IF answer = "lost" THEN "deleteFailed" ELSE answer

-----------------------------------------------------------------------------
DeleteInit ==
    /\ page \in Pages
    /\ stored = Listable
    /\ used = {}
    /\ list = [loading |-> TRUE, rows |-> {}, failed |-> FALSE]
    /\ target = None /\ problem = None
    /\ attempt = 0 /\ opening = 0
    /\ call = NoCall

\* The first fetch and every later one, which a deletion sets off as well.
LoadRows ==
    /\ list' = [loading |-> FALSE, rows |-> stored, failed |-> FALSE]
    /\ list' # list
    /\ UNCHANGED <<page, stored, used, target, problem, attempt, call, opening>>

LoadFails ==
    /\ ~list.failed
    /\ list' = [list EXCEPT !.loading = FALSE, !.failed = TRUE]
    /\ UNCHANGED <<page, stored, used, target, problem, attempt, call, opening>>

AskToDelete ==
    /\ target = None
    /\ opening < MaxOpenings
    /\ target' \in Deletable
    /\ opening' = opening + 1
    /\ UNCHANGED <<page, stored, used, list, problem, attempt, call>>

\* The confirm button is busy, hence disabled, while a delete is under way.
ConfirmDelete ==
    /\ target # None /\ call = NoCall
    /\ attempt < MaxAttempts
    /\ IF page \in Numbered THEN attempt' = attempt + 1 /\ problem' = None
       ELSE UNCHANGED <<attempt, problem>>
    /\ call' = [id |-> target, attempt |-> attempt', opening |-> opening, answer |-> "pending"]
    /\ UNCHANGED <<page, stored, used, list, target, opening>>

\* Mutant: dismissing the dialog starts no new attempt.
DismissOnly ==
    /\ target # None
    /\ target' = None /\ problem' = None
    /\ UNCHANGED <<page, stored, used, list, attempt, call, opening>>

DismissDelete ==
    /\ target # None
    /\ attempt' = IF page \in Numbered THEN attempt + 1 ELSE attempt
    /\ target' = None
    /\ problem' = None
    /\ UNCHANGED <<page, stored, used, list, call, opening>>

\* The API deletes the row unless it is gone, referred to or the last user.
ServeDelete ==
    /\ call # NoCall /\ call.answer = "pending"
    /\ call' = [call EXCEPT !.answer =
                    CASE call.id \notin stored -> "not found"
                      [] call.id \in used -> "in use"
                      [] page = "users" /\ Cardinality(stored) = 1 -> "in use"
                      [] OTHER -> "deleted"]
    /\ stored' = IF call'.answer = "deleted" THEN stored \ {call.id} ELSE stored
    /\ UNCHANGED <<page, used, list, target, problem, attempt, opening>>

\* The answer never arrives, whether or not the API served the request.
AnswerLost ==
    /\ call # NoCall /\ call.answer # "lost"
    /\ call' = [call EXCEPT !.answer = "lost"]
    /\ UNCHANGED <<page, stored, used, list, target, problem, attempt, opening>>

\* The handler goes on after its await: on a numbered page only if its attempt
\* is still the current one.  The other pages show no error.
SettleDelete ==
    /\ call # NoCall /\ call.answer # "pending"
    /\ call' = NoCall
    /\ IF page \in Numbered /\ call.attempt # attempt
       THEN UNCHANGED <<target, problem>>
       ELSE IF call.answer = "deleted" THEN target' = None /\ UNCHANGED problem
       ELSE /\ problem' = IF page \in Numbered THEN Problem(call.answer) ELSE problem
            /\ UNCHANGED target
    /\ UNCHANGED <<page, stored, used, list, attempt, opening>>

\* Other administrators delete rows and refer to them.
OtherDeletesRow ==
    /\ \E r \in stored \ used : r # Self /\ stored' = stored \ {r}
    /\ UNCHANGED <<page, used, list, target, problem, attempt, call, opening>>

OtherRefersToRow ==
    /\ page \in {"integrations", "projects"}
    /\ \E r \in stored : used' \in {used \cup {r}, used \ {r}} \ {used}
    /\ UNCHANGED <<page, stored, list, target, problem, attempt, call, opening>>

DeleteNext ==
    \/ LoadRows \/ LoadFails
    \/ AskToDelete \/ ConfirmDelete \/ DismissDelete
    \/ ServeDelete \/ AnswerLost \/ SettleDelete
    \/ OtherDeletesRow \/ OtherRefersToRow

DeleteSpec == DeleteInit /\ [][DeleteNext]_deleteVars

-----------------------------------------------------------------------------
(* Properties *)

\* "... so a delete that settles after its dialog was dismissed cannot touch
\* the dialog opened next" (repos-view.tsx:60, integrations-view.tsx:54,
\* ticket-projects-view.tsx:55): with any number of dismissals and retries
\* between the request and its answer, what the answer changes is the dialog
\* that asked for it.
Settles == call # NoCall /\ call' = NoCall

LateAnswerTouchesNothing ==
    [][Settles /\ page \in Numbered /\ <<target, problem>>' # <<target, problem>>
       => call.id = target /\ call.opening = opening]_deleteVars

=============================================================================
