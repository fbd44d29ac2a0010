---------------------------- MODULE TicketCreate ----------------------------
(***************************************************************************)
(* What the poll engine relies on when it asks a ticket provider for a     *)
(* ticket: at most one ticket is stored, an ID is that of a stored ticket, *)
(* and after "not stored" none will ever be stored, so that a later poll   *)
(* may ask again.  An unclear answer promises nothing.                     *)
(***************************************************************************)
VARIABLES told,    \* what CreateTicket returned
          ticket   \* "none", "stored", or "refused": none and never again one

Init == told = "nothing" /\ ticket = "none"

Store == ticket = "none" /\ ticket' = "stored" /\ UNCHANGED told

TellId == told = "nothing" /\ ticket = "stored" /\ told' = "id" /\ UNCHANGED ticket

TellNotStored ==
  /\ told = "nothing" /\ ticket = "none"
  /\ told' = "notStored" /\ ticket' = "refused"

TellUnclear == told = "nothing" /\ told' = "unclear" /\ UNCHANGED ticket

Next == Store \/ TellId \/ TellNotStored \/ TellUnclear

Spec == Init /\ [][Next]_<<told, ticket>>

=============================================================================
