---------------------------- MODULE TicketLedger ----------------------------
(***************************************************************************)
(* What the poll engine promises about the tickets of one repo, without    *)
(* the row, the copy, the note and the phases by which it keeps it.  A     *)
(* ledger of releases: asked for, linked, and closed because a newer       *)
(* ticket took over.                                                       *)
(***************************************************************************)
CONSTANT Releases

VARIABLES
  asked,      \* a create request for the release was sent and not refused
  linked,     \* its ticket was stored in the repo's row
  closed      \* its ticket has the superseded status

ledgerVars == <<asked, linked, closed>>

LedgerInit == asked = {} /\ linked = {} /\ closed = {}

\* A release is asked for once, unless the ticket system refused it.
AskFor(r) ==
  /\ r \in Releases \ asked
  /\ asked' = asked \cup {r}
  /\ UNCHANGED <<linked, closed>>

Refused(r) ==
  /\ r \in asked \ linked
  /\ asked' = asked \ {r}
  /\ UNCHANGED <<linked, closed>>

Link(r) ==
  /\ r \in asked \ linked
  /\ linked' = linked \cup {r}
  /\ UNCHANGED <<asked, closed>>

\* A ticket is closed only while another one, linked and not closed, takes over.
Close(r) ==
  /\ r \in linked \ closed
  /\ linked \ (closed \cup {r}) # {}
  /\ closed' = closed \cup {r}
  /\ UNCHANGED <<asked, linked>>

\* Somebody gives a closed ticket another status by hand.
Reopen(r) ==
  /\ r \in closed
  /\ closed' = closed \ {r}
  /\ UNCHANGED <<asked, linked>>

LedgerNext ==
  \E r \in Releases : AskFor(r) \/ Refused(r) \/ Link(r) \/ Close(r) \/ Reopen(r)

LedgerSpec == LedgerInit /\ [][LedgerNext]_ledgerVars

=============================================================================
