-------------------------- MODULE PollEngineLedger --------------------------
(***************************************************************************)
(* The poll engine implements the ticket ledger: how the tickets of module *)
(* PollEngine are read as a ledger of releases.                            *)
(***************************************************************************)
EXTENDS PollEngine

\* A release that the repo had under one of its targets.
ReleaseOf(c) == <<calls[c].target, calls[c].tag>>

AskedReleases  == {ReleaseOf(c) : c \in {k \in Calls : Live(k)}}
LinkedReleases == {ReleaseOf(c) : c \in {k \in Calls : Live(k) /\ calls[k].linked}}
ClosedReleases == {ReleaseOf(c) : c \in {k \in Calls : Live(k) /\ calls[k].status = "superseded"}}

Ledger == INSTANCE TicketLedger
            WITH Releases <- Targets \X Tags,
                 asked    <- AskedReleases,
                 linked   <- LinkedReleases,
                 closed   <- ClosedReleases

\* Whatever the engine, the ticket system, people and crashes do looks, from
\* outside, like entries of the ledger: each release is asked for once, only a
\* request that was sent is linked or refused, and a ticket is closed only while
\* a linked one that is not closed replaces it.
KeepsLedger == Ledger!LedgerSpec

=============================================================================
