----------------------------- MODULE PollEngine -----------------------------
(***************************************************************************)
(* The evaluation of one monitored repo by the poll engine                 *)
(* (internal/poll/engine.go), step by step, together with everything that  *)
(* can happen between two of its steps: releases are published, the ticket *)
(* system answers late or not at all, somebody moves a ticket by hand, an  *)
(* administrator points the repo at another source or ticket project       *)
(* (internal/store/repos.go), the process dies and starts again.           *)
(*                                                                         *)
(* The scheduler polls repos one after the other and never runs two polls  *)
(* at once (module PollRuns), so one repo has at most one evaluation.  The *)
(* repo it evaluates is the copy that ListEnabled took at the start of the *)
(* run, and every write replaces all poll columns of the row from that     *)
(* copy: "snap" below.                                                     *)
(***************************************************************************)
EXTENDS Naturals, FiniteSets

CONSTANTS
  Sources,      \* source repositories the repo can be pointed at
  Projects,     \* ticket projects it can be pointed at
  Calls,        \* identities of CreateTicket calls, and of the tickets they store
  MaxTag,       \* bound: releases per source, numbered by publication
  MaxEpoch,     \* bound: changes of the repo's target
  MaxStops,     \* bound: crashes and shutdowns of the process
  Retractions,  \* TRUE: the newest release of a source may be withdrawn again
  MidRunEdits   \* TRUE: the target may be changed while the repo is being polled

NoTag  == [from |-> "none", no |-> 0]     \* SQL NULL in a tag column
NoCall == "noCall"                        \* SQL NULL in the open ticket column

ASSUME CallsAssumption  == NoCall \notin Calls
ASSUME BoundsAssumption == MaxTag \in Nat /\ MaxEpoch \in Nat /\ MaxStops \in Nat
ASSUME FlagsAssumption  == Retractions \in BOOLEAN /\ MidRunEdits \in BOOLEAN

Tag(s, n) == [from |-> s, no |-> n]
Tags      == {Tag(s, n) : s \in Sources, n \in 1..MaxTag}

\* What the repo is pointed at.  "epoch" counts the changes, so that two visits of
\* the same source and project can be told apart; it is not in the code.
Targets == [source : Sources, project : Projects, epoch : 0..MaxEpoch]

Rows == [target       : Targets,
         lastKnownTag : Tags \cup {NoTag},
         openTicket   : Calls \cup {NoCall},
         openTag      : Tags \cup {NoTag},
         pendingTag   : Tags \cup {NoTag},
         lastError    : BOOLEAN]

Policies == {"supersede", "merge", "skip_if_open"}

\* A create request and the ticket it may become.
\*   state:  unused, sent (on its way), stored (the ticket exists),
\*           rejected (certainly never stored)
\*   status: class of the ticket's live status under the status mapping
\*   text:   the release that the ticket's title and description describe
\*   linked: the ticket's id was stored in the repo's row (not in the code)
CallStates == {"unused", "sent", "stored", "rejected"}
Statuses   == {"open", "closed", "superseded", "unknown"}

Requests == [state  : CallStates,
             target : Targets,
             tag    : Tags \cup {NoTag},
             text   : Tags \cup {NoTag},
             status : Statuses,
             linked : BOOLEAN]

Phases == {"idle", "listed", "newTag", "mark", "send", "waiting", "link",
           "closeOld", "reportOld", "merge", "saveMerge"}

VARIABLES
  row,      \* the repo's row in monitored_repos (durable)
  snap,     \* the engine's in-memory copy of it
  phase,    \* where the evaluation is
  tag,      \* the release tag it found
  old,      \* the open ticket it supersedes, if any
  cur,      \* the create call it is waiting for
  calls,    \* the ticket system
  latest,   \* number of each source's newest release, 0 if it has none
  stops     \* crashes and shutdowns so far

vars == <<row, snap, phase, tag, old, cur, calls, latest, stops>>

TypeOK ==
  /\ row \in Rows
  /\ snap \in Rows
  /\ phase \in Phases
  /\ tag \in Tags \cup {NoTag}
  /\ old \in Calls \cup {NoCall}
  /\ cur \in Calls \cup {NoCall}
  /\ calls \in [Calls -> Requests]
  /\ latest \in [Sources -> 0..MaxTag]
  /\ stops \in 0..MaxStops

-----------------------------------------------------------------------------
(* Shared steps                                                            *)

\* A new row: never polled (monitored_repos defaults).
NewRow(t) == [target |-> t, lastKnownTag |-> NoTag, openTicket |-> NoCall,
              openTag |-> NoTag, pendingTag |-> NoTag, lastError |-> FALSE]

\* savePollState / UpdatePollState: replaces every poll column, and no other one.
Stored(update) == [update EXCEPT !.target = row.target]

\* The write succeeds, or fails and leaves the row alone.
SavePollState(update) == row' = Stored(update) \/ row' = row

\* recordError: the poll columns as the engine knows them, with an error message.
RecordError(repo) == SavePollState([repo EXCEPT !.lastError = TRUE])

\* The evaluation is over and its memory is gone.
Done ==
  /\ phase' = "idle"
  /\ snap' = row'
  /\ tag' = NoTag
  /\ old' = NoCall
  /\ cur' = NoCall

Goto(p) == phase' = p

Live(c)  == calls[c].state \in {"sent", "stored"}
Exists(c) == calls[c].state = "stored"

-----------------------------------------------------------------------------
(* One evaluation                                                          *)

\* ListEnabled: the run copies the row; other repos may be polled before this one.
ListRepo ==
  /\ phase = "idle"
  /\ Goto("listed")
  /\ snap' = row
  /\ UNCHANGED <<row, tag, old, cur, calls, latest, stops>>

\* Shutdown interrupts the run before it reaches the repo.
Interrupt ==
  /\ phase = "listed"
  /\ stops < MaxStops
  /\ stops' = stops + 1
  /\ row' = row
  /\ Done
  /\ UNCHANGED <<calls, latest>>

\* The poll cannot be prepared, or the source does not answer.
FetchFails ==
  /\ phase = "listed"
  /\ RecordError(snap)
  /\ Done
  /\ UNCHANGED <<calls, latest, stops>>

\* GetLatestRelease of the source that a repo names.
Newest(repo) == LET s == repo.target.source
                IN  IF latest[s] = 0 THEN NoTag ELSE Tag(s, latest[s])
Found == Newest(snap)   \* the copy's, not the row's

DecideTagChange(lastKnown, found) ==
  CASE lastKnown = NoTag            -> "baseline"
    [] found \in {NoTag, lastKnown} -> "skip"
    [] OTHER                        -> "newTag"

\* A baseline without a release stores NoTag: the tag stays unknown.
Baseline ==
  /\ phase = "listed"
  /\ DecideTagChange(snap.lastKnownTag, Found) = "baseline"
  /\ SavePollState([snap EXCEPT !.lastKnownTag = Found, !.lastError = FALSE])
  /\ Done
  /\ UNCHANGED <<calls, latest, stops>>

Skip ==
  /\ phase = "listed"
  /\ DecideTagChange(snap.lastKnownTag, Found) = "skip"
  /\ SavePollState([snap EXCEPT !.lastError = FALSE])
  /\ Done
  /\ UNCHANGED <<calls, latest, stops>>

NewTag ==
  /\ phase = "listed"
  /\ DecideTagChange(snap.lastKnownTag, Found) = "newTag"
  /\ tag' = Found
  /\ Goto(IF snap.openTicket = NoCall THEN "mark" ELSE "newTag")
  /\ UNCHANGED <<row, snap, old, cur, calls, latest, stops>>

\* The ticket system does not answer, or its status is in no list of the mapping.
StatusFails ==
  /\ phase = "newTag"
  /\ RecordError(snap)
  /\ Done
  /\ UNCHANGED <<calls, latest, stops>>

\* The previous ticket is done, cancelled or superseded: it is forgotten.
OpenTicketClosed ==
  /\ phase = "newTag"
  /\ calls[snap.openTicket].status \in {"closed", "superseded"}
  /\ snap' = [snap EXCEPT !.openTicket = NoCall, !.openTag = NoTag]
  /\ Goto("mark")
  /\ UNCHANGED <<row, tag, old, cur, calls, latest, stops>>

\* It is open: the policy of the ticket project, read for this poll, decides.
ApplyPolicy(policy) ==
  /\ phase = "newTag"
  /\ calls[snap.openTicket].status = "open"
  /\ \/ /\ policy = "supersede"
        /\ old' = snap.openTicket
        /\ Goto("mark")
        /\ UNCHANGED <<row, snap, tag, cur>>
     \/ /\ policy = "merge"
        /\ Goto("merge")
        /\ UNCHANGED <<row, snap, tag, old, cur>>
     \/ /\ policy = "skip_if_open"
        /\ SavePollState([snap EXCEPT !.lastKnownTag = tag, !.lastError = FALSE])
        /\ Done
  /\ UNCHANGED <<calls, latest, stops>>

\* Mutant: the refused create is not reported.
RefuseSilently ==
  /\ phase = "mark"
  /\ snap.pendingTag = tag
  /\ SavePollState([snap EXCEPT !.lastError = FALSE])
  /\ Done
  /\ UNCHANGED <<calls, latest, stops>>

RefuseRepeatedCreate ==
  /\ phase = "mark"
  /\ snap.pendingTag = tag
  /\ RecordError(snap)
  /\ Done
  /\ UNCHANGED <<calls, latest, stops>>

\* A template does not render, or the superseded status is not mapped.
InputFails ==
  /\ phase = "merge" \/ (phase = "mark" /\ (snap.pendingTag # tag \/ old # NoCall))
  /\ RecordError(snap)
  /\ Done
  /\ UNCHANGED <<calls, latest, stops>>

\* Mutants: the note is kept in memory only; the known tag is written with it.
MarkInMemory ==
  /\ phase = "mark"
  /\ snap.pendingTag # tag
  /\ \E c \in Calls : calls[c].state = "unused"
  /\ snap' = [snap EXCEPT !.pendingTag = tag]
  /\ Goto("send")
  /\ UNCHANGED <<row, tag, old, cur, calls, latest, stops>>

MarkAsKnown ==
  /\ phase = "mark"
  /\ snap.pendingTag # tag
  /\ \E c \in Calls : calls[c].state = "unused"
  /\ snap' = [snap EXCEPT !.pendingTag = tag, !.lastKnownTag = tag]
  /\ row' = Stored(snap')
  /\ Goto("send")
  /\ UNCHANGED <<tag, old, cur, calls, latest, stops>>

MarkTicketPending ==
  /\ phase = "mark"
  /\ snap.pendingTag # tag
  /\ \E c \in Calls : calls[c].state = "unused"      \* bound: Calls
  /\ LET marked == [snap EXCEPT !.pendingTag = tag]
     IN  \/ /\ row' = Stored(marked)
            /\ snap' = marked
            /\ Goto("send")
            /\ UNCHANGED <<tag, old, cur>>
         \/ /\ row' = row
            /\ Done
  /\ UNCHANGED <<calls, latest, stops>>

SendCreate(c) ==
  /\ phase = "send"
  /\ calls[c].state = "unused"
  /\ calls' = [calls EXCEPT ![c] = [state |-> "sent", target |-> snap.target, tag |-> tag,
                                    text |-> tag, status |-> "open", linked |-> FALSE]]
  /\ cur' = c
  /\ Goto("waiting")
  /\ UNCHANGED <<row, snap, tag, old, latest, stops>>

\* Mutant: the old ticket is closed before the link of the new one is stored.
CreateAnsweredClosesOld ==
  /\ phase = "waiting"
  /\ Exists(cur)
  /\ Goto("link")
  /\ calls' = IF old = NoCall THEN calls ELSE [calls EXCEPT ![old].status = "superseded"]
  /\ UNCHANGED <<row, snap, tag, old, cur, latest, stops>>

CreateAnswered ==
  /\ phase = "waiting"
  /\ Exists(cur)
  /\ Goto("link")
  /\ UNCHANGED <<row, snap, tag, old, cur, calls, latest, stops>>

\* recordCreateFailure, CreateDefinitelyNotStored: a 4xx answer, or the request never
\* left.  The note goes with the write that records the error.
CreateRejected ==
  /\ phase = "waiting"
  /\ calls[cur].state = "sent"
  /\ calls' = [calls EXCEPT ![cur].state = "rejected"]
  /\ RecordError([snap EXCEPT !.pendingTag = NoTag])
  /\ Done
  /\ UNCHANGED <<latest, stops>>

\* Mutant: every failed create clears the note.
CreateUnclearForgets ==
  /\ phase = "waiting"
  /\ RecordError([snap EXCEPT !.pendingTag = NoTag])
  /\ Done
  /\ UNCHANGED <<calls, latest, stops>>

\* recordCreateFailure, any other failure: the ticket exists, or may still come to exist.
CreateUnclear ==
  /\ phase = "waiting"
  /\ RecordError(snap)
  /\ Done
  /\ UNCHANGED <<calls, latest, stops>>

\* saveCreatedTicket: one of the attempts stores the link.
LinkTicket ==
  /\ phase = "link"
  /\ LET linked == [snap EXCEPT !.openTicket = cur, !.openTag = tag, !.lastKnownTag = tag,
                                !.pendingTag = NoTag, !.lastError = FALSE]
     IN  /\ row' = Stored(linked)
         /\ \/ /\ old = NoCall
               /\ Done
            \/ /\ old # NoCall
               /\ snap' = linked
               /\ Goto("closeOld")
               /\ UNCHANGED <<tag, old, cur>>
  /\ calls' = [calls EXCEPT ![cur].linked = TRUE]
  /\ UNCHANGED <<latest, stops>>

\* saveCreatedTicket: every attempt fails, or shutdown cuts them short.
LinkLost ==
  /\ phase = "link"
  /\ row' = row
  /\ Done
  /\ UNCHANGED <<calls, latest, stops>>

\* supersedeOldTicket: status and comment are both attempted, either may fail.
CloseOldTicket ==
  /\ phase = "closeOld"
  /\ \/ /\ calls' = [calls EXCEPT ![old].status = "superseded"]
        /\ row' = row
        /\ Done
     \/ /\ calls' \in {calls, [calls EXCEPT ![old].status = "superseded"]}
        /\ Goto("reportOld")
        /\ UNCHANGED <<row, snap, tag, old, cur>>
  /\ UNCHANGED <<latest, stops>>

ReportOldTicket ==
  /\ phase = "reportOld"
  /\ RecordError(snap)
  /\ Done
  /\ UNCHANGED <<calls, latest, stops>>

\* UpdateTicket; a failure may come after the ticket has changed.
MergeTicket ==
  /\ phase = "merge"
  /\ LET merged == [calls EXCEPT ![snap.openTicket].text = tag]
     IN  \/ /\ calls' = merged
            /\ Goto("saveMerge")
            /\ UNCHANGED <<row, snap, tag, old, cur>>
         \/ /\ calls' \in {calls, merged}
            /\ RecordError(snap)
            /\ Done
  /\ UNCHANGED <<latest, stops>>

SaveMerge ==
  /\ phase = "saveMerge"
  /\ SavePollState([snap EXCEPT !.openTag = tag, !.lastKnownTag = tag, !.lastError = FALSE])
  /\ Done
  /\ UNCHANGED <<calls, latest, stops>>

-----------------------------------------------------------------------------
(* Everything else                                                         *)

\* The ticket system stores a request it received, however late.
StoreTicket(c) ==
  /\ calls[c].state = "sent"
  /\ calls' = [calls EXCEPT ![c].state = "stored"]
  /\ UNCHANGED <<row, snap, phase, tag, old, cur, latest, stops>>

\* Somebody moves a ticket by hand.
MoveTicket(c, status) ==
  /\ Exists(c)
  /\ calls[c].status # status
  /\ calls' = [calls EXCEPT ![c].status = status]
  /\ UNCHANGED <<row, snap, phase, tag, old, cur, latest, stops>>

Publish(s) ==
  /\ latest[s] < MaxTag
  /\ latest' = [latest EXCEPT ![s] = @ + 1]
  /\ UNCHANGED <<row, snap, phase, tag, old, cur, calls, stops>>

\* The newest release is deleted or turned into a draft, so the one before is the newest.
Retract(s) ==
  /\ Retractions
  /\ latest[s] > 0
  /\ latest' = [latest EXCEPT ![s] = @ - 1]
  /\ UNCHANGED <<row, snap, phase, tag, old, cur, calls, stops>>

\* Mutants: the open ticket, or the known tag, survives the change of the target.
RetargetKeepsTicket(s, p) ==
  /\ phase = "idle" \/ MidRunEdits
  /\ row.target.epoch < MaxEpoch
  /\ s # row.target.source \/ p # row.target.project
  /\ row' = [row EXCEPT !.target = [source |-> s, project |-> p, epoch |-> row.target.epoch + 1],
                         !.lastKnownTag = IF s = row.target.source THEN @ ELSE NoTag]
  /\ snap' = IF phase = "idle" THEN row' ELSE snap
  /\ UNCHANGED <<phase, tag, old, cur, calls, latest, stops>>

RetargetKeepsTag(s, p) ==
  /\ phase = "idle" \/ MidRunEdits
  /\ row.target.epoch < MaxEpoch
  /\ s # row.target.source \/ p # row.target.project
  /\ row' = [NewRow([source |-> s, project |-> p, epoch |-> row.target.epoch + 1])
             EXCEPT !.lastKnownTag = row.lastKnownTag]
  /\ snap' = IF phase = "idle" THEN row' ELSE snap
  /\ UNCHANGED <<phase, tag, old, cur, calls, latest, stops>>

\* PATCH /repos/{id}: resetPollStateOnTargetChange, in the transaction of the update.
Retarget(s, p) ==
  /\ phase = "idle" \/ MidRunEdits
  /\ row.target.epoch < MaxEpoch
  /\ s # row.target.source \/ p # row.target.project
  /\ row' = [NewRow([source |-> s, project |-> p, epoch |-> row.target.epoch + 1])
             EXCEPT !.lastKnownTag = IF s = row.target.source THEN row.lastKnownTag ELSE NoTag]
  /\ snap' = IF phase = "idle" THEN row' ELSE snap
  /\ UNCHANGED <<phase, tag, old, cur, calls, latest, stops>>

\* The process dies; the row and the ticket system stay.
Crash ==
  /\ phase # "idle"
  /\ stops < MaxStops
  /\ stops' = stops + 1
  /\ row' = row
  /\ Done
  /\ UNCHANGED <<calls, latest>>

Init ==
  /\ \E s \in Sources, p \in Projects :
       row = NewRow([source |-> s, project |-> p, epoch |-> 0])
  /\ snap = row
  /\ phase = "idle"
  /\ tag = NoTag
  /\ old = NoCall
  /\ cur = NoCall
  /\ calls = [c \in Calls |-> [state |-> "unused", target |-> row.target, tag |-> NoTag,
                               text |-> NoTag, status |-> "open", linked |-> FALSE]]
  /\ latest \in [Sources -> 0..MaxTag]
  /\ stops = 0

Evaluate ==
  \/ ListRepo \/ Interrupt \/ FetchFails \/ Baseline \/ Skip \/ NewTag
  \/ StatusFails \/ OpenTicketClosed \/ (\E policy \in Policies : ApplyPolicy(policy))
  \/ RefuseRepeatedCreate \/ InputFails \/ MarkTicketPending
  \/ (\E c \in Calls : SendCreate(c))
  \/ CreateAnswered \/ CreateRejected \/ CreateUnclear
  \/ LinkTicket \/ LinkLost \/ CloseOldTicket \/ ReportOldTicket
  \/ MergeTicket \/ SaveMerge

Environment ==
  \/ \E c \in Calls : StoreTicket(c)
  \/ \E c \in Calls, status \in {"open", "closed", "unknown"} : MoveTicket(c, status)
  \/ \E s \in Sources : Publish(s) \/ Retract(s)
  \/ \E s \in Sources, p \in Projects : Retarget(s, p)
  \/ Crash

Next == Evaluate \/ Environment

Spec == Init /\ [][Next]_vars

\* A step of an evaluation that does not end it with a failed write, at a point where
\* there is something to write.
Proceeds(p) ==
  /\ phase = p
  /\ p = "listed" => Found # NoTag /\ DecideTagChange(snap.lastKnownTag, Found) # "skip"
  /\ Evaluate
  /\ phase' # "idle" \/ row' # row

\* The cron starts polls again and again and every call of an evaluation has a timeout;
\* a database write that is tried again and again does not fail for ever.
FairSpec ==
  /\ Spec
  /\ WF_vars(Evaluate)
  /\ \A p \in Phases : SF_vars(Proceeds(p))

-----------------------------------------------------------------------------
(* Properties                                                              *)

\* One ticket per release: the repo never sends a second create for a release while an
\* earlier one was stored, or may still be.  It rests on the note written before the
\* call, on which failures clear it, on lastKnownTag, and on every write of the row
\* carrying them along; and it has to survive crashes, lost answers and late stores.
OneRequestPerRelease ==
  \A c, d \in Calls :
    /\ Live(c) /\ Live(d)
    /\ calls[c].target = calls[d].target /\ calls[c].tag = calls[d].tag
    => c = d

\* What remains of it when releases are withdrawn: while the ticket of an unclear create
\* has no link, no second create is sent for its release.
UnclearNeverRepeated ==
  [][\A c, d \in Calls :
       /\ calls[c].state = "unused" /\ calls'[c].state = "sent"
       /\ Exists(d) /\ ~calls[d].linked
       => \/ calls[d].target # calls'[c].target
          \/ calls[d].tag # calls'[c].tag]_vars

\* A ticket that may exist without a link is not forgotten: the row's note names its
\* release until the source has a newer one (or an administrator resets the row).
NoTicketForgotten ==
  \A c \in Calls :
    /\ Live(c) /\ ~calls[c].linked /\ calls[c].target = row.target
    => \/ row.pendingTag = calls[c].tag
       \/ latest[row.target.source] > calls[c].tag.no

\* The old ticket is closed in the ticket system only after the ticket that replaces
\* it, for a newer release, was durably linked: a failure in between leaves an open
\* ticket too many, never one too few.
NoOrphanedSupersede ==
  \A c \in Calls :
    calls[c].status = "superseded" =>
      \E d \in Calls : /\ Exists(d) /\ calls[d].linked
                       /\ calls[d].tag.no > calls[c].tag.no

\* The open ticket of the row lives in the row's ticket project.
OpenTicketInProject ==
  row.openTicket # NoCall =>
    /\ Exists(row.openTicket)
    /\ calls[row.openTicket].target.project = row.target.project

\* A repo gets its first ticket from a source only after a baseline of that source: the
\* release a new source already has is never ticketed.
NoTicketBeforeBaseline ==
  [][\A c \in Calls :
       calls[c].state = "unused" /\ calls'[c].state = "sent"
       => snap.lastKnownTag.from = calls'[c].target.source]_vars

\* A release counts as known only when it was the first one seen, when a linked open
\* ticket describes it, or when the policy says to skip it: no write marks a release as
\* handled before the work for it is done.
KnownOnlyWhenHandled ==
  [][/\ row'.lastKnownTag # row.lastKnownTag
     /\ row'.lastKnownTag # NoTag
     => \/ row.lastKnownTag = NoTag
        \/ /\ row'.openTicket # NoCall
           /\ row'.openTag = row'.lastKnownTag
           /\ calls[row'.openTicket].text = row'.lastKnownTag
        \/ \* skip_if_open: the open ticket stays as it is
           /\ phase = "newTag"
           /\ row'.openTicket # NoCall
           /\ row'.openTag = row.openTag]_vars

\* No release is lost silently: again and again either the newest release is the known
\* one or the repo shows an error, whatever fails or crashes in between.
EventuallySettledOrReported ==
  []<>(row.lastError \/ row.lastKnownTag = Newest(row))

=============================================================================
