----------------------- MODULE PollEngineLedgerProofs -----------------------
(***************************************************************************)
(* The poll engine keeps the ticket ledger, the open ticket of the row is  *)
(* one of the row's own project, releases are handled in order and only by *)
(* linked tickets, and nothing is ticketed before a baseline: for every set*)
(* of sources, ticket projects and create calls and every bound.           *)
(***************************************************************************)
EXTENDS PollEngineLedger, PollEngineProofs

-----------------------------------------------------------------------------
(* What the links in the row, in the copy and in the ledger have in common *)

\* A ticket that the row or the evaluation works with as an earlier ticket.
Old(c) == c # NoCall => c \in Calls /\ Exists(c) /\ calls[c].linked

\* Edits between evaluations only keep the copy's target the row's, and every ticket
\* the row is linked to in the row's project.
SameProject ==
  ~MidRunEdits =>
    /\ snap.target = row.target
    /\ row.openTicket # NoCall => calls[row.openTicket].target.project = row.target.project
    /\ snap.openTicket # NoCall => calls[snap.openTicket].target.project = row.target.project
    /\ phase \in {"waiting", "link"} => calls[cur].target.project = row.target.project

LinkInv ==
  /\ Old(row.openTicket) /\ Old(snap.openTicket) /\ Old(old)
  /\ phase \in {"newTag", "merge", "saveMerge"} => snap.openTicket # NoCall
  /\ phase \in {"waiting", "link"} => cur \in Calls /\ Live(cur) /\ ~calls[cur].linked
  /\ phase = "link" => Exists(cur)
  /\ phase = "closeOld" =>
       /\ old # NoCall /\ cur \in Calls /\ cur # old
       /\ Live(cur) /\ calls[cur].linked /\ calls[cur].status # "superseded"
  /\ phase = "idle" => snap = row
  /\ \A c \in Calls :
       /\ calls[c].linked => Exists(c)
       /\ calls[c].status = "superseded" => calls[c].linked
  /\ SameProject

-----------------------------------------------------------------------------
(* The invariant is inductive                                              *)

\* What a step may do to the tickets when it links none of them.
TicketsKept ==
  \A c \in Calls :
    /\ Exists(c) => Exists(c)'
    /\ calls'[c].linked = calls[c].linked
    /\ calls'[c].target = calls[c].target
    /\ calls'[c].status = "superseded" => calls[c].linked

\* A step that moves the evaluation on, without a write of the row.
LEMMA MoveOn ==
  ASSUME TypeOK, LinkInv, TicketsKept, row' = row, snap' = snap,
         phase' \in {"mark", "send", "merge", "saveMerge", "newTag", "reportOld"},
         phase' \in {"newTag", "merge", "saveMerge"} => snap.openTicket # NoCall,
         old' \in {old, snap.openTicket}
  PROVE  LinkInv'
BY DEF LinkInv, Old, TicketsKept, Exists, Live, SameProject

\* A step that ends the evaluation.
LEMMA EndKeeps ==
  ASSUME TypeOK, LinkInv, TicketsKept, Done, row'.target = row.target,
         row'.openTicket \in {row.openTicket, snap.openTicket}
  PROVE  LinkInv'
BY DEF LinkInv, Old, TicketsKept, Exists, Live, SameProject, Done

\* The row after a write that leaves the open ticket alone.
LEMMA WriteKeepsTicket ==
  ASSUME TypeOK, NEW u \in Rows, u.openTicket = snap.openTicket, SavePollState(u) \/ RecordError(u)
  PROVE  row'.target = row.target /\ row'.openTicket \in {row.openTicket, snap.openTicket}
BY DEF TypeOK, SavePollState, RecordError, Stored, Rows

LEMMA LinkStep == TypeOK /\ LinkInv /\ [Next]_vars => LinkInv'
<1> SUFFICES ASSUME TypeOK, LinkInv, [Next]_vars
             PROVE  LinkInv'
    OBVIOUS
<1>k. calls' = calls => TicketsKept
  BY DEF TicketsKept, LinkInv, Exists
<1>r. row' = row => row'.target = row.target /\ row'.openTicket \in {row.openTicket, snap.openTicket}
  OBVIOUS
<1>s. snap \in Rows
  BY DEF TypeOK
<1>1. CASE ListRepo
  BY <1>1 DEF ListRepo, Goto, LinkInv, Old, Exists, Live, SameProject
<1>2. CASE Interrupt
  BY <1>2, <1>k, <1>r, EndKeeps DEF Interrupt
<1>3. CASE FetchFails
  BY <1>3, <1>k, <1>s, WriteKeepsTicket, EndKeeps DEF FetchFails
<1>4. CASE Baseline
  <2> DEFINE u == [snap EXCEPT !.lastKnownTag = Found, !.lastError = FALSE]
  <2>1. u \in Rows /\ u.openTicket = snap.openTicket
    BY <1>s, NewestTyped DEF Found, Rows
  <2>2. SavePollState(u) /\ Done /\ calls' = calls
    BY <1>4 DEF Baseline
  <2> HIDE DEF u
  <2>. QED
    BY <1>k, <2>1, <2>2, WriteKeepsTicket, EndKeeps
<1>5. CASE Skip
  <2> DEFINE u == [snap EXCEPT !.lastError = FALSE]
  <2>1. u \in Rows /\ u.openTicket = snap.openTicket
    BY <1>s DEF Rows
  <2>2. SavePollState(u) /\ Done /\ calls' = calls
    BY <1>5 DEF Skip
  <2> HIDE DEF u
  <2>. QED
    BY <1>k, <2>1, <2>2, WriteKeepsTicket, EndKeeps
<1>6. CASE NewTag
  <2>1. phase' = (IF snap.openTicket = NoCall THEN "mark" ELSE "newTag")
    BY <1>6 DEF NewTag, Goto
  <2>. QED
    BY <1>6, <1>k, <2>1, MoveOn DEF NewTag
<1>7. CASE StatusFails
  BY <1>7, <1>k, <1>s, WriteKeepsTicket, EndKeeps DEF StatusFails
<1>8. CASE OpenTicketClosed
  <2>1. snap'.target = snap.target /\ snap'.openTicket = NoCall
    BY <1>8, <1>s DEF OpenTicketClosed, Rows
  <2>. QED
    BY <1>8, <2>1 DEF OpenTicketClosed, Goto, LinkInv, Old, Exists, Live, SameProject
<1>9. ASSUME NEW policy \in Policies, ApplyPolicy(policy) PROVE LinkInv'
  <2>1. CASE policy = "supersede"
    BY <1>9, <1>k, <2>1, MoveOn DEF ApplyPolicy, Goto
  <2>2. CASE policy = "merge"
    BY <1>9, <1>k, <2>2, MoveOn DEF ApplyPolicy, Goto, LinkInv
  <2>3. CASE policy = "skip_if_open"
    <3> DEFINE u == [snap EXCEPT !.lastKnownTag = tag, !.lastError = FALSE]
    <3>1. u \in Rows /\ u.openTicket = snap.openTicket
      BY <1>s DEF TypeOK, Rows
    <3>2. SavePollState(u) /\ Done /\ calls' = calls
      BY <1>9, <2>3 DEF ApplyPolicy
    <3> HIDE DEF u
    <3>. QED
      BY <1>k, <3>1, <3>2, WriteKeepsTicket, EndKeeps
  <2>. QED
    BY <1>9, <2>1, <2>2, <2>3 DEF ApplyPolicy
<1>10. CASE RefuseRepeatedCreate
  BY <1>10, <1>k, <1>s, WriteKeepsTicket, EndKeeps DEF RefuseRepeatedCreate
<1>11. CASE InputFails
  BY <1>11, <1>k, <1>s, WriteKeepsTicket, EndKeeps DEF InputFails
<1>12. CASE MarkTicketPending
  <2>1. CASE row' = row /\ Done
    BY <1>12, <1>k, <1>r, <2>1, EndKeeps DEF MarkTicketPending
  <2>2. CASE /\ row' = Stored([snap EXCEPT !.pendingTag = tag])
             /\ snap' = [snap EXCEPT !.pendingTag = tag]
             /\ Goto("send")
             /\ UNCHANGED <<tag, old, cur>>
    <3>1. /\ row'.target = row.target /\ row'.openTicket = snap.openTicket
          /\ snap'.target = snap.target /\ snap'.openTicket = snap.openTicket
      BY <1>s, <2>2 DEF Stored, Rows
    <3>. QED
      BY <1>12, <2>2, <3>1 DEF MarkTicketPending, Goto, LinkInv, Old, Exists, Live, SameProject
  <2>. QED
    BY <1>12, <2>1, <2>2 DEF MarkTicketPending
<1>13. ASSUME NEW c \in Calls, SendCreate(c) PROVE LinkInv'
  <2>1. /\ calls'[c].state = "sent" /\ calls'[c].target = snap.target
        /\ calls'[c].status = "open" /\ calls'[c].linked = FALSE
    BY <1>13 DEF SendCreate, TypeOK
  <2>2. \A d \in Calls : d # c => calls'[d] = calls[d]
    BY <1>13 DEF SendCreate, TypeOK
  <2>3. calls[c].state = "unused" /\ row' = row /\ snap' = snap /\ old' = old /\ cur' = c
        /\ phase' = "waiting"
    BY <1>13 DEF SendCreate, Goto
  <2>. QED
    BY <2>1, <2>2, <2>3 DEF LinkInv, Old, Exists, Live, SameProject
<1>14. CASE CreateAnswered
  BY <1>14 DEF CreateAnswered, Goto, LinkInv, Old, Exists, Live, SameProject
<1>15. CASE CreateRejected
  <2> DEFINE u == [snap EXCEPT !.pendingTag = NoTag]
  <2>1. u \in Rows /\ u.openTicket = snap.openTicket
    BY <1>s DEF Rows
  <2>2. RecordError(u) /\ Done
    BY <1>15 DEF CreateRejected
  <2>3. /\ calls[cur].state = "sent" /\ cur \in Calls
        /\ calls' = [calls EXCEPT ![cur].state = "rejected"]
    BY <1>15 DEF CreateRejected, LinkInv
  <2>4. TicketsKept
    BY <2>3 DEF TicketsKept, LinkInv, Exists, TypeOK, Requests
  <2> HIDE DEF u
  <2>. QED
    BY <2>1, <2>2, <2>4, WriteKeepsTicket, EndKeeps
<1>16. CASE CreateUnclear
  BY <1>16, <1>k, <1>s, WriteKeepsTicket, EndKeeps DEF CreateUnclear
<1>17. CASE LinkTicket
  <2> DEFINE u == [snap EXCEPT !.openTicket = cur, !.openTag = tag, !.lastKnownTag = tag,
                               !.pendingTag = NoTag, !.lastError = FALSE]
  <2>1. /\ phase = "link" /\ cur \in Calls /\ Exists(cur) /\ ~calls[cur].linked
        /\ calls[cur].status # "superseded"
        /\ ~MidRunEdits => calls[cur].target.project = row.target.project
    BY <1>17 DEF LinkTicket, LinkInv, SameProject
  <2>2. /\ calls'[cur] = [calls[cur] EXCEPT !.linked = TRUE]
        /\ \A c \in Calls : c # cur => calls'[c] = calls[c]
    BY <1>17, <2>1 DEF LinkTicket, TypeOK
  <2>3. /\ calls'[cur].linked = TRUE /\ calls'[cur].target = calls[cur].target
        /\ calls'[cur].state = "stored" /\ calls'[cur].status = calls[cur].status
    BY <2>1, <2>2 DEF TypeOK, Requests, Exists
  <2>4. /\ u.target = snap.target /\ u.openTicket = cur
        /\ row'.target = row.target /\ row'.openTicket = cur
    BY <1>17, <1>s DEF LinkTicket, Stored, TypeOK, Rows
  <2>5. \A c \in Calls :
          /\ Exists(c) => Exists(c)'
          /\ calls[c].linked => calls'[c].linked
          /\ calls'[c].linked => Exists(c)'
          /\ calls'[c].target = calls[c].target /\ calls'[c].status = calls[c].status
    BY <2>1, <2>2, <2>3 DEF LinkInv, Exists
  <2>6. /\ Old(old)
        /\ ~MidRunEdits => calls[cur].target.project = row.target.project /\ snap.target = row.target
    BY <2>1 DEF LinkInv, SameProject
  <2>9. \A c \in Calls : calls'[c].status = "superseded" => calls'[c].linked
    BY <2>5 DEF LinkInv
  <2>7. CASE Done
    <3>1. snap' = row' /\ phase' = "idle" /\ old' = NoCall
      BY <2>7 DEF Done
    <3>2. Old(row.openTicket)' /\ Old(snap.openTicket)'
      BY <2>3, <2>4, <3>1, <2>1 DEF Old, Exists
    <3>3. SameProject'
      BY <2>3, <2>4, <2>6, <3>1 DEF SameProject
    <3>. QED
      BY <2>5, <2>9, <3>1, <3>2, <3>3 DEF LinkInv, Old
  <2>8. CASE snap' = u /\ phase' = "closeOld" /\ UNCHANGED <<tag, old, cur>> /\ old # NoCall
    <3>1. snap'.openTicket = cur /\ snap'.target = snap.target
      BY <2>4, <2>8
    <3>2. Old(row.openTicket)' /\ Old(snap.openTicket)'
      BY <2>3, <2>4, <3>1, <2>1 DEF Old, Exists
    <3>3. Old(old)' /\ cur # old
      BY <2>1, <2>5, <2>6, <2>8 DEF Old
    <3>4. SameProject'
      BY <2>3, <2>4, <2>6, <2>8, <3>1 DEF SameProject
    <3>. QED
      BY <2>1, <2>3, <2>5, <2>8, <2>9, <3>2, <3>3, <3>4 DEF LinkInv, Live
  <2>. QED
    BY <1>17, <2>7, <2>8 DEF LinkTicket, Goto
<1>18. CASE LinkLost
  BY <1>18, <1>k, <1>r, EndKeeps DEF LinkLost
<1>19. CASE CloseOldTicket
  <2>1. TicketsKept
    BY <1>19 DEF CloseOldTicket, TicketsKept, LinkInv, Old, Exists, TypeOK, Requests
  <2>2. CASE row' = row /\ Done
    BY <1>r, <2>1, <2>2, EndKeeps
  <2>3. CASE Goto("reportOld") /\ UNCHANGED <<row, snap, tag, old, cur>>
    BY <2>1, <2>3, MoveOn DEF Goto
  <2>. QED
    BY <1>19, <2>2, <2>3 DEF CloseOldTicket
<1>20. CASE ReportOldTicket
  BY <1>20, <1>k, <1>s, WriteKeepsTicket, EndKeeps DEF ReportOldTicket
<1>21. CASE MergeTicket
  <2>1. TicketsKept
    BY <1>21 DEF MergeTicket, TicketsKept, LinkInv, Exists, TypeOK, Requests
  <2>2. CASE RecordError(snap) /\ Done
    BY <1>s, <2>1, <2>2, WriteKeepsTicket, EndKeeps
  <2>3. CASE Goto("saveMerge") /\ UNCHANGED <<row, snap, tag, old, cur>>
    BY <1>21, <2>1, <2>3, MoveOn DEF MergeTicket, Goto, LinkInv
  <2>. QED
    BY <1>21, <2>2, <2>3 DEF MergeTicket
<1>22. CASE SaveMerge
  <2> DEFINE u == [snap EXCEPT !.openTag = tag, !.lastKnownTag = tag, !.lastError = FALSE]
  <2>1. u \in Rows /\ u.openTicket = snap.openTicket
    BY <1>s DEF TypeOK, Rows
  <2>2. SavePollState(u) /\ Done /\ calls' = calls
    BY <1>22 DEF SaveMerge
  <2> HIDE DEF u
  <2>. QED
    BY <1>k, <2>1, <2>2, WriteKeepsTicket, EndKeeps
<1>23. ASSUME NEW c \in Calls, StoreTicket(c) PROVE LinkInv'
  <2>1. TicketsKept /\ \A d \in Calls : Live(d) => Live(d)'
    BY <1>23 DEF StoreTicket, TicketsKept, LinkInv, Exists, Live, TypeOK, Requests
  <2>2. \A d \in Calls : calls'[d].status = calls[d].status
    BY <1>23 DEF StoreTicket, TypeOK, Requests
  <2>. QED
    BY <1>23, <2>1, <2>2 DEF StoreTicket, TicketsKept, LinkInv, Old, Exists, Live, SameProject
<1>24. ASSUME NEW c \in Calls, NEW status \in {"open", "closed", "unknown"}, MoveTicket(c, status)
       PROVE  LinkInv'
  <2>1. TicketsKept /\ \A d \in Calls : Live(d) => Live(d)'
    BY <1>24 DEF MoveTicket, TicketsKept, LinkInv, Exists, Live, TypeOK, Requests
  <2>2. \A d \in Calls : calls'[d].status = "superseded" => calls[d].status = "superseded"
    BY <1>24 DEF MoveTicket, TypeOK, Requests
  <2>. QED
    BY <1>24, <2>1, <2>2 DEF MoveTicket, TicketsKept, LinkInv, Old, Exists, Live, SameProject
<1>25. ASSUME NEW s \in Sources, Publish(s) \/ Retract(s) PROVE LinkInv'
  BY <1>25 DEF Publish, Retract, LinkInv, Old, Exists, Live, SameProject
<1>26. ASSUME NEW s \in Sources, NEW p \in Projects, Retarget(s, p) PROVE LinkInv'
  <2>1. /\ row'.openTicket = NoCall /\ calls' = calls /\ phase' = phase /\ old' = old /\ cur' = cur
        /\ snap' = IF phase = "idle" THEN row' ELSE snap
        /\ phase = "idle" \/ MidRunEdits
    BY <1>26 DEF Retarget, NewRow
  <2>. QED
    BY <2>1 DEF LinkInv, Old, Exists, Live, SameProject
<1>27. CASE Crash
  BY <1>27, <1>k, <1>r, EndKeeps DEF Crash
<1>28. CASE UNCHANGED vars
  BY <1>28 DEF vars, LinkInv, Old, Exists, Live, SameProject
<1>. QED
  BY <1>1, <1>2, <1>3, <1>4, <1>5, <1>6, <1>7, <1>8, <1>9, <1>10, <1>11, <1>12, <1>13, <1>14,
     <1>15, <1>16, <1>17, <1>18, <1>19, <1>20, <1>21, <1>22, <1>23, <1>24, <1>25, <1>26, <1>27,
     <1>28 DEF Next, Evaluate, Environment

LEMMA LinkInit == Init => LinkInv
BY DEF Init, LinkInv, Old, Exists, Live, SameProject, NewRow

LEMMA LinksKept == Spec => []LinkInv
BY LinkInit, LinkStep, Typing, PTL DEF Spec

\* The row's open ticket was stored, and is in the row's ticket project, when targets are
\* changed between evaluations only.
THEOREM OpenTicketBelongs ==
  ASSUME ~MidRunEdits
  PROVE  Spec => []OpenTicketInProject
<1>1. LinkInv => OpenTicketInProject
  BY DEF LinkInv, Old, SameProject, OpenTicketInProject
<1>. QED
  BY <1>1, LinksKept, PTL

-----------------------------------------------------------------------------
(* Every step of the engine is an entry of the ledger or none               *)

\* Steps that the ledger does not see.
Unseen ==
  \A c \in Calls :
    /\ Live(c)' <=> Live(c)
    /\ Live(c) => /\ ReleaseOf(c)' = ReleaseOf(c)
                  /\ calls'[c].linked = calls[c].linked
                  /\ calls'[c].status = "superseded" <=> calls[c].status = "superseded"

LEMMA UnseenStutters == Unseen => UNCHANGED <<AskedReleases, LinkedReleases, ClosedReleases>>
<1> SUFFICES ASSUME Unseen
             PROVE  UNCHANGED <<AskedReleases, LinkedReleases, ClosedReleases>>
    OBVIOUS
<1>1. AskedReleases' = AskedReleases
  BY DEF Unseen, AskedReleases
<1>2. LinkedReleases' = LinkedReleases
  BY DEF Unseen, LinkedReleases
<1>3. ClosedReleases' = ClosedReleases
  BY DEF Unseen, ClosedReleases
<1>. QED
  BY <1>1, <1>2, <1>3

\* Two live calls are for different releases.
LEMMA ReleasesDiffer ==
  ASSUME OneRequestPerRelease, NEW c \in Calls, NEW d \in Calls, Live(c), Live(d),
         ReleaseOf(c) = ReleaseOf(d)
  PROVE  c = d
BY DEF OneRequestPerRelease, ReleaseOf

LEMMA LedgerStep ==
  ASSUME IInv, LinkInv, IInv', [Next]_vars
  PROVE  [Ledger!LedgerNext]_(<<AskedReleases, LinkedReleases, ClosedReleases>>)
<1> DEFINE Goal == [Ledger!LedgerNext]_(<<AskedReleases, LinkedReleases, ClosedReleases>>)
<1>t. TypeOK /\ OneRequestPerRelease /\ OneRequestPerRelease'
  BY DEF IInv
<1>r. \A c \in Calls : Live(c) => ReleaseOf(c) \in Targets \X Tags
  BY <1>t DEF IInv, CallInv, ReleaseOf, TypeOK, Requests
<1>u. calls' = calls => Unseen
  BY DEF Unseen, Live, ReleaseOf
<1>1. ASSUME NEW c \in Calls, SendCreate(c) PROVE Goal
  <2> DEFINE r == ReleaseOf(c)'
  <2>1. ~Live(c) /\ Live(c)' /\ calls'[c].linked = FALSE /\ calls'[c].status # "superseded"
    BY <1>1, <1>t DEF SendCreate, Live, TypeOK
  <2>2. \A d \in Calls : d # c => calls'[d] = calls[d]
    BY <1>1, <1>t DEF SendCreate, TypeOK
  <2>3. r \in Targets \X Tags
    BY <2>1 DEF IInv, CallInv, ReleaseOf, TypeOK, Requests
  <2>4. \A d \in Calls : Live(d) => d # c /\ Live(d)' /\ ReleaseOf(d)' = ReleaseOf(d) /\ ReleaseOf(d) # r
    BY <1>t, <2>1, <2>2 DEF OneRequestPerRelease, ReleaseOf, Live
  <2>5. r \notin AskedReleases
    BY <2>4 DEF AskedReleases
  <2>6. AskedReleases' = AskedReleases \cup {r}
    BY <2>1, <2>2, <2>4 DEF AskedReleases, Live
  <2>7. LinkedReleases' = LinkedReleases
    BY <2>1, <2>2, <2>4 DEF LinkedReleases, Live
  <2>8. ClosedReleases' = ClosedReleases
    BY <2>1, <2>2, <2>4 DEF ClosedReleases, Live
  <2>9. Ledger!AskFor(r)
    BY <2>3, <2>5, <2>6, <2>7, <2>8 DEF Ledger!AskFor
  <2>. QED
    BY <2>3, <2>9 DEF Ledger!LedgerNext
<1>2. CASE CreateRejected
  <2> DEFINE r == ReleaseOf(cur)
  <2>1. /\ cur \in Calls /\ Live(cur) /\ ~calls[cur].linked /\ calls[cur].status # "superseded"
        /\ calls' = [calls EXCEPT ![cur].state = "rejected"]
    BY <1>2 DEF CreateRejected, LinkInv
  <2>2. calls'[cur].state = "rejected" /\ \A d \in Calls : d # cur => calls'[d] = calls[d]
    BY <1>t, <2>1 DEF TypeOK, Requests
  <2>3. r \in Targets \X Tags
    BY <1>r, <2>1
  <2>4. ASSUME NEW d \in Calls, Live(d)'
        PROVE  Live(d) /\ d # cur /\ ReleaseOf(d)' = ReleaseOf(d) /\ ReleaseOf(d) # r
    <3>1. d # cur /\ Live(d) /\ ReleaseOf(d)' = ReleaseOf(d)
      BY <2>2, <2>4 DEF Live, ReleaseOf
    <3>. QED
      BY <1>t, <2>1, <3>1, ReleasesDiffer
  <2>5. \A d \in Calls : Live(d) /\ d # cur => Live(d)'
    BY <2>2 DEF Live
  <2>6. r \in AskedReleases
    BY <2>1 DEF AskedReleases
  <2>7. r \notin LinkedReleases
    BY <1>t, <2>1, ReleasesDiffer DEF LinkedReleases
  <2>8. AskedReleases' = AskedReleases \ {r}
    BY <2>1, <2>4, <2>5 DEF AskedReleases
  <2>9. LinkedReleases' = LinkedReleases
    BY <2>1, <2>2, <2>4, <2>5 DEF LinkedReleases
  <2>10. ClosedReleases' = ClosedReleases
    BY <2>1, <2>2, <2>4, <2>5 DEF ClosedReleases
  <2>11. Ledger!Refused(r)
    BY <2>6, <2>7, <2>8, <2>9, <2>10 DEF Ledger!Refused
  <2>. QED
    BY <2>3, <2>11 DEF Ledger!LedgerNext
<1>3. CASE LinkTicket
  <2> DEFINE r == ReleaseOf(cur)
  <2>1. /\ cur \in Calls /\ Live(cur) /\ ~calls[cur].linked
        /\ calls' = [calls EXCEPT ![cur].linked = TRUE]
    BY <1>3 DEF LinkTicket, LinkInv
  <2>2. calls'[cur].linked = TRUE /\ \A d \in Calls : d # cur => calls'[d] = calls[d]
    BY <1>t, <2>1 DEF TypeOK, Requests
  <2>3. \A d \in Calls : /\ Live(d)' <=> Live(d)
                         /\ ReleaseOf(d)' = ReleaseOf(d)
                         /\ calls'[d].status = calls[d].status
    BY <1>t, <2>1 DEF Live, ReleaseOf, TypeOK, Requests
  <2>4. r \in AskedReleases /\ r \in Targets \X Tags
    BY <1>r, <2>1 DEF AskedReleases
  <2>5. r \notin LinkedReleases
    BY <1>t, <2>1, ReleasesDiffer DEF LinkedReleases
  <2>6. AskedReleases' = AskedReleases
    BY <2>3 DEF AskedReleases
  <2>7. LinkedReleases' = LinkedReleases \cup {r}
    BY <2>1, <2>2, <2>3 DEF LinkedReleases
  <2>8. ClosedReleases' = ClosedReleases
    BY <2>3 DEF ClosedReleases
  <2>9. Ledger!Link(r)
    BY <2>4, <2>5, <2>6, <2>7, <2>8 DEF Ledger!Link
  <2>. QED
    BY <2>4, <2>9 DEF Ledger!LedgerNext
<1>4. CASE CloseOldTicket
  <2> DEFINE r == ReleaseOf(old)
  <2>1. /\ old \in Calls /\ Exists(old) /\ calls[old].linked /\ cur \in Calls /\ cur # old
        /\ Live(cur) /\ calls[cur].linked /\ calls[cur].status # "superseded"
    BY <1>4 DEF CloseOldTicket, LinkInv, Old
  <2>2. CASE calls' = calls
    BY <1>u, <2>2, UnseenStutters
  <2>3. CASE calls' = [calls EXCEPT ![old].status = "superseded"]
    <3>1. /\ calls'[old].status = "superseded"
          /\ \A d \in Calls : d # old => calls'[d] = calls[d]
      BY <1>t, <2>1, <2>3 DEF TypeOK, Requests
    <3>2. \A d \in Calls : /\ Live(d)' <=> Live(d)
                           /\ ReleaseOf(d)' = ReleaseOf(d)
                           /\ calls'[d].linked = calls[d].linked
      BY <1>t, <2>3 DEF Live, ReleaseOf, TypeOK, Requests
    <3>3. CASE calls[old].status = "superseded"
      <4>1. Unseen
        BY <3>1, <3>2, <3>3 DEF Unseen
      <4>. QED
        BY <4>1, UnseenStutters
    <3>4. CASE calls[old].status # "superseded"
      <4>1. Live(old)
        BY <2>1 DEF Live, Exists
      <4>2. r \in LinkedReleases /\ r \in Targets \X Tags
        BY <1>r, <2>1, <4>1 DEF LinkedReleases
      <4>3. r \notin ClosedReleases
        BY <1>t, <2>1, <3>4, <4>1, ReleasesDiffer DEF ClosedReleases
      <4>4. ReleaseOf(cur) \in LinkedReleases
        BY <2>1 DEF LinkedReleases
      <4>5. ReleaseOf(cur) \notin ClosedReleases
        BY <1>t, <2>1, ReleasesDiffer DEF ClosedReleases
      <4>6. ReleaseOf(cur) # r
        BY <1>t, <2>1, <4>1, ReleasesDiffer
      <4>7. AskedReleases' = AskedReleases /\ LinkedReleases' = LinkedReleases
        BY <3>2 DEF AskedReleases, LinkedReleases
      <4>8. ClosedReleases' = ClosedReleases \cup {r}
        BY <2>1, <3>1, <3>2, <4>1 DEF ClosedReleases
      <4>9. Ledger!Close(r)
        BY <4>2, <4>3, <4>4, <4>5, <4>6, <4>7, <4>8 DEF Ledger!Close
      <4>. QED
        BY <4>2, <4>9 DEF Ledger!LedgerNext
    <3>. QED
      BY <3>3, <3>4
  <2>. QED
    BY <1>4, <2>2, <2>3 DEF CloseOldTicket
<1>5. ASSUME NEW c \in Calls, NEW status \in {"open", "closed", "unknown"}, MoveTicket(c, status)
      PROVE  Goal
  <2> DEFINE r == ReleaseOf(c)
  <2>1. Live(c) /\ calls' = [calls EXCEPT ![c].status = status]
    BY <1>5 DEF MoveTicket, Live, Exists
  <2>2. /\ calls'[c].status # "superseded"
        /\ \A d \in Calls : d # c => calls'[d] = calls[d]
    BY <1>t, <2>1 DEF TypeOK, Requests
  <2>3. \A d \in Calls : /\ Live(d)' <=> Live(d)
                         /\ ReleaseOf(d)' = ReleaseOf(d)
                         /\ calls'[d].linked = calls[d].linked
    BY <1>t, <2>1 DEF Live, ReleaseOf, TypeOK, Requests
  <2>4. CASE calls[c].status # "superseded"
    <3>1. Unseen
      BY <2>2, <2>3, <2>4 DEF Unseen
    <3>. QED
      BY <3>1, UnseenStutters
  <2>5. CASE calls[c].status = "superseded"
    <3>1. r \in ClosedReleases /\ r \in Targets \X Tags
      BY <1>r, <2>1, <2>5 DEF ClosedReleases
    <3>2. AskedReleases' = AskedReleases /\ LinkedReleases' = LinkedReleases
      BY <2>3 DEF AskedReleases, LinkedReleases
    <3>3. \A d \in Calls : Live(d) /\ d # c => ReleaseOf(d) # r
      BY <1>t, <2>1, ReleasesDiffer
    <3>4. ClosedReleases' = ClosedReleases \ {r}
      BY <2>1, <2>2, <2>3, <3>3 DEF ClosedReleases
    <3>5. Ledger!Reopen(r)
      BY <3>1, <3>2, <3>4 DEF Ledger!Reopen
    <3>. QED
      BY <3>1, <3>5 DEF Ledger!LedgerNext
  <2>. QED
    BY <2>4, <2>5
<1>6. CASE MergeTicket
  <2>1. Unseen
    BY <1>6, <1>t DEF MergeTicket, Unseen, Live, ReleaseOf, TypeOK, Requests
  <2>. QED
    BY <2>1, UnseenStutters
<1>7. ASSUME NEW c \in Calls, StoreTicket(c) PROVE Goal
  <2>1. Unseen
    BY <1>7, <1>t DEF StoreTicket, Unseen, Live, ReleaseOf, TypeOK, Requests
  <2>. QED
    BY <2>1, UnseenStutters
<1>8. CASE calls' = calls
  BY <1>8, <1>u, UnseenStutters
<1>9. calls' = calls \/ CreateRejected \/ LinkTicket \/ CloseOldTicket \/ MergeTicket
      \/ (\E c \in Calls : SendCreate(c) \/ StoreTicket(c))
      \/ (\E c \in Calls, status \in {"open", "closed", "unknown"} : MoveTicket(c, status))
  BY DEF Next, Evaluate, Environment, vars, ListRepo, Interrupt, FetchFails, Baseline, Skip, NewTag,
     StatusFails, OpenTicketClosed, ApplyPolicy, RefuseRepeatedCreate, InputFails,
     MarkTicketPending, CreateAnswered, CreateUnclear, LinkLost, ReportOldTicket, SaveMerge,
     Publish, Retract, Retarget, Crash
<1>. QED
  BY <1>1, <1>2, <1>3, <1>4, <1>5, <1>6, <1>7, <1>8, <1>9

LEMMA LedgerStarts == Init => Ledger!LedgerInit
BY DEF Init, Ledger!LedgerInit, AskedReleases, LinkedReleases, ClosedReleases, Live

\* The engine implements the ledger, whatever fails, crashes, answers late, is moved by
\* hand or edited in the middle of a poll, as long as sources do not withdraw releases.
THEOREM EngineKeepsLedger ==
  ASSUME ~Retractions
  PROVE  Spec => KeepsLedger
<1>1. IInv /\ [Next]_vars => IInv'
  BY InvStep
<1>2. Spec => []IInv
  BY <1>1, InvInit, PTL DEF Spec
<1>3. IInv /\ LinkInv /\ IInv' /\ [Next]_vars => [Ledger!LedgerNext]_(Ledger!ledgerVars)
  BY LedgerStep DEF Ledger!ledgerVars
<1>. QED
  BY <1>2, <1>3, LinksKept, LedgerStarts, PTL DEF Spec, KeepsLedger, Ledger!LedgerSpec

-----------------------------------------------------------------------------
(* What a step does to the tickets and to the row, once for all invariants  *)

\* Every step keeps what was asked for and what was linked; a ticket gets a new text only
\* by a merge, and is superseded only as the old ticket of the evaluation.
CallsStay ==
  \A c \in Calls :
    /\ calls[c].state # "unused" =>
         /\ calls'[c].state # "unused"
         /\ calls'[c].tag = calls[c].tag
         /\ calls'[c].target = calls[c].target
         /\ calls'[c].text = calls[c].text \/ (phase = "merge" /\ c = snap.openTicket)
    /\ Exists(c) => Exists(c)'
    /\ calls[c].linked => calls'[c].linked
    /\ calls'[c].status = "superseded" =>
         calls[c].status = "superseded" \/ (phase = "closeOld" /\ c = old)

\* The steps that reach the ticket system.
LEMMA StepsOfCalls ==
  ASSUME [Next]_vars
  PROVE  \/ calls' = calls \/ CreateRejected \/ LinkTicket \/ CloseOldTicket \/ MergeTicket
         \/ \E c \in Calls : SendCreate(c) \/ StoreTicket(c)
         \/ \E c \in Calls, status \in {"open", "closed", "unknown"} : MoveTicket(c, status)
BY DEF Next, Evaluate, Environment, vars, ListRepo, Interrupt, FetchFails, Baseline, Skip, NewTag,
   StatusFails, OpenTicketClosed, ApplyPolicy, RefuseRepeatedCreate, InputFails,
   MarkTicketPending, CreateAnswered, CreateUnclear, LinkLost, ReportOldTicket, SaveMerge,
   Publish, Retract, Retarget, Crash

LEMMA StepKeepsCalls ==
  ASSUME TypeOK, LinkInv, [Next]_vars
  PROVE  CallsStay
<1>k. calls' = calls => CallsStay
  BY DEF CallsStay, Exists
<1>1. ASSUME NEW c \in Calls, SendCreate(c) PROVE CallsStay
  <2>1. /\ calls'[c].state = "sent" /\ calls'[c].status = "open" /\ calls[c].state = "unused"
        /\ \A d \in Calls : d # c => calls'[d] = calls[d]
    BY <1>1 DEF SendCreate, TypeOK
  <2>2. ~calls[c].linked /\ ~Exists(c)
    BY <2>1 DEF LinkInv, Exists
  <2>. QED
    BY <2>1, <2>2 DEF CallsStay, Exists
<1>2. CASE CreateRejected
  <2>1. cur \in Calls /\ calls[cur].state = "sent" /\ calls' = [calls EXCEPT ![cur].state = "rejected"]
    BY <1>2 DEF CreateRejected, LinkInv
  <2>. QED
    BY <2>1 DEF CallsStay, Exists, TypeOK, Requests
<1>3. CASE LinkTicket
  BY <1>3 DEF LinkTicket, CallsStay, Exists, TypeOK, Requests
<1>4. CASE CloseOldTicket
  <2>1. phase = "closeOld" /\ calls' \in {calls, [calls EXCEPT ![old].status = "superseded"]}
    BY <1>4 DEF CloseOldTicket
  <2>. QED
    BY <1>k, <2>1 DEF CallsStay, Exists, TypeOK, Requests
<1>5. ASSUME NEW c \in Calls, NEW status \in {"open", "closed", "unknown"}, MoveTicket(c, status)
      PROVE  CallsStay
  BY <1>5 DEF MoveTicket, CallsStay, Exists, TypeOK, Requests
<1>6. CASE MergeTicket
  <2>1. phase = "merge" /\ calls' \in {calls, [calls EXCEPT ![snap.openTicket].text = tag]}
    BY <1>6 DEF MergeTicket
  <2>. QED
    BY <1>k, <2>1 DEF CallsStay, Exists, TypeOK, Requests
<1>7. ASSUME NEW c \in Calls, StoreTicket(c) PROVE CallsStay
  BY <1>7 DEF StoreTicket, CallsStay, Exists, TypeOK, Requests
<1>. QED
  BY <1>1, <1>2, <1>3, <1>4, <1>5, <1>6, <1>7, <1>k, StepsOfCalls

\* A request is sent by SendCreate only.
LEMMA OnlySendAsks ==
  ASSUME TypeOK, [Next]_vars, NEW c \in Calls, calls[c].state = "unused", calls'[c].state = "sent"
  PROVE  SendCreate(c)
<1>1. ASSUME NEW d \in Calls, SendCreate(d) PROVE d = c
  BY <1>1 DEF SendCreate, TypeOK
<1>2. ~CreateRejected /\ ~LinkTicket /\ ~CloseOldTicket /\ ~MergeTicket
  BY DEF CreateRejected, LinkTicket, CloseOldTicket, MergeTicket, TypeOK, Requests
<1>3. \A d \in Calls : ~StoreTicket(d)
  BY DEF StoreTicket, TypeOK, Requests
<1>4. \A d \in Calls, status \in {"open", "closed", "unknown"} : ~MoveTicket(d, status)
  BY DEF MoveTicket, TypeOK, Requests
<1>. QED
  BY <1>1, <1>2, <1>3, <1>4, StepsOfCalls

\* The evaluation ends with the row as it was, or with the copy's known tag and open
\* ticket in it.
Ends ==
  /\ phase # "idle" /\ Done /\ latest' = latest
  /\ \/ row' = row
     \/ /\ row'.target = row.target
        /\ row'.lastKnownTag = snap.lastKnownTag
        /\ row'.openTicket = snap.openTicket

\* It moves on, at most forgetting the open ticket in its copy.
Moves ==
  /\ phase # "idle" /\ row' = row /\ latest' = latest /\ tag' = tag
  /\ snap'.target = snap.target /\ snap'.lastKnownTag = snap.lastKnownTag
  /\ \/ snap' = snap /\ old' = old
        /\ <<phase, phase'>> \in {<<"newTag", "merge">>, <<"waiting", "link">>,
                                  <<"closeOld", "reportOld">>, <<"merge", "saveMerge">>,
                                  <<"send", "waiting">>}
        /\ (phase' = "waiting" => /\ cur' \in Calls
                                  /\ calls[cur'].state = "unused"
                                  /\ calls'[cur'].text = tag)
        /\ (phase' # "waiting" => cur' = cur)
        /\ (phase' = "saveMerge" => calls'[snap.openTicket].text = tag)
     \/ /\ <<phase, phase'>> = <<"newTag", "mark">>
        /\ snap'.openTicket = NoCall /\ old' = old
     \/ /\ <<phase, phase'>> = <<"newTag", "mark">>
        /\ snap' = snap /\ old' = snap.openTicket

\* The steps that the proofs below look at one by one.
Writes ==
  \/ ListRepo \/ Baseline \/ NewTag \/ ApplyPolicy("skip_if_open") \/ MarkTicketPending
  \/ LinkTicket \/ SaveMerge
  \/ \E s \in Sources : Publish(s) \/ Retract(s)
  \/ \E s \in Sources, p \in Projects : Retarget(s, p)

\* Neither the row nor the evaluation changes.
Elsewhere == UNCHANGED <<row, snap, phase, tag, old, cur, latest>>

LEMMA StepKinds ==
  ASSUME TypeOK, LinkInv, [Next]_vars
  PROVE  Ends \/ Moves \/ Writes \/ Elsewhere
<1>s. row \in Rows /\ snap \in Rows
  BY DEF TypeOK
<1>1. CASE Interrupt \/ LinkLost \/ Crash
  BY <1>1 DEF Interrupt, LinkLost, Crash, Ends
<1>2. CASE FetchFails \/ StatusFails \/ RefuseRepeatedCreate \/ InputFails \/ CreateUnclear
           \/ ReportOldTicket
  <2>1. phase # "idle" /\ Done /\ latest' = latest /\ RecordError(snap)
    BY <1>2 DEF FetchFails, StatusFails, RefuseRepeatedCreate, InputFails, CreateUnclear,
       ReportOldTicket
  <2>. QED
    BY <1>s, <2>1 DEF Ends, RecordError, SavePollState, Stored, Rows
<1>3. CASE Skip
  BY <1>s, <1>3 DEF Skip, Ends, SavePollState, Stored, Rows
<1>4. CASE CreateRejected
  BY <1>s, <1>4 DEF CreateRejected, Ends, RecordError, SavePollState, Stored, Rows
<1>5. CASE OpenTicketClosed
  BY <1>s, <1>5 DEF OpenTicketClosed, Goto, Moves, Rows
<1>6. ASSUME NEW policy \in Policies, ApplyPolicy(policy) PROVE Ends \/ Moves \/ Writes
  <2>1. CASE policy = "skip_if_open"
    BY <1>6, <2>1 DEF Writes
  <2>2. CASE policy # "skip_if_open"
    BY <1>6, <2>2 DEF ApplyPolicy, Goto, Moves
  <2>. QED
    BY <2>1, <2>2
<1>7. ASSUME NEW c \in Calls, SendCreate(c) PROVE Moves
  BY <1>7 DEF SendCreate, Goto, Moves, TypeOK
<1>8. CASE CreateAnswered
  BY <1>8 DEF CreateAnswered, Goto, Moves
<1>9. CASE CloseOldTicket
  BY <1>9 DEF CloseOldTicket, Goto, Moves, Ends
<1>10. CASE MergeTicket
  <2>1. CASE RecordError(snap) /\ Done
    BY <1>s, <1>10, <2>1 DEF MergeTicket, Ends, RecordError, SavePollState, Stored, Rows
  <2>2. CASE Goto("saveMerge") /\ UNCHANGED <<row, snap, tag, old, cur>>
    <3>1. snap.openTicket \in Calls /\ phase = "merge" /\ phase' = "saveMerge" /\ latest' = latest
      BY <1>10, <2>2 DEF MergeTicket, Goto, LinkInv, Old
    <3>2. calls' = [calls EXCEPT ![snap.openTicket].text = tag]
      BY <1>10, <2>2, <3>1 DEF MergeTicket, Done
    <3>3. calls'[snap.openTicket].text = tag
      BY <3>1, <3>2 DEF TypeOK, Requests
    <3>. QED
      BY <2>2, <3>1, <3>3 DEF Moves
  <2>. QED
    BY <1>10, <2>1, <2>2 DEF MergeTicket
<1>11. ASSUME NEW c \in Calls, StoreTicket(c) \/ \E status \in {"open", "closed", "unknown"} : MoveTicket(c, status)
       PROVE  Elsewhere
  BY <1>11 DEF StoreTicket, MoveTicket, Elsewhere
<1>12. CASE UNCHANGED vars
  BY <1>12 DEF vars, Elsewhere
<1>. QED
  BY <1>1, <1>2, <1>3, <1>4, <1>5, <1>6, <1>7, <1>8, <1>9, <1>10, <1>11, <1>12
     DEF Next, Evaluate, Environment, Writes

-----------------------------------------------------------------------------
(* The known tag is one of the repo's source                               *)

\* No edit in the middle of an evaluation gives the repo another source.
EditsKeepSource == ~MidRunEdits \/ \A s, t \in Sources : s = t

\* A known tag is one of the source that the row, or the copy, names.
KnownOf(r) == r.lastKnownTag # NoTag => /\ r.lastKnownTag \in Tags
                                        /\ r.lastKnownTag.from = r.target.source

SourceInv ==
  /\ KnownOf(row) /\ KnownOf(snap) /\ snap.target.source = row.target.source
  /\ phase = "idle" => snap = row
  /\ phase \in TagPhases => /\ snap.lastKnownTag # NoTag
                            /\ tag \in Tags
                            /\ tag.from = snap.target.source

\* A write of the row by an evaluation that ends.
LEMMA EndKeepsSource ==
  ASSUME TypeOK, SourceInv, Done, NEW u \in Rows, SavePollState(u), KnownOf(u),
         u.target = snap.target
  PROVE  SourceInv'
<1>1. row' = row \/ (row'.target = row.target /\ row'.lastKnownTag = u.lastKnownTag)
  BY DEF TypeOK, SavePollState, Stored, Rows
<1>. QED
  BY <1>1 DEF SourceInv, KnownOf, Done, TagPhases

LEMMA SourceStep ==
  ASSUME EditsKeepSource, TypeOK, LinkInv, SourceInv, [Next]_vars
  PROVE  SourceInv'
<1>s. row \in Rows /\ snap \in Rows
  BY DEF TypeOK
<1>1. CASE Ends
  BY <1>1 DEF Ends, Done, SourceInv, KnownOf, TagPhases
<1>2. CASE Moves
  BY <1>2 DEF Moves, SourceInv, KnownOf, TagPhases, Phases
<1>3. CASE Elsewhere
  BY <1>3 DEF Elsewhere, SourceInv, KnownOf
<1>4. CASE ListRepo
  BY <1>4 DEF ListRepo, Goto, SourceInv, KnownOf, TagPhases
<1>5. CASE Baseline
  <2> DEFINE u == [snap EXCEPT !.lastKnownTag = Found, !.lastError = FALSE]
  <2>1. u \in Rows /\ u.target = snap.target /\ u.lastKnownTag = Found
    BY <1>s, NewestTyped DEF Found, Rows
  <2>2. Found # NoTag => Found \in Tags /\ Found.from = snap.target.source
    BY <1>s, NewestTyped DEF Found, Newest, Tag
  <2>3. SavePollState(u) /\ Done
    BY <1>5 DEF Baseline
  <2> HIDE DEF u
  <2>. QED
    BY <2>1, <2>2, <2>3, EndKeepsSource DEF KnownOf
<1>6. CASE NewTag
  <2>1. /\ phase = "listed" /\ snap.lastKnownTag # NoTag /\ Found # NoTag /\ tag' = Found
        /\ UNCHANGED <<row, snap>> /\ phase' \in TagPhases
    BY <1>6 DEF NewTag, DecideTagChange, Goto, TagPhases, Phases
  <2>2. Found \in Tags /\ Found.from = snap.target.source
    BY <1>s, <2>1, NewestTyped DEF Found, Newest, Tag
  <2>. QED
    BY <2>1, <2>2 DEF SourceInv, KnownOf, TagPhases
<1>7. CASE ApplyPolicy("skip_if_open")
  <2> DEFINE u == [snap EXCEPT !.lastKnownTag = tag, !.lastError = FALSE]
  <2>1. u \in Rows /\ u.target = snap.target /\ u.lastKnownTag = tag
    BY <1>s DEF TypeOK, Rows
  <2>2. SavePollState(u) /\ Done /\ phase \in TagPhases
    BY <1>7 DEF ApplyPolicy, TagPhases, Phases
  <2> HIDE DEF u
  <2>. QED
    BY <2>1, <2>2, EndKeepsSource DEF KnownOf, SourceInv
<1>8. CASE MarkTicketPending
  <2>1. CASE row' = row /\ Done
    BY <2>1 DEF SourceInv, KnownOf, Done, TagPhases
  <2>2. CASE /\ row' = Stored([snap EXCEPT !.pendingTag = tag])
             /\ snap' = [snap EXCEPT !.pendingTag = tag]
             /\ Goto("send") /\ tag' = tag /\ phase = "mark"
    <3>1. /\ row'.target = row.target /\ row'.lastKnownTag = snap.lastKnownTag
          /\ snap'.target = snap.target /\ snap'.lastKnownTag = snap.lastKnownTag
      BY <1>s, <2>2 DEF Stored, Rows
    <3>. QED
      BY <2>2, <3>1 DEF Goto, SourceInv, KnownOf, TagPhases, Phases
  <2>. QED
    BY <1>8, <2>1, <2>2 DEF MarkTicketPending
<1>9. CASE LinkTicket
  <2> DEFINE u == [snap EXCEPT !.openTicket = cur, !.openTag = tag, !.lastKnownTag = tag,
                               !.pendingTag = NoTag, !.lastError = FALSE]
  <2>1. u.target = snap.target /\ u.lastKnownTag = tag
    BY <1>s DEF Rows
  <2>2. /\ phase = "link" /\ row' = Stored(u)
        /\ Done \/ (snap' = u /\ tag' = tag /\ phase' = "closeOld")
    BY <1>9 DEF LinkTicket, Goto
  <2>3. row'.target = row.target /\ row'.lastKnownTag = tag
    BY <1>s, <2>2 DEF Stored, Rows
  <2>4. tag \in Tags /\ tag.from = snap.target.source /\ tag # NoTag
    BY <2>2, TagFields DEF SourceInv, TagPhases, Phases, NoTag
  <2> HIDE DEF u
  <2>. QED
    BY <2>1, <2>2, <2>3, <2>4 DEF SourceInv, KnownOf, Done, TagPhases
<1>10. CASE SaveMerge
  <2> DEFINE u == [snap EXCEPT !.openTag = tag, !.lastKnownTag = tag, !.lastError = FALSE]
  <2>1. u \in Rows /\ u.target = snap.target /\ u.lastKnownTag = tag
    BY <1>s DEF TypeOK, Rows
  <2>2. SavePollState(u) /\ Done /\ phase \in TagPhases
    BY <1>10 DEF SaveMerge, TagPhases, Phases
  <2> HIDE DEF u
  <2>. QED
    BY <2>1, <2>2, EndKeepsSource DEF KnownOf, SourceInv
<1>11. ASSUME NEW s \in Sources, Publish(s) \/ Retract(s) PROVE SourceInv'
  BY <1>11 DEF Publish, Retract, SourceInv, KnownOf
<1>12. ASSUME NEW s \in Sources, NEW p \in Projects, Retarget(s, p) PROVE SourceInv'
  <2>1. /\ row'.target.source = s
        /\ row'.lastKnownTag = IF s = row.target.source THEN row.lastKnownTag ELSE NoTag
        /\ phase = "idle" \/ MidRunEdits
        /\ snap' = IF phase = "idle" THEN row' ELSE snap
        /\ UNCHANGED <<phase, tag>>
    BY <1>12 DEF Retarget, NewRow
  <2>2. MidRunEdits => s = row.target.source
    BY <1>s DEF EditsKeepSource, Rows, Targets
  <2>. QED
    BY <2>1, <2>2 DEF SourceInv, KnownOf, TagPhases
<1>. QED
  BY <1>1, <1>2, <1>3, <1>4, <1>5, <1>6, <1>7, <1>8, <1>9, <1>10, <1>11, <1>12, StepKinds
     DEF Writes

LEMMA SourceInit == Init => SourceInv
BY DEF Init, SourceInv, KnownOf, NewRow, TagPhases

LEMMA SourceKept ==
  ASSUME EditsKeepSource
  PROVE  Spec => []SourceInv
<1>1. TypeOK /\ LinkInv /\ SourceInv /\ [Next]_vars => SourceInv'
  BY SourceStep
<1>. QED
  BY <1>1, SourceInit, LinksKept, Typing, PTL DEF Spec

\* A repo gets its first ticket from a source only after a baseline of that source, as
\* long as no edit changes the source while the repo is being polled.
THEOREM BaselineFirst ==
  ASSUME EditsKeepSource
  PROVE  Spec => NoTicketBeforeBaseline
<1> DEFINE Baselined == \A c \in Calls : calls[c].state = "unused" /\ calls'[c].state = "sent"
                          => snap.lastKnownTag.from = calls'[c].target.source
<1>1. ASSUME TypeOK, SourceInv, [Next]_vars, NEW c \in Calls,
             calls[c].state = "unused", calls'[c].state = "sent"
      PROVE  snap.lastKnownTag.from = calls'[c].target.source
  <2>1. SendCreate(c)
    BY <1>1, OnlySendAsks
  <2>2. calls'[c].target = snap.target /\ phase \in TagPhases
    BY <1>1, <2>1 DEF SendCreate, TypeOK, TagPhases, Phases
  <2>. QED
    BY <1>1, <2>2 DEF SourceInv, KnownOf
<1>2. TypeOK /\ SourceInv /\ [Next]_vars => [Baselined]_vars
  BY <1>1
<1>. QED
  BY <1>2, SourceKept, Typing, PTL DEF Spec, NoTicketBeforeBaseline

-----------------------------------------------------------------------------
(* What is known was handled                                               *)

\* Without edits in the middle of an evaluation the copy is as good as the row until the
\* evaluation writes it, and the ticket at hand describes the release at hand.
HandledInv ==
  /\ snap.lastKnownTag = row.lastKnownTag
  /\ phase \in {"idle", "listed", "newTag"} => snap.openTag = row.openTag
  /\ phase \in {"waiting", "link"} => calls[cur].text = tag
  /\ phase = "saveMerge" => calls[snap.openTicket].text = tag

\* The end of an evaluation leaves a copy that is the row.
LEMMA EndHandles == Done => HandledInv'
BY DEF Done, HandledInv

LEMMA HandledStep ==
  ASSUME ~MidRunEdits, TypeOK, LinkInv, HandledInv, [Next]_vars
  PROVE  HandledInv'
<1>s. row \in Rows /\ snap \in Rows
  BY DEF TypeOK
<1>c. CallsStay
  BY StepKeepsCalls
<1>1. CASE Ends
  BY <1>1, EndHandles DEF Ends
<1>2. CASE Moves
  <2>1. phase' \in {"waiting", "link"} => calls'[cur'].text = tag'
    <3>1. CASE phase' = "waiting"
      BY <1>2, <3>1 DEF Moves
    <3>2. CASE phase' = "link"
      BY <1>2, <1>c, <3>2 DEF Moves, HandledInv, LinkInv, Live, CallsStay
    <3>. QED
      BY <3>1, <3>2
  <2>. QED
    BY <1>2, <2>1 DEF Moves, HandledInv
<1>3. CASE Elsewhere
  BY <1>3, <1>c DEF Elsewhere, HandledInv, LinkInv, Live, Old, Exists, CallsStay
<1>4. CASE ListRepo
  BY <1>4 DEF ListRepo, Goto, HandledInv
<1>5. CASE Baseline \/ ApplyPolicy("skip_if_open") \/ SaveMerge
  BY <1>5, EndHandles DEF Baseline, ApplyPolicy, SaveMerge
<1>6. CASE NewTag
  BY <1>6 DEF NewTag, Goto, HandledInv
<1>7. CASE MarkTicketPending
  <2>1. CASE Done
    BY <2>1, EndHandles
  <2>2. CASE /\ row' = Stored([snap EXCEPT !.pendingTag = tag])
             /\ snap' = [snap EXCEPT !.pendingTag = tag]
             /\ Goto("send")
    BY <1>s, <2>2 DEF Stored, Rows, Goto, HandledInv
  <2>. QED
    BY <1>7, <2>1, <2>2 DEF MarkTicketPending
<1>8. CASE LinkTicket
  <2> DEFINE u == [snap EXCEPT !.openTicket = cur, !.openTag = tag, !.lastKnownTag = tag,
                               !.pendingTag = NoTag, !.lastError = FALSE]
  <2>1. CASE Done
    BY <2>1, EndHandles
  <2>2. CASE row' = Stored(u) /\ snap' = u /\ Goto("closeOld")
    <3>1. row'.lastKnownTag = tag /\ snap'.lastKnownTag = tag
      BY <1>s, <2>2 DEF Stored, Rows
    <3>. QED
      BY <2>2, <3>1 DEF Goto, HandledInv
  <2>. QED
    BY <1>8, <2>1, <2>2 DEF LinkTicket
<1>9. ASSUME NEW s \in Sources, Publish(s) \/ Retract(s) PROVE HandledInv'
  BY <1>9 DEF Publish, Retract, HandledInv
<1>10. ASSUME NEW s \in Sources, NEW p \in Projects, Retarget(s, p) PROVE HandledInv'
  BY <1>10 DEF Retarget, HandledInv
<1>. QED
  BY <1>1, <1>2, <1>3, <1>4, <1>5, <1>6, <1>7, <1>8, <1>9, <1>10, StepKinds DEF Writes

\* A step that makes a release the known one has handled it.
LEMMA KnownStep ==
  ASSUME ~MidRunEdits, TypeOK, LinkInv, HandledInv, [Next]_vars,
         row'.lastKnownTag # row.lastKnownTag, row'.lastKnownTag # NoTag,
         row.lastKnownTag # NoTag
  PROVE  \/ /\ row'.openTicket # NoCall
            /\ row'.openTag = row'.lastKnownTag
            /\ calls[row'.openTicket].text = row'.lastKnownTag
         \/ /\ phase = "newTag"
            /\ row'.openTicket # NoCall
            /\ row'.openTag = row.openTag
<1>s. row \in Rows /\ snap \in Rows /\ snap.lastKnownTag = row.lastKnownTag /\ row' # row
  BY DEF TypeOK, HandledInv
<1>1. ~Ends /\ ~Moves /\ ~Elsewhere /\ ~ListRepo /\ ~NewTag
  BY <1>s DEF Ends, Moves, Elsewhere, ListRepo, NewTag
<1>2. ~Baseline
  BY <1>s DEF Baseline, DecideTagChange
<1>3. \A s \in Sources : ~Publish(s) /\ ~Retract(s)
  BY <1>s DEF Publish, Retract
<1>4. \A s \in Sources, p \in Projects : ~Retarget(s, p)
  BY DEF Retarget, NewRow
<1>5. ~MarkTicketPending
  <2>1. Stored([snap EXCEPT !.pendingTag = tag]).lastKnownTag = snap.lastKnownTag
    BY <1>s DEF Stored, Rows
  <2>. QED
    BY <1>s, <2>1 DEF MarkTicketPending
<1>6. ASSUME ApplyPolicy("skip_if_open")
      PROVE  phase = "newTag" /\ row'.openTicket # NoCall /\ row'.openTag = row.openTag
  <2> DEFINE u == [snap EXCEPT !.lastKnownTag = tag, !.lastError = FALSE]
  <2>1. phase = "newTag" /\ row' = Stored(u)
    BY <1>s, <1>6 DEF ApplyPolicy, SavePollState
  <2>2. row'.openTicket = snap.openTicket /\ row'.openTag = snap.openTag
    BY <1>s, <2>1 DEF Stored, Rows
  <2>. QED
    BY <2>1, <2>2 DEF LinkInv, HandledInv
<1>7. ASSUME LinkTicket
      PROVE  /\ row'.openTicket # NoCall
             /\ row'.openTag = row'.lastKnownTag
             /\ calls[row'.openTicket].text = row'.lastKnownTag
  <2> DEFINE u == [snap EXCEPT !.openTicket = cur, !.openTag = tag, !.lastKnownTag = tag,
                               !.pendingTag = NoTag, !.lastError = FALSE]
  <2>1. phase = "link" /\ row' = Stored(u)
    BY <1>7 DEF LinkTicket
  <2>2. row'.openTicket = cur /\ row'.openTag = tag /\ row'.lastKnownTag = tag
    BY <1>s, <2>1 DEF Stored, Rows
  <2>. QED
    BY <2>1, <2>2, CallsAssumption DEF LinkInv, HandledInv
<1>8. ASSUME SaveMerge
      PROVE  /\ row'.openTicket # NoCall
             /\ row'.openTag = row'.lastKnownTag
             /\ calls[row'.openTicket].text = row'.lastKnownTag
  <2> DEFINE u == [snap EXCEPT !.openTag = tag, !.lastKnownTag = tag, !.lastError = FALSE]
  <2>1. phase = "saveMerge" /\ row' = Stored(u)
    BY <1>s, <1>8 DEF SaveMerge, SavePollState
  <2>2. row'.openTicket = snap.openTicket /\ row'.openTag = tag /\ row'.lastKnownTag = tag
    BY <1>s, <2>1 DEF Stored, Rows
  <2>. QED
    BY <2>1, <2>2 DEF LinkInv, HandledInv
<1>. QED
  BY <1>1, <1>2, <1>3, <1>4, <1>5, <1>6, <1>7, <1>8, StepKinds DEF Writes

LEMMA HandledKept ==
  ASSUME ~MidRunEdits
  PROVE  Spec => []HandledInv
<1>1. Init => HandledInv
  BY DEF Init, HandledInv
<1>2. TypeOK /\ LinkInv /\ HandledInv /\ [Next]_vars => HandledInv'
  BY HandledStep
<1>. QED
  BY <1>1, <1>2, LinksKept, Typing, PTL DEF Spec

\* No write marks a release as handled before the work for it is done, as long as targets
\* are changed between evaluations only.
THEOREM KnownIsHandled ==
  ASSUME ~MidRunEdits
  PROVE  Spec => KnownOnlyWhenHandled
<1>1. TypeOK /\ LinkInv /\ HandledInv /\ [Next]_vars =>
        [/\ row'.lastKnownTag # row.lastKnownTag
         /\ row'.lastKnownTag # NoTag
         => \/ row.lastKnownTag = NoTag
            \/ /\ row'.openTicket # NoCall
               /\ row'.openTag = row'.lastKnownTag
               /\ calls[row'.openTicket].text = row'.lastKnownTag
            \/ /\ phase = "newTag"
               /\ row'.openTicket # NoCall
               /\ row'.openTag = row.openTag]_vars
  BY KnownStep
<1>. QED
  BY <1>1, HandledKept, LinksKept, Typing, PTL DEF Spec, KnownOnlyWhenHandled

-----------------------------------------------------------------------------
(* A ticket is closed for a newer, linked one                              *)

\* The open ticket of the row, or of the copy, is for no newer release than the known one.
Describes(r) ==
  /\ r.lastKnownTag.no <= latest[r.target.source]
  /\ r.openTicket # NoCall => /\ r.lastKnownTag # NoTag
                              /\ calls[r.openTicket].tag.no <= r.lastKnownTag.no

\* Releases are handled in the order of their publication.
OrderInv ==
  /\ Describes(row) /\ Describes(snap)
  /\ phase \in TagPhases => snap.lastKnownTag.no <= tag.no
  /\ phase \in {"newTag", "mark"} => snap.lastKnownTag.no < tag.no
  /\ old # NoCall => phase \in TagPhases /\ calls[old].tag.no < tag.no
  /\ phase = "closeOld" => calls[cur].tag = tag

\* The number of a tag is a number, of no tag zero.
LEMMA Numbers ==
  ASSUME TypeOK
  PROVE  /\ row.lastKnownTag.no \in Nat /\ snap.lastKnownTag.no \in Nat /\ tag.no \in Nat
         /\ \A c \in Calls : calls[c].tag.no \in Nat
         /\ \A s \in Sources : latest[s] \in Nat
         /\ row.target.source \in Sources /\ snap.target.source \in Sources
<1>1. \A t \in Tags \cup {NoTag} : t.no \in Nat
  BY TagFields DEF NoTag
<1>. QED
  BY <1>1, BoundsAssumption DEF TypeOK, Rows, Targets, Requests

\* The tickets that the invariant is about keep their releases.
LEMMA TicketKeepsTag ==
  ASSUME TypeOK, LinkInv, [Next]_vars
  PROVE  /\ row.openTicket # NoCall => calls'[row.openTicket].tag = calls[row.openTicket].tag
         /\ snap.openTicket # NoCall => calls'[snap.openTicket].tag = calls[snap.openTicket].tag
         /\ old # NoCall => calls'[old].tag = calls[old].tag
         /\ phase \in {"waiting", "link", "closeOld"} => calls'[cur].tag = calls[cur].tag
BY StepKeepsCalls DEF CallsStay, LinkInv, Old, Exists, Live

\* The end of an evaluation whose last write described its ticket.
LEMMA EndKeepsOrder ==
  ASSUME TypeOK, LinkInv, SourceInv, OrderInv, [Next]_vars, Done, latest' = latest,
         NEW u \in Rows, SavePollState(u), u.target = snap.target,
         u.lastKnownTag.no <= latest[snap.target.source],
         u.openTicket # NoCall => /\ u.lastKnownTag # NoTag
                                  /\ calls'[u.openTicket].tag.no <= u.lastKnownTag.no
  PROVE  OrderInv'
<1>1. \/ row' = row
      \/ /\ row'.target = row.target /\ row'.lastKnownTag = u.lastKnownTag
         /\ row'.openTicket = u.openTicket
  BY DEF TypeOK, SavePollState, Stored, Rows
<1>2. Describes(row)'
  BY <1>1, TicketKeepsTag DEF Describes, OrderInv, SourceInv
<1>. QED
  BY <1>2 DEF OrderInv, Describes, Done, TagPhases

LEMMA OrderStep ==
  ASSUME ~Retractions, TypeOK', IInv, LinkInv, SourceInv, OrderInv, [Next]_vars
  PROVE  OrderInv'
<1>s. TypeOK /\ row \in Rows /\ snap \in Rows
  BY DEF IInv, TypeOK
<1>k. /\ row.openTicket # NoCall => calls'[row.openTicket].tag = calls[row.openTicket].tag
      /\ snap.openTicket # NoCall => calls'[snap.openTicket].tag = calls[snap.openTicket].tag
      /\ old # NoCall => calls'[old].tag = calls[old].tag
      /\ phase \in {"waiting", "link", "closeOld"} => calls'[cur].tag = calls[cur].tag
  BY <1>s, TicketKeepsTag
<1>p. phase \in TagPhases => tag \in Tags /\ tag.no <= latest[snap.target.source]
  BY DEF IInv, PhaseInv
<1>1. CASE Ends
  <2>1. Describes(row)'
    BY <1>1, <1>k DEF Ends, Describes, OrderInv, SourceInv
  <2>. QED
    BY <1>1, <2>1 DEF Ends, OrderInv, Describes, Done, TagPhases
<1>2. CASE Moves
  <2>1. Describes(row)' /\ Describes(snap)'
    BY <1>2, <1>k DEF Moves, OrderInv, Describes
  <2>2. old' # NoCall => calls'[old'].tag.no < tag.no
    BY <1>2, <1>k, <1>s, Numbers DEF Moves, OrderInv, Describes, LinkInv, Old, TagPhases, Phases
  <2>. QED
    BY <1>2, <2>1, <2>2 DEF Moves, OrderInv, TagPhases, Phases
<1>3. CASE Elsewhere
  BY <1>3, <1>k DEF Elsewhere, OrderInv, Describes
<1>4. CASE ListRepo
  BY <1>4 DEF ListRepo, Goto, OrderInv, Describes, TagPhases
<1>5. CASE Baseline
  <2> DEFINE u == [snap EXCEPT !.lastKnownTag = Found, !.lastError = FALSE]
  <2>1. u \in Rows /\ u.target = snap.target /\ u.lastKnownTag = Found /\ u.openTicket = snap.openTicket
    BY <1>s, NewestTyped DEF Found, Rows
  <2>2. snap.openTicket = NoCall
    BY <1>5 DEF Baseline, DecideTagChange, OrderInv, Describes
  <2>3. Found.no <= latest[snap.target.source]
    BY <1>s, Numbers DEF Found, Newest, Tag, NoTag
  <2>4. SavePollState(u) /\ Done /\ latest' = latest
    BY <1>5 DEF Baseline
  <2> HIDE DEF u
  <2>. QED
    BY <1>s, <2>1, <2>2, <2>3, <2>4, EndKeepsOrder
<1>6. CASE NewTag
  <2>1. /\ phase = "listed" /\ snap.lastKnownTag # NoTag /\ Found \notin {NoTag, snap.lastKnownTag}
        /\ tag' = Found /\ UNCHANGED <<row, snap, old, cur, calls, latest>>
        /\ phase' \in {"mark", "newTag"}
    BY <1>6 DEF NewTag, DecideTagChange, Goto
  <2>2. Found \in Tags /\ Found.no = latest[snap.target.source] /\ Found.from = snap.target.source
    BY <1>s, <2>1, NewestTyped DEF Found, Newest, Tag
  <2>3. snap.lastKnownTag.no < Found.no
    BY <1>s, <2>1, <2>2, TagsEqual, Numbers DEF OrderInv, Describes, SourceInv, KnownOf
  <2>4. old = NoCall
    BY <2>1 DEF OrderInv, TagPhases
  <2>. QED
    BY <1>s, <2>1, <2>2, <2>3, <2>4, Numbers DEF OrderInv, Describes
<1>7. CASE ApplyPolicy("skip_if_open")
  <2> DEFINE u == [snap EXCEPT !.lastKnownTag = tag, !.lastError = FALSE]
  <2>1. u \in Rows /\ u.target = snap.target /\ u.lastKnownTag = tag /\ u.openTicket = snap.openTicket
    BY <1>s DEF TypeOK, Rows
  <2>2. phase = "newTag" /\ SavePollState(u) /\ Done /\ latest' = latest
    BY <1>7 DEF ApplyPolicy
  <2>3. tag # NoTag /\ tag.no <= latest[snap.target.source] /\ snap.lastKnownTag.no < tag.no
    BY <1>p, <2>2, TagFields DEF OrderInv, TagPhases, Phases, NoTag
  <2>4. snap.openTicket # NoCall => calls'[snap.openTicket].tag.no <= tag.no
    BY <1>s, <1>k, <2>3, Numbers DEF OrderInv, Describes, LinkInv, Old
  <2> HIDE DEF u
  <2>. QED
    BY <1>s, <2>1, <2>2, <2>3, <2>4, EndKeepsOrder
<1>8. CASE MarkTicketPending
  <2>1. CASE row' = row /\ Done
    BY <1>8, <1>k, <2>1 DEF MarkTicketPending, Done, OrderInv, Describes, TagPhases
  <2>2. CASE /\ row' = Stored([snap EXCEPT !.pendingTag = tag])
             /\ snap' = [snap EXCEPT !.pendingTag = tag]
             /\ Goto("send") /\ UNCHANGED <<tag, old, cur>>
    <3>1. /\ row'.target = row.target /\ row'.lastKnownTag = snap.lastKnownTag
          /\ row'.openTicket = snap.openTicket /\ snap'.openTicket = snap.openTicket
          /\ snap'.target = snap.target /\ snap'.lastKnownTag = snap.lastKnownTag
      BY <1>s, <2>2 DEF Stored, Rows
    <3>. QED
      BY <1>8, <2>2, <3>1 DEF MarkTicketPending, Goto, OrderInv, Describes, SourceInv, TagPhases, Phases
  <2>. QED
    BY <1>8, <2>1, <2>2 DEF MarkTicketPending
<1>9. CASE LinkTicket
  <2> DEFINE u == [snap EXCEPT !.openTicket = cur, !.openTag = tag, !.lastKnownTag = tag,
                               !.pendingTag = NoTag, !.lastError = FALSE]
  <2>1. u.target = snap.target /\ u.lastKnownTag = tag /\ u.openTicket = cur
    BY <1>s DEF Rows
  <2>2. /\ phase = "link" /\ row' = Stored(u) /\ latest' = latest
        /\ Done \/ (snap' = u /\ UNCHANGED <<tag, old, cur>> /\ phase' = "closeOld")
    BY <1>9 DEF LinkTicket, Goto
  <2>3. row'.target = row.target /\ row'.lastKnownTag = tag /\ row'.openTicket = cur
    BY <1>s, <2>2 DEF Stored, Rows
  <2>4. /\ tag.no <= latest[snap.target.source] /\ tag # NoTag /\ tag.no \in Nat
        /\ calls'[cur].tag = tag
    BY <1>p, <1>k, <2>2, TagFields DEF IInv, PhaseInv, TagPhases, Phases, NoTag
  <2> HIDE DEF u
  <2>5. Describes(row)'
    BY <2>2, <2>3, <2>4 DEF Describes, SourceInv
  <2>6. snap' = u => Describes(snap)'
    BY <2>1, <2>2, <2>4 DEF Describes
  <2>7. CASE Done
    BY <2>5, <2>7 DEF Describes, OrderInv, Done, TagPhases
  <2>8. CASE snap' = u /\ UNCHANGED <<tag, old, cur>> /\ phase' = "closeOld"
    BY <1>k, <2>1, <2>2, <2>4, <2>5, <2>6, <2>8 DEF OrderInv, TagPhases, Phases
  <2>. QED
    BY <2>2, <2>7, <2>8
<1>10. CASE SaveMerge
  <2> DEFINE u == [snap EXCEPT !.openTag = tag, !.lastKnownTag = tag, !.lastError = FALSE]
  <2>1. u \in Rows /\ u.target = snap.target /\ u.lastKnownTag = tag /\ u.openTicket = snap.openTicket
    BY <1>s DEF TypeOK, Rows
  <2>2. phase = "saveMerge" /\ SavePollState(u) /\ Done /\ latest' = latest
    BY <1>10 DEF SaveMerge
  <2>3. tag # NoTag /\ tag.no <= latest[snap.target.source] /\ snap.lastKnownTag.no <= tag.no
    BY <1>p, <2>2, TagFields DEF OrderInv, TagPhases, Phases, NoTag
  <2>4. snap.openTicket # NoCall => calls'[snap.openTicket].tag.no <= tag.no
    BY <1>s, <1>k, <2>3, Numbers DEF OrderInv, Describes, LinkInv, Old
  <2> HIDE DEF u
  <2>. QED
    BY <1>s, <2>1, <2>2, <2>3, <2>4, EndKeepsOrder
<1>11. ASSUME NEW s \in Sources, Publish(s) PROVE OrderInv'
  <2>1. \A t \in Sources : latest[t] <= latest'[t]
    BY <1>s, <1>11, Numbers DEF Publish, TypeOK
  <2>. QED
    BY <1>s, <1>11, <2>1, TypeOK', Numbers DEF Publish, OrderInv, Describes, TypeOK
<1>12. ASSUME NEW s \in Sources, NEW p \in Projects, Retarget(s, p) PROVE OrderInv'
  <2>1. /\ row'.target.source = s /\ row'.openTicket = NoCall
        /\ row'.lastKnownTag = IF s = row.target.source THEN row.lastKnownTag ELSE NoTag
        /\ snap' = IF phase = "idle" THEN row' ELSE snap
        /\ UNCHANGED <<phase, tag, old, cur, calls, latest>>
    BY <1>12 DEF Retarget, NewRow
  <2>. QED
    BY <1>s, <2>1, Numbers DEF OrderInv, Describes, TagPhases, NoTag
<1>. QED
  BY <1>s, <1>1, <1>2, <1>3, <1>4, <1>5, <1>6, <1>7, <1>8, <1>9, <1>10, <1>11, <1>12, StepKinds
     DEF Writes, Retract

\* The ticket that replaces a closed one stays linked.
LEMMA ReplacementStays ==
  ASSUME IInv, LinkInv, OrderInv, NoOrphanedSupersede, [Next]_vars
  PROVE  NoOrphanedSupersede'
<1> SUFFICES ASSUME NEW c \in Calls, calls'[c].status = "superseded"
             PROVE  \E d \in Calls : /\ Exists(d)' /\ calls'[d].linked
                                     /\ calls'[d].tag.no > calls'[c].tag.no
    BY DEF NoOrphanedSupersede
<1>1. CallsStay /\ TypeOK
  BY StepKeepsCalls DEF IInv
<1>2. \E d \in Calls : Exists(d) /\ calls[d].linked /\ calls[d].tag.no > calls[c].tag.no
  <2>1. CASE calls[c].status = "superseded"
    BY <2>1 DEF NoOrphanedSupersede
  <2>2. CASE phase = "closeOld" /\ c = old
    <3>1. cur \in Calls /\ Exists(cur) /\ calls[cur].linked /\ old # NoCall
      BY <2>2 DEF LinkInv
    <3>2. calls[cur].tag.no > calls[old].tag.no
      BY <1>1, <2>2, <3>1, Numbers DEF OrderInv
    <3>. QED
      BY <2>2, <3>1, <3>2
  <2>. QED
    BY <1>1, <2>1, <2>2 DEF CallsStay
<1>3. PICK d \in Calls : Exists(d) /\ calls[d].linked /\ calls[d].tag.no > calls[c].tag.no
  BY <1>2
<1>4. Exists(d)' /\ calls'[d].linked /\ calls'[d].tag = calls[d].tag
  BY <1>1, <1>3 DEF CallsStay, Exists
<1>5. calls'[c].tag = calls[c].tag
  <2>1. calls[c].status = "superseded" \/ (phase = "closeOld" /\ c = old)
    BY <1>1 DEF CallsStay
  <2>2. Exists(c)
    BY <2>1 DEF LinkInv, Old
  <2>. QED
    BY <1>1, <2>2 DEF CallsStay, Exists
<1>. QED
  BY <1>3, <1>4, <1>5

\* The old ticket is closed only after the ticket of a newer release was durably linked,
\* and that link is never lost: however the ticket project is edited in between, as long
\* as sources do not withdraw releases and no edit changes the source in mid-evaluation.
THEOREM ReplacedBeforeClosed ==
  ASSUME ~Retractions, EditsKeepSource
  PROVE  Spec => []NoOrphanedSupersede
<1>1. IInv /\ [Next]_vars => IInv'
  BY InvStep
<1>2. Spec => []IInv
  BY <1>1, InvInit, PTL DEF Spec
<1>3. Init => OrderInv /\ NoOrphanedSupersede
  <2>1. Init => OrderInv
    BY InvInit, Numbers DEF IInv, Init, OrderInv, Describes, NewRow, NoTag, TagPhases
  <2>2. Init => NoOrphanedSupersede
    BY DEF Init, NoOrphanedSupersede
  <2>. QED
    BY <2>1, <2>2
<1>4. IInv /\ TypeOK' /\ LinkInv /\ SourceInv /\ OrderInv /\ NoOrphanedSupersede /\ [Next]_vars
        => OrderInv' /\ NoOrphanedSupersede'
  BY OrderStep, ReplacementStays
<1>. QED
  BY <1>2, <1>3, <1>4, SourceKept, LinksKept, Typing, PTL DEF Spec

=============================================================================
