-------------------------- MODULE PollEngineProofs --------------------------
(***************************************************************************)
(* One ticket per release, for every set of sources, ticket projects and   *)
(* create calls and every bound: proofs about module PollEngine.           *)
(***************************************************************************)
EXTENDS PollEngine, TLAPS

-----------------------------------------------------------------------------
(* The inductive invariant                                                 *)

\* The phases that work on a release tag, and those that wait for its create.
TagPhases    == Phases \ {"idle", "listed"}
CreatePhases == {"send", "waiting", "link"}

\* What each phase knows.
PhaseInv ==
  /\ phase = "idle" => snap = row
  /\ phase \in TagPhases =>
       /\ tag \in Tags
       /\ tag.from = snap.target.source
       /\ tag.no <= latest[snap.target.source]
  /\ phase \in {"newTag", "mark"} => tag # snap.lastKnownTag
  /\ phase \in CreatePhases => snap.pendingTag = tag
  /\ phase \in {"waiting", "link"} =>
       /\ cur \in Calls
       /\ Live(cur)
       /\ ~calls[cur].linked
       /\ calls[cur].target = snap.target
       /\ calls[cur].tag = tag

\* The copy is older than the row when the target was changed, and agrees with it on
\* both tags otherwise.
CopyInv ==
  /\ snap.target.epoch <= row.target.epoch
  /\ snap.target.epoch = row.target.epoch =>
       /\ snap.target = row.target
       /\ snap.lastKnownTag = row.lastKnownTag
       /\ snap.pendingTag = row.pendingTag

\* The newest release that the evaluation, or the next one, may still ticket.
Frontier == IF phase \in TagPhases THEN tag.no ELSE latest[snap.target.source]

\* Every request is for a release up to the frontier; if it is for that release itself,
\* the copy remembers it, as known when it is linked and as pending when it is not.
CallInv(c) ==
  Live(c) =>
    /\ calls[c].tag \in Tags
    /\ calls[c].tag.from = calls[c].target.source
    /\ calls[c].target.epoch <= snap.target.epoch
    /\ calls[c].target.epoch = snap.target.epoch =>
         /\ calls[c].target = snap.target
         /\ calls[c].tag.no <= Frontier
         /\ calls[c].tag.no = Frontier =>
              /\ phase # "send"
              /\ calls[c].tag = IF calls[c].linked THEN snap.lastKnownTag
                                                   ELSE snap.pendingTag

IInv ==
  /\ TypeOK
  /\ PhaseInv
  /\ CopyInv
  /\ \A c \in Calls : CallInv(c)
  /\ OneRequestPerRelease

-----------------------------------------------------------------------------
(* Type correctness                                                        *)

\* A write keeps the row a row.
LEMMA WriteTyped ==
  ASSUME row \in Rows, NEW u \in Rows
  PROVE  /\ Stored(u) \in Rows
         /\ SavePollState(u) => row' \in Rows
         /\ RecordError(u) => row' \in Rows
BY DEF Stored, SavePollState, RecordError, Rows

\* A request stays a request when its link or its answer is noted, and when the status or the
\* text of its ticket changes.
LEMMA RequestTyped ==
  ASSUME calls \in [Calls -> Requests], NEW c, NEW t \in Tags \cup {NoTag}
  PROVE  /\ [calls EXCEPT ![c].linked = TRUE] \in [Calls -> Requests]
         /\ [calls EXCEPT ![c].state = "rejected"] \in [Calls -> Requests]
         /\ [calls EXCEPT ![c].status = "superseded"] \in [Calls -> Requests]
         /\ [calls EXCEPT ![c].text = t] \in [Calls -> Requests]
<1>1. [calls EXCEPT ![c].linked = TRUE] \in [Calls -> Requests]
  BY DEF Requests
<1>2. [calls EXCEPT ![c].state = "rejected"] \in [Calls -> Requests]
  BY DEF Requests, CallStates
<1>3. [calls EXCEPT ![c].status = "superseded"] \in [Calls -> Requests]
  BY DEF Requests, Statuses
<1>4. [calls EXCEPT ![c].text = t] \in [Calls -> Requests]
  BY DEF Requests
<1>. QED
  BY <1>1, <1>2, <1>3, <1>4

\* A row stays a row when its note is set or cleared, and when it links a ticket.
LEMMA LinkedTyped ==
  ASSUME NEW r \in Rows, NEW c \in Calls \cup {NoCall}, NEW t \in Tags \cup {NoTag}
  PROVE  /\ [r EXCEPT !.pendingTag = t] \in Rows
         /\ [r EXCEPT !.pendingTag = NoTag] \in Rows
         /\ [r EXCEPT !.openTicket = c, !.openTag = t, !.lastKnownTag = t,
                      !.pendingTag = NoTag, !.lastError = FALSE] \in Rows
<1>1. [r EXCEPT !.pendingTag = t] \in Rows /\ [r EXCEPT !.pendingTag = NoTag] \in Rows
  BY DEF Rows
<1>2. [r EXCEPT !.openTicket = c, !.openTag = t] \in Rows
  BY DEF Rows
<1>3. ASSUME NEW w \in Rows
      PROVE  [w EXCEPT !.lastKnownTag = t, !.pendingTag = NoTag, !.lastError = FALSE] \in Rows
  BY <1>3 DEF Rows
<1>4. [[r EXCEPT !.openTicket = c, !.openTag = t]
         EXCEPT !.lastKnownTag = t, !.pendingTag = NoTag, !.lastError = FALSE] \in Rows
  BY <1>2, <1>3
<1>. QED
  BY <1>1, <1>4

\* The end of an evaluation keeps its variables typed.
LEMMA DoneTyped ==
  ASSUME row' \in Rows, Done
  PROVE  /\ snap' \in Rows
         /\ phase' \in Phases
         /\ tag' \in Tags \cup {NoTag}
         /\ old' \in Calls \cup {NoCall}
         /\ cur' \in Calls \cup {NoCall}
BY DEF Done, Phases

\* The newest release of a source is a tag, if there is one.
LEMMA NewestTyped ==
  ASSUME TypeOK, NEW repo \in Rows
  PROVE  Newest(repo) \in Tags \cup {NoTag}
BY BoundsAssumption DEF TypeOK, Newest, Tags, Tag, Rows, Targets

\* Every step keeps every variable in its type.
LEMMA TypeStep == TypeOK /\ [Next]_vars => TypeOK'
<1> SUFFICES ASSUME TypeOK, [Next]_vars
             PROVE  TypeOK'
    OBVIOUS
<1> USE DoneTyped DEF TypeOK, Goto, SavePollState, RecordError, Stored, Rows, Phases
<1>1. CASE ListRepo
  BY <1>1 DEF ListRepo
<1>2. CASE Interrupt
  BY <1>2, BoundsAssumption DEF Interrupt
<1>3. CASE FetchFails
  BY <1>3 DEF FetchFails
<1>4. CASE Baseline
  <2>. HIDE DEF TypeOK, Goto, SavePollState, RecordError, Stored, Rows, Phases
  <2>1. snap \in Rows /\ Found \in Tags \cup {NoTag}
    BY NewestTyped DEF TypeOK, Found
  <2>2. [snap EXCEPT !.lastKnownTag = Found, !.lastError = FALSE] \in Rows
    BY <2>1 DEF Rows
  <2>3. row' \in Rows
    BY <1>4, <2>2, WriteTyped DEF Baseline, TypeOK
  <2>4. Done /\ UNCHANGED <<calls, latest, stops>>
    BY <1>4 DEF Baseline
  <2>. QED
    BY <2>3, <2>4, DoneTyped DEF TypeOK
<1>5. CASE Skip
  BY <1>5 DEF Skip
<1>6. CASE NewTag
  BY <1>6, NewestTyped DEF NewTag, Found
<1>7. CASE StatusFails
  BY <1>7 DEF StatusFails
<1>8. CASE OpenTicketClosed
  BY <1>8 DEF OpenTicketClosed
<1>9. ASSUME NEW policy \in Policies, ApplyPolicy(policy) PROVE TypeOK'
  BY <1>9 DEF ApplyPolicy
<1>10. CASE RefuseRepeatedCreate
  BY <1>10 DEF RefuseRepeatedCreate
<1>11. CASE InputFails
  BY <1>11 DEF InputFails
<1>12. CASE MarkTicketPending
  <2>. HIDE DEF TypeOK, Goto, SavePollState, RecordError, Stored, Rows, Phases
  <2> DEFINE marked == [snap EXCEPT !.pendingTag = tag]
  <2>1. marked \in Rows
    BY LinkedTyped DEF TypeOK
  <2>2. row' \in Rows /\ UNCHANGED <<calls, latest, stops>>
    <3>1. row' = Stored(marked) \/ row' = row
      BY <1>12 DEF MarkTicketPending
    <3>2. UNCHANGED <<calls, latest, stops>>
      BY <1>12 DEF MarkTicketPending
    <3>. QED
      BY <2>1, <3>1, <3>2, WriteTyped DEF TypeOK
  <2>3. CASE Done
    BY <2>2, <2>3, DoneTyped DEF TypeOK
  <2>4. CASE ~Done
    <3>1. snap' = marked /\ phase' = "send" /\ UNCHANGED <<tag, old, cur>>
      BY <1>12, <2>4 DEF MarkTicketPending, Goto
    <3>. QED
      BY <2>1, <2>2, <3>1 DEF TypeOK, Phases
  <2>. QED
    BY <2>3, <2>4
<1>13. ASSUME NEW c \in Calls, SendCreate(c) PROVE TypeOK'
  BY <1>13 DEF SendCreate, Requests, CallStates, Statuses
<1>14. CASE CreateAnswered
  BY <1>14 DEF CreateAnswered
<1>15. CASE CreateRejected
  <2>. HIDE DEF TypeOK, Goto, SavePollState, RecordError, Stored, Rows, Phases
  <2>1. row' \in Rows
    BY <1>15, WriteTyped, LinkedTyped DEF CreateRejected, TypeOK
  <2>2. calls' \in [Calls -> Requests]
    <3>1. calls \in [Calls -> Requests] /\ NoTag \in Tags \cup {NoTag}
      BY DEF TypeOK
    <3>. QED
      BY <1>15, <3>1, RequestTyped DEF CreateRejected
  <2>3. Done /\ latest' = latest /\ stops' = stops
    BY <1>15 DEF CreateRejected
  <2>. QED
    BY <2>1, <2>2, <2>3, DoneTyped DEF TypeOK
<1>16. CASE CreateUnclear
  BY <1>16 DEF CreateUnclear
<1>17. CASE LinkTicket
  <2>. HIDE DEF TypeOK, Goto, SavePollState, RecordError, Stored, Rows, Phases
  <2> DEFINE linked == [snap EXCEPT !.openTicket = cur, !.openTag = tag, !.lastKnownTag = tag,
                                    !.pendingTag = NoTag, !.lastError = FALSE]
  <2>1. linked \in Rows
    BY LinkedTyped DEF TypeOK
  <2>2. row' \in Rows
    <3>1. row' = Stored(linked)
      BY <1>17 DEF LinkTicket
    <3>. QED
      BY <2>1, <3>1, WriteTyped DEF TypeOK
  <2>3. calls' \in [Calls -> Requests]
    <3>1. calls \in [Calls -> Requests] /\ NoTag \in Tags \cup {NoTag}
      BY DEF TypeOK
    <3>. QED
      BY <1>17, <3>1, RequestTyped DEF LinkTicket
  <2>4. latest' = latest /\ stops' = stops
    BY <1>17 DEF LinkTicket
  <2>5. CASE Done
    BY <2>2, <2>3, <2>4, <2>5, DoneTyped DEF TypeOK
  <2>6. CASE ~Done
    <3>1. snap' = linked /\ phase' = "closeOld" /\ UNCHANGED <<tag, old, cur>>
      BY <1>17, <2>6 DEF LinkTicket, Goto
    <3>. QED
      BY <2>1, <2>2, <2>3, <2>4, <3>1 DEF TypeOK, Phases
  <2>. QED
    BY <2>5, <2>6
<1>18. CASE LinkLost
  BY <1>18 DEF LinkLost
<1>19. CASE CloseOldTicket
  <2>. HIDE DEF TypeOK, Goto, SavePollState, RecordError, Stored, Rows, Phases
  <2> DEFINE closed == [calls EXCEPT ![old].status = "superseded"]
  <2>1. calls' \in [Calls -> Requests]
    <3>1. calls \in [Calls -> Requests] /\ closed \in [Calls -> Requests]
      BY RequestTyped DEF TypeOK
    <3>2. calls' = calls \/ calls' = closed
      BY <1>19 DEF CloseOldTicket
    <3>. QED
      BY <3>1, <3>2
  <2>2. row' = row /\ latest' = latest /\ stops' = stops
    BY <1>19 DEF CloseOldTicket
  <2>3. CASE Done
    BY <2>1, <2>2, <2>3, DoneTyped DEF TypeOK
  <2>4. CASE ~Done
    <3>1. phase' = "reportOld" /\ UNCHANGED <<snap, tag, old, cur>>
      BY <1>19, <2>4 DEF CloseOldTicket, Goto
    <3>. QED
      BY <2>1, <2>2, <3>1 DEF TypeOK, Phases
  <2>. QED
    BY <2>3, <2>4
<1>20. CASE ReportOldTicket
  BY <1>20 DEF ReportOldTicket
<1>21. CASE MergeTicket
  <2>. HIDE DEF TypeOK, Goto, SavePollState, RecordError, Stored, Rows, Phases
  <2> DEFINE merged == [calls EXCEPT ![snap.openTicket].text = tag]
  <2>1. calls \in [Calls -> Requests] /\ merged \in [Calls -> Requests]
    BY RequestTyped DEF TypeOK
  <2>2. (calls' = calls \/ calls' = merged) /\ UNCHANGED <<latest, stops>>
    BY <1>21 DEF MergeTicket
  <2>3. row' \in Rows
    <3>1. RecordError(snap) \/ row' = row
      BY <1>21 DEF MergeTicket
    <3>. QED
      BY <3>1, WriteTyped DEF TypeOK
  <2>4. CASE Done
    BY <2>1, <2>2, <2>3, <2>4, DoneTyped DEF TypeOK
  <2>5. CASE ~Done
    <3>1. phase' = "saveMerge" /\ UNCHANGED <<snap, tag, old, cur>>
      BY <1>21, <2>5 DEF MergeTicket, Goto
    <3>. QED
      BY <2>1, <2>2, <2>3, <3>1 DEF TypeOK, Phases
  <2>. QED
    BY <2>4, <2>5
<1>22. CASE SaveMerge
  BY <1>22 DEF SaveMerge
<1>23. ASSUME NEW c \in Calls, StoreTicket(c) PROVE TypeOK'
  BY <1>23 DEF StoreTicket, Requests, CallStates, Statuses
<1>24. ASSUME NEW c \in Calls, NEW status \in {"open", "closed", "unknown"}, MoveTicket(c, status) PROVE TypeOK'
  BY <1>24 DEF MoveTicket, Requests, CallStates, Statuses
<1>25. ASSUME NEW s \in Sources, Publish(s) PROVE TypeOK'
  BY <1>25, BoundsAssumption DEF Publish
<1>26. ASSUME NEW s \in Sources, Retract(s) PROVE TypeOK'
  BY <1>26, BoundsAssumption DEF Retract
<1>27. ASSUME NEW s \in Sources, NEW p \in Projects, Retarget(s, p) PROVE TypeOK'
  <2>. HIDE DEF TypeOK, Goto, SavePollState, RecordError, Stored, Rows, Phases
  <2> DEFINE target == [source |-> s, project |-> p, epoch |-> row.target.epoch + 1]
  <2>1. row \in Rows /\ row.target \in Targets /\ row.lastKnownTag \in Tags \cup {NoTag}
    BY DEF TypeOK, Rows
  <2>2. target \in Targets
    BY <1>27, <2>1, BoundsAssumption DEF Retarget, Targets
  <2>3. \A t \in Tags \cup {NoTag} : [NewRow(target) EXCEPT !.lastKnownTag = t] \in Rows
    <3>1. NewRow(target) \in Rows
      BY <2>2 DEF NewRow, Rows
    <3>. QED
      BY <3>1 DEF Rows
  <2>4. row' \in Rows
    BY <1>27, <2>1, <2>3 DEF Retarget
  <2>5. (snap' = row' \/ snap' = snap) /\ UNCHANGED <<phase, tag, old, cur, calls, latest, stops>>
    BY <1>27 DEF Retarget
  <2>. QED
    BY <2>4, <2>5 DEF TypeOK
<1>28. CASE Crash
  BY <1>28, BoundsAssumption DEF Crash
<1>29. CASE UNCHANGED vars
  BY <1>29 DEF vars
<1>30. QED
  BY <1>1, <1>2, <1>3, <1>4, <1>5, <1>6, <1>7, <1>8, <1>9, <1>10, <1>11, <1>12, <1>13, <1>14, <1>15, <1>16, <1>17, <1>18, <1>19, <1>20, <1>21, <1>22, <1>23, <1>24, <1>25, <1>26, <1>27, <1>28, <1>29 DEF Next, Evaluate, Environment

\* Every variable keeps its type.
THEOREM Typing == Spec => []TypeOK
<1>1. Init => TypeOK
  BY BoundsAssumption DEF Init, TypeOK, Rows, Targets, NewRow, Requests, CallStates,
     Statuses, Phases
<1>. QED
  BY <1>1, TypeStep, PTL DEF Spec

-----------------------------------------------------------------------------
(* One request per release                                                 *)

\* A tag is its source and its number.
LEMMA TagsEqual ==
  ASSUME NEW t \in Tags, NEW u \in Tags, t.from = u.from, t.no = u.no
  PROVE  t = u
BY DEF Tags, Tag

\* The source and the number of a tag are what they were made from.
LEMMA TagFields ==
  ASSUME NEW t \in Tags
  PROVE  t.from \in Sources /\ t.no \in 1..MaxTag /\ t.no \in Nat /\ t.no > 0
BY BoundsAssumption DEF Tags, Tag

\* A step that leaves every request's release, target and link alone and sends none.
CallsKept ==
  \A c \in Calls : /\ calls'[c].state \in {"sent", "stored"} <=> Live(c)
                   /\ calls'[c].target = calls[c].target
                   /\ calls'[c].tag = calls[c].tag
                   /\ calls'[c].linked = calls[c].linked

\* A step after which every live request was live before, for the same release.
CallsShrink ==
  \A c \in Calls : calls'[c].state \in {"sent", "stored"} =>
                   /\ Live(c)
                   /\ calls'[c].target = calls[c].target
                   /\ calls'[c].tag = calls[c].tag

\* OneRequestPerRelease survives a step that makes no request live and changes no release.
LEMMA ShrinkingKeepsOne ==
  ASSUME OneRequestPerRelease, CallsShrink
  PROVE  OneRequestPerRelease'
BY DEF OneRequestPerRelease, CallsShrink, Live

\* The end of an evaluation keeps the invariant if the row it leaves behind remembers
\* every request for the newest release.
LEMMA Finish ==
  ASSUME IInv, TypeOK', phase # "idle", Done, latest' = latest, CallsShrink,
         row'.target = row.target,
         snap.target = row.target =>
           \A c \in Calls :
             /\ Live(c)' /\ calls[c].target = snap.target
             /\ calls[c].tag.no = latest[snap.target.source]
             => calls[c].tag = IF calls'[c].linked THEN row'.lastKnownTag ELSE row'.pendingTag
  PROVE  IInv'
<1>1. PhaseInv' /\ CopyInv'
  BY DEF Done, PhaseInv, CopyInv, TagPhases, CreatePhases, TypeOK, Rows, Targets
<1>2. ASSUME NEW c \in Calls PROVE CallInv(c)'
  <2> SUFFICES ASSUME Live(c)' PROVE CallInv(c)'
    BY DEF CallInv
  <2>1. Live(c) /\ calls'[c].target = calls[c].target /\ calls'[c].tag = calls[c].tag
    BY DEF CallsShrink, Live
  <2>2. /\ calls[c].tag \in Tags
        /\ calls[c].tag.from = calls[c].target.source
        /\ calls[c].target.epoch <= snap.target.epoch
    BY <2>1 DEF IInv, CallInv
  <2>3. /\ calls[c].target.epoch \in Nat
        /\ snap.target.epoch \in Nat
        /\ row.target.epoch \in Nat
        /\ snap.target.source \in Sources
        /\ latest[snap.target.source] \in Nat
    BY BoundsAssumption DEF IInv, TypeOK, Rows, Targets, Requests
  <2>4. snap' = row' /\ phase' = "idle" /\ snap'.target = row.target
    BY DEF Done
  <2>5. calls[c].target.epoch <= row.target.epoch
    BY <2>2, <2>3 DEF IInv, CopyInv
  <2>6. ASSUME calls[c].target.epoch = row.target.epoch
        PROVE  /\ calls[c].target = row.target
               /\ snap.target = row.target
               /\ calls[c].tag.no <= latest[row.target.source]
    <3>1. snap.target.epoch = row.target.epoch
      BY <2>2, <2>3, <2>6 DEF IInv, CopyInv
    <3>2. snap.target = row.target /\ calls[c].target = snap.target
      BY <2>1, <2>6, <3>1 DEF IInv, CopyInv, CallInv
    <3>3. calls[c].tag.no <= Frontier
      BY <2>1, <2>6, <3>1 DEF IInv, CallInv
    <3>4. phase \in TagPhases => tag \in Tags /\ tag.no <= latest[snap.target.source]
      BY DEF IInv, PhaseInv
    <3>. QED
      BY <2>2, <2>3, <3>2, <3>3, <3>4, TagFields DEF Frontier
  <2>. QED
    BY <2>1, <2>2, <2>4, <2>5, <2>6 DEF CallInv, Frontier, TagPhases
<1>3. OneRequestPerRelease'
  BY ShrinkingKeepsOne DEF IInv
<1>. QED
  BY <1>1, <1>2, <1>3 DEF IInv

\* The usual end: nothing new is known of the requests, and the row keeps both tags of
\* the copy or is not written at all.
LEMMA FinishPlain ==
  ASSUME IInv, TypeOK', phase # "idle", Done, latest' = latest, CallsKept,
         NEW u \in Rows, SavePollState(u) \/ row' = row,
         u.lastKnownTag = snap.lastKnownTag, u.pendingTag = snap.pendingTag
  PROVE  IInv'
<1>1. CallsShrink
  BY DEF CallsKept, CallsShrink
<1>2. row'.target = row.target
  BY DEF SavePollState, Stored, Rows, IInv, TypeOK
<1>3. ASSUME snap.target = row.target
      PROVE  row'.lastKnownTag = snap.lastKnownTag /\ row'.pendingTag = snap.pendingTag
  BY <1>3 DEF SavePollState, Stored, Rows, IInv, CopyInv
<1>4. ASSUME snap.target = row.target, NEW c \in Calls, Live(c)',
             calls[c].target = snap.target,
             calls[c].tag.no = latest[snap.target.source]
      PROVE  calls[c].tag = IF calls'[c].linked THEN row'.lastKnownTag ELSE row'.pendingTag
  <2>1. Live(c) /\ calls'[c].linked = calls[c].linked
    BY <1>4 DEF CallsKept, Live
  <2>2. calls[c].tag.no = Frontier
    <3>1. calls[c].tag.no <= Frontier /\ calls[c].tag \in Tags
      BY <1>4, <2>1 DEF IInv, CallInv
    <3>2. phase \in TagPhases => tag \in Tags /\ tag.no <= latest[snap.target.source]
      BY DEF IInv, PhaseInv
    <3>. QED
      BY <1>4, <3>1, <3>2, TagFields DEF Frontier
  <2>. QED
    BY <1>3, <1>4, <2>1, <2>2 DEF IInv, CallInv
<1>. QED
  BY <1>1, <1>2, <1>4, Finish

\* The evaluation ends by making a release the known one that is not older than any
\* release requested so far.
LEMMA FinishKnown ==
  ASSUME IInv, TypeOK', phase # "idle", Done, latest' = latest, CallsKept,
         NEW u \in Rows, SavePollState(u), u.pendingTag = snap.pendingTag,
         phase \in TagPhases => u.lastKnownTag = tag,
         phase \notin TagPhases => u.lastKnownTag = Newest(snap)
  PROVE  IInv'
<1>1. CallsShrink
  BY DEF CallsKept, CallsShrink
<1>2. row'.target = row.target
  BY DEF SavePollState, Stored, Rows, IInv, TypeOK
<1>3. ASSUME snap.target = row.target, row' # row
      PROVE  row'.lastKnownTag = u.lastKnownTag /\ row'.pendingTag = snap.pendingTag
  BY <1>3 DEF SavePollState, Stored, Rows
<1>4. ASSUME row' # row, snap.target = row.target, NEW c \in Calls, Live(c)',
             calls[c].target = snap.target,
             calls[c].tag.no = latest[snap.target.source]
      PROVE  calls[c].tag = IF calls'[c].linked THEN row'.lastKnownTag ELSE row'.pendingTag
  <2>1. Live(c) /\ calls'[c].linked = calls[c].linked
    BY <1>4 DEF CallsKept, Live
  <2>2. /\ calls[c].tag \in Tags
        /\ calls[c].tag.from = snap.target.source
        /\ calls[c].tag.no <= Frontier
        /\ calls[c].tag.no = Frontier => calls[c].tag = IF calls[c].linked THEN snap.lastKnownTag
                                                        ELSE snap.pendingTag
    BY <1>4, <2>1 DEF IInv, CallInv
  <2>3. phase \in TagPhases => /\ tag \in Tags /\ tag.no <= latest[snap.target.source]
                               /\ tag.from = snap.target.source
    BY DEF IInv, PhaseInv
  <2>4. calls[c].tag.no = Frontier
    BY <1>4, <2>2, <2>3, TagFields DEF Frontier
  <2>5. u.lastKnownTag = calls[c].tag
    <3>1. CASE phase \in TagPhases
      BY <2>2, <2>3, <2>4, <3>1, TagsEqual DEF Frontier
    <3>2. CASE phase \notin TagPhases
      <4>1. calls[c].tag = Tag(calls[c].tag.from, calls[c].tag.no)
        BY <2>2 DEF Tags, Tag
      <4>2. latest[snap.target.source] # 0
        BY <1>4, <2>2, TagFields
      <4>. QED
        BY <1>4, <2>2, <3>2, <4>1, <4>2 DEF Newest
    <3>. QED
      BY <3>1, <3>2
  <2>. QED
    BY <1>3, <1>4, <2>1, <2>2, <2>4, <2>5
<1>5. CASE row' = row
  BY <1>5, FinishPlain, snap \in Rows DEF IInv, TypeOK
<1>6. CASE row' # row
  BY <1>1, <1>2, <1>4, <1>6, Finish
<1>. QED
  BY <1>5, <1>6

\* One step of the specification keeps the invariant, if releases are not withdrawn.
LEMMA InvStep ==
  ASSUME ~Retractions, IInv, [Next]_vars
  PROVE  IInv'
<1> DEFINE Erred == [snap EXCEPT !.lastError = TRUE]
           Cleared == [snap EXCEPT !.lastError = FALSE]
<1>0. /\ TypeOK /\ TypeOK'
      /\ Erred \in Rows /\ Erred.lastKnownTag = snap.lastKnownTag
      /\ Erred.pendingTag = snap.pendingTag
      /\ Cleared \in Rows /\ Cleared.lastKnownTag = snap.lastKnownTag
      /\ Cleared.pendingTag = snap.pendingTag
  BY TypeStep DEF IInv, TypeOK, Rows
<1>k. calls' = calls => CallsKept
  BY DEF CallsKept, Live
<1>r. row' = row /\ phase # "idle" /\ Done /\ latest' = latest /\ CallsKept => IInv'
  BY <1>0, FinishPlain DEF TypeOK
<1>e. RecordError(snap) /\ phase # "idle" /\ Done /\ latest' = latest /\ CallsKept => IInv'
  <2>. SUFFICES ASSUME SavePollState(Erred), phase # "idle", Done, latest' = latest, CallsKept
               PROVE  IInv'
    BY DEF RecordError
  <2>. HIDE DEF Erred
  <2>. QED
    BY <1>0, FinishPlain DEF IInv
<1>1. CASE ListRepo
  BY <1>0, <1>1 DEF ListRepo, Goto, IInv, PhaseInv, CopyInv, CallInv, Frontier, TagPhases,
     CreatePhases, Live, OneRequestPerRelease, TypeOK, Rows, Targets
<1>2. CASE Interrupt
  BY <1>2, <1>k, <1>r DEF Interrupt
<1>3. CASE FetchFails
  BY <1>3, <1>k, <1>e DEF FetchFails
<1>4. CASE Baseline
  <2> DEFINE u == [snap EXCEPT !.lastKnownTag = Found, !.lastError = FALSE]
  <2>1. u \in Rows /\ u.pendingTag = snap.pendingTag /\ u.lastKnownTag = Newest(snap)
    BY <1>0, NewestTyped DEF TypeOK, Rows, Found
  <2>2. SavePollState(u) /\ Done /\ latest' = latest /\ calls' = calls /\ phase = "listed"
    BY <1>4 DEF Baseline
  <2> HIDE DEF u
  <2>. QED
    BY <1>0, <1>k, <2>1, <2>2, FinishKnown DEF TagPhases
<1>5. CASE Skip
  <2>1. SavePollState(Cleared) /\ Done /\ latest' = latest /\ calls' = calls /\ phase # "idle"
    BY <1>5 DEF Skip
  <2> HIDE DEF Cleared
  <2>. QED
    BY <1>0, <1>k, <2>1, FinishPlain
<1>6. CASE NewTag
  <2>1. Found \in Tags /\ Found.no = latest[snap.target.source] /\ Found.from = snap.target.source
    BY <1>0, <1>6, NewestTyped DEF NewTag, DecideTagChange, Found, Newest, Tag, TypeOK
  <2>2. Found # snap.lastKnownTag
    BY <1>6 DEF NewTag, DecideTagChange
  <2>3. PhaseInv' /\ CopyInv'
    BY <1>0, <1>6, <2>1, <2>2, TagFields DEF NewTag, Goto, IInv, PhaseInv, CopyInv, TagPhases,
       CreatePhases
  <2>4. ASSUME NEW c \in Calls PROVE CallInv(c)'
    BY <1>6, <2>1 DEF NewTag, Goto, IInv, CallInv, Live, Frontier, TagPhases, Phases
  <2>. QED
    BY <1>0, <1>6, <2>3, <2>4 DEF NewTag, IInv, OneRequestPerRelease, Live
<1>7. CASE StatusFails
  BY <1>7, <1>k, <1>e DEF StatusFails
<1>8. CASE OpenTicketClosed
  <2>1. /\ snap'.target = snap.target /\ snap'.lastKnownTag = snap.lastKnownTag
        /\ snap'.pendingTag = snap.pendingTag
    BY <1>0, <1>8 DEF OpenTicketClosed, TypeOK, Rows
  <2>2. PhaseInv' /\ CopyInv'
    BY <1>8, <2>1 DEF OpenTicketClosed, Goto, IInv, PhaseInv, CopyInv, TagPhases, CreatePhases,
       Phases
  <2>3. ASSUME NEW c \in Calls PROVE CallInv(c)'
    BY <1>8, <2>1 DEF OpenTicketClosed, Goto, IInv, CallInv, Live, Frontier, TagPhases, Phases
  <2>. QED
    BY <1>0, <1>8, <2>2, <2>3 DEF OpenTicketClosed, IInv, OneRequestPerRelease, Live
<1>9. ASSUME NEW policy \in Policies, ApplyPolicy(policy) PROVE IInv'
  <2>1. CASE UNCHANGED <<row, snap, tag, cur>> /\ phase' \in {"mark", "merge"}
    BY <1>0, <1>9, <2>1 DEF ApplyPolicy, IInv, PhaseInv, CopyInv, CallInv, Live, Frontier,
       TagPhases, CreatePhases, Phases, OneRequestPerRelease
  <2>2. CASE policy = "skip_if_open"
    <3> DEFINE u == [snap EXCEPT !.lastKnownTag = tag, !.lastError = FALSE]
    <3>1. u \in Rows /\ u.pendingTag = snap.pendingTag /\ u.lastKnownTag = tag
      BY <1>0 DEF TypeOK, Rows
    <3>2. SavePollState(u) /\ Done /\ latest' = latest /\ calls' = calls /\ phase = "newTag"
      BY <1>9, <2>2 DEF ApplyPolicy
    <3> HIDE DEF u
    <3>. QED
      BY <1>0, <1>k, <3>1, <3>2, FinishKnown DEF TagPhases, Phases
  <2>. QED
    BY <1>9, <2>1, <2>2 DEF ApplyPolicy, Goto
<1>10. CASE RefuseRepeatedCreate
  BY <1>10, <1>k, <1>e DEF RefuseRepeatedCreate
<1>11. CASE InputFails
  BY <1>11, <1>k, <1>e DEF InputFails
<1>12. CASE MarkTicketPending
  <2>1. CASE row' = row /\ Done
    BY <1>12, <1>k, <1>r, <2>1 DEF MarkTicketPending
  <2>2. CASE /\ row' = Stored([snap EXCEPT !.pendingTag = tag])
             /\ snap' = [snap EXCEPT !.pendingTag = tag]
             /\ Goto("send")
             /\ UNCHANGED <<tag, old, cur>>
    <3>1. /\ snap'.target = snap.target /\ snap'.lastKnownTag = snap.lastKnownTag
          /\ snap'.pendingTag = tag /\ row'.target = row.target
          /\ row'.lastKnownTag = snap.lastKnownTag /\ row'.pendingTag = tag
      BY <1>0, <2>2 DEF TypeOK, Rows, Stored
    <3>2. /\ phase = "mark" /\ snap.pendingTag # tag /\ tag # snap.lastKnownTag
          /\ tag \in Tags /\ tag.from = snap.target.source /\ Frontier = tag.no
      BY <1>12 DEF MarkTicketPending, IInv, PhaseInv, TagPhases, Phases, Frontier
    <3>3. PhaseInv' /\ CopyInv'
      BY <1>12, <2>2, <3>1, <3>2 DEF MarkTicketPending, Goto, IInv, PhaseInv, CopyInv, TagPhases,
         CreatePhases, Phases
    <3>4. ASSUME NEW c \in Calls, Live(c), calls[c].target.epoch = snap.target.epoch
          PROVE  calls[c].tag.no # tag.no
      BY <3>2, <3>4, TagsEqual DEF IInv, CallInv
    <3>5. Frontier' = tag.no /\ calls' = calls
      BY <1>12, <2>2 DEF MarkTicketPending, Goto, Frontier, TagPhases, Phases
    <3>6. ASSUME NEW c \in Calls PROVE CallInv(c)'
      BY <3>1, <3>2, <3>4, <3>5 DEF IInv, CallInv, Live
    <3>. QED
      BY <1>0, <3>3, <3>5, <3>6 DEF IInv, OneRequestPerRelease, Live
  <2>. QED
    BY <1>12, <2>1, <2>2 DEF MarkTicketPending
<1>13. ASSUME NEW c \in Calls, SendCreate(c) PROVE IInv'
  <2>1. /\ phase = "send" /\ calls[c].state = "unused" /\ cur' = c /\ phase' = "waiting"
        /\ row' = row /\ snap' = snap /\ tag' = tag /\ latest' = latest
        /\ snap.pendingTag = tag /\ tag \in Tags /\ tag.from = snap.target.source
        /\ tag.no <= latest[snap.target.source]
        /\ Frontier = tag.no /\ Frontier' = tag.no
    BY <1>13 DEF SendCreate, Goto, IInv, PhaseInv, Frontier, TagPhases, CreatePhases, Phases
  <2>2. /\ calls'[c].state = "sent" /\ calls'[c].target = snap.target /\ calls'[c].tag = tag
        /\ calls'[c].linked = FALSE
    BY <1>0, <1>13 DEF SendCreate, TypeOK
  <2>3. \A d \in Calls : d # c => calls'[d] = calls[d]
    BY <1>0, <1>13 DEF SendCreate, TypeOK
  <2>4. PhaseInv' /\ CopyInv'
    BY <2>1, <2>2 DEF IInv, PhaseInv, CopyInv, TagPhases, CreatePhases, Live
  <2>5. ASSUME NEW d \in Calls PROVE CallInv(d)'
    <3>1. CASE d = c
      <4>1. snap.target.epoch \in Nat /\ tag.no \in Nat
        BY <1>0, <2>1, BoundsAssumption, TagFields DEF TypeOK, Rows, Targets
      <4>. QED
        BY <2>1, <2>2, <3>1, <4>1 DEF CallInv
    <3>2. CASE d # c
      BY <2>1, <2>3, <3>2 DEF IInv, CallInv, Live
    <3>. QED
      BY <3>1, <3>2
  <2>6. ASSUME NEW d \in Calls, d # c, Live(d), calls[d].target = snap.target
        PROVE  calls[d].tag # tag
    BY <2>1, <2>6 DEF IInv, CallInv
  <2>7. OneRequestPerRelease'
    BY <2>2, <2>3, <2>6 DEF IInv, OneRequestPerRelease, Live
  <2>. QED
    BY <1>0, <2>4, <2>5, <2>7 DEF IInv
<1>14. CASE CreateAnswered
  BY <1>0, <1>14 DEF CreateAnswered, Goto, IInv, PhaseInv, CopyInv, CallInv, Live, Frontier,
     TagPhases, CreatePhases, Phases, OneRequestPerRelease
<1>15. CASE CreateRejected
  <2> DEFINE u == [snap EXCEPT !.pendingTag = NoTag, !.lastError = TRUE]
  <2>1. /\ phase = "waiting" /\ cur \in Calls /\ Live(cur) /\ calls[cur].target = snap.target
        /\ calls[cur].tag = tag /\ tag \in Tags /\ tag.from = snap.target.source
        /\ tag.no <= latest[snap.target.source]
    BY <1>15 DEF CreateRejected, IInv, PhaseInv, TagPhases, Phases
  <2>2. /\ calls'[cur].state = "rejected"
        /\ \A d \in Calls : d # cur => calls'[d] = calls[d]
    BY <1>0, <1>15 DEF CreateRejected, TypeOK
  <2>3. CallsShrink
    BY <2>2 DEF CallsShrink, Live
  <2>4. row'.target = row.target
    BY <1>0, <1>15 DEF CreateRejected, RecordError, SavePollState, Stored, TypeOK, Rows
  <2>5. ASSUME NEW c \in Calls, Live(c)', calls[c].target = snap.target,
               calls[c].tag.no = latest[snap.target.source]
        PROVE  FALSE
    <3>1. c # cur /\ Live(c)
      BY <2>2, <2>5 DEF Live
    <3>2. /\ calls[c].tag \in Tags /\ calls[c].tag.from = snap.target.source
          /\ calls[c].tag.no <= tag.no
      BY <2>1, <2>5, <3>1 DEF IInv, CallInv, Frontier, TagPhases, Phases
    <3>3. calls[c].tag = tag
      BY <2>1, <2>5, <3>2, TagsEqual, TagFields
    <3>. QED
      BY <2>1, <2>5, <3>1, <3>3 DEF IInv, OneRequestPerRelease
  <2>6. Done /\ latest' = latest
    BY <1>15 DEF CreateRejected
  <2>. QED
    BY <1>0, <2>1, <2>3, <2>4, <2>5, <2>6, Finish
<1>16. CASE CreateUnclear
  BY <1>16, <1>k, <1>e DEF CreateUnclear
<1>17. CASE LinkTicket
  <2> DEFINE u == [snap EXCEPT !.openTicket = cur, !.openTag = tag, !.lastKnownTag = tag,
                               !.pendingTag = NoTag, !.lastError = FALSE]
  <2>1. /\ phase = "link" /\ cur \in Calls /\ Live(cur) /\ calls[cur].target = snap.target
        /\ calls[cur].tag = tag /\ tag \in Tags /\ tag.from = snap.target.source
        /\ tag.no <= latest[snap.target.source] /\ Frontier = tag.no
    BY <1>17 DEF LinkTicket, IInv, PhaseInv, TagPhases, Phases, Frontier
  <2>2. /\ calls'[cur] = [calls[cur] EXCEPT !.linked = TRUE]
        /\ \A d \in Calls : d # cur => calls'[d] = calls[d]
    BY <1>0, <1>17 DEF LinkTicket, TypeOK
  <2>3. /\ calls'[cur].linked = TRUE /\ calls'[cur].target = calls[cur].target
        /\ calls'[cur].tag = calls[cur].tag /\ calls'[cur].state = calls[cur].state
    BY <1>0, <2>1, <2>2 DEF TypeOK, Requests
  <2>4. CallsShrink
    BY <2>2, <2>3 DEF CallsShrink, Live
  <2>5. /\ u.target = snap.target /\ u.lastKnownTag = tag /\ u.pendingTag = NoTag
        /\ row'.target = row.target /\ row'.lastKnownTag = tag /\ row'.pendingTag = NoTag
    BY <1>0, <1>17 DEF LinkTicket, Stored, TypeOK, Rows
  <2>6. ASSUME NEW c \in Calls, Live(c)', calls[c].target = snap.target
        PROVE  /\ Live(c) /\ calls[c].tag \in Tags /\ calls[c].tag.no <= tag.no
               /\ calls[c].tag.no = tag.no => c = cur
    <3>1. Live(c)
      BY <2>4, <2>6 DEF CallsShrink, Live
    <3>2. /\ calls[c].tag \in Tags /\ calls[c].tag.from = snap.target.source
          /\ calls[c].tag.no <= tag.no
      BY <2>1, <2>6, <3>1 DEF IInv, CallInv
    <3>3. calls[c].tag.no = tag.no => calls[c].tag = tag
      BY <2>1, <3>2, TagsEqual
    <3>. QED
      BY <2>1, <2>6, <3>1, <3>2, <3>3 DEF IInv, OneRequestPerRelease
  <2>7. CASE Done
    <3>1. latest' = latest
      BY <1>17 DEF LinkTicket
    <3>2. ASSUME NEW c \in Calls, Live(c)', calls[c].target = snap.target,
                 calls[c].tag.no = latest[snap.target.source]
          PROVE  calls[c].tag = IF calls'[c].linked THEN row'.lastKnownTag ELSE row'.pendingTag
      <4>1. calls[c].tag \in Tags /\ calls[c].tag.no <= tag.no
        BY <2>6, <3>2
      <4>2. calls[c].tag.no = tag.no
        BY <2>1, <3>2, <4>1, TagFields
      <4>. QED
        BY <2>1, <2>3, <2>5, <2>6, <3>2, <4>2
    <3>. QED
      BY <1>0, <2>1, <2>4, <2>5, <2>7, <3>1, <3>2, Finish
  <2>8. CASE snap' = u /\ phase' = "closeOld" /\ UNCHANGED <<tag, old, cur>>
    <3>1. latest' = latest /\ Frontier' = tag.no
      BY <1>17, <2>8 DEF LinkTicket, Frontier, TagPhases, Phases
    <3>2. PhaseInv' /\ CopyInv'
      BY <2>1, <2>5, <2>8, <3>1 DEF IInv, PhaseInv, CopyInv, TagPhases, CreatePhases, Phases
    <3>3. ASSUME NEW c \in Calls, Live(c)' PROVE CallInv(c)'
      <4>1. /\ Live(c) /\ calls'[c].target = calls[c].target /\ calls'[c].tag = calls[c].tag
        BY <2>4, <3>3 DEF CallsShrink, Live
      <4>2. /\ calls[c].tag \in Tags /\ calls[c].tag.from = calls[c].target.source
            /\ calls[c].target.epoch <= snap.target.epoch
            /\ calls[c].target.epoch = snap.target.epoch => calls[c].target = snap.target
        BY <4>1 DEF IInv, CallInv
      <4>. QED
        BY <2>1, <2>3, <2>5, <2>6, <2>8, <3>1, <3>3, <4>1, <4>2 DEF CallInv
    <3>4. OneRequestPerRelease'
      BY <2>4, ShrinkingKeepsOne DEF IInv
    <3>5. \A c \in Calls : CallInv(c)'
      BY <3>3 DEF CallInv
    <3>. QED
      BY <1>0, <3>2, <3>4, <3>5 DEF IInv
  <2>. QED
    BY <1>17, <2>7, <2>8 DEF LinkTicket, Goto
<1>18. CASE LinkLost
  BY <1>18, <1>k, <1>r DEF LinkLost
<1>19. CASE CloseOldTicket
  <2>1. CallsKept
    BY <1>0, <1>19 DEF CloseOldTicket, CallsKept, Live, TypeOK, Requests
  <2>2. CASE row' = row /\ Done
    BY <1>19, <1>r, <2>1, <2>2 DEF CloseOldTicket
  <2>3. CASE Goto("reportOld") /\ UNCHANGED <<row, snap, tag, old, cur>>
    BY <1>0, <1>19, <2>1, <2>3 DEF CloseOldTicket, CallsKept, Goto, IInv, PhaseInv, CopyInv,
       CallInv, Live, Frontier, TagPhases, CreatePhases, Phases, OneRequestPerRelease
  <2>. QED
    BY <1>19, <2>2, <2>3 DEF CloseOldTicket
<1>20. CASE ReportOldTicket
  BY <1>20, <1>k, <1>e DEF ReportOldTicket
<1>21. CASE MergeTicket
  <2>1. CallsKept
    BY <1>0, <1>21 DEF MergeTicket, CallsKept, Live, TypeOK, Requests
  <2>2. CASE RecordError(snap) /\ Done
    BY <1>21, <1>e, <2>1, <2>2 DEF MergeTicket
  <2>3. CASE Goto("saveMerge") /\ UNCHANGED <<row, snap, tag, old, cur>>
    BY <1>0, <1>21, <2>1, <2>3 DEF MergeTicket, CallsKept, Goto, IInv, PhaseInv, CopyInv,
       CallInv, Live, Frontier, TagPhases, CreatePhases, Phases, OneRequestPerRelease
  <2>. QED
    BY <1>21, <2>2, <2>3 DEF MergeTicket
<1>22. CASE SaveMerge
  <2> DEFINE u == [snap EXCEPT !.openTag = tag, !.lastKnownTag = tag, !.lastError = FALSE]
  <2>1. u \in Rows /\ u.pendingTag = snap.pendingTag /\ u.lastKnownTag = tag
    BY <1>0 DEF TypeOK, Rows
  <2>2. SavePollState(u) /\ Done /\ latest' = latest /\ calls' = calls /\ phase = "saveMerge"
    BY <1>22 DEF SaveMerge
  <2> HIDE DEF u
  <2>. QED
    BY <1>0, <1>k, <2>1, <2>2, FinishKnown DEF TagPhases, Phases
<1>23. ASSUME NEW c \in Calls, StoreTicket(c) PROVE IInv'
  <2>1. CallsKept /\ calls'[c].state = "stored"
    BY <1>0, <1>23 DEF StoreTicket, CallsKept, Live, TypeOK, Requests
  <2>. QED
    BY <1>0, <1>23, <2>1 DEF StoreTicket, CallsKept, IInv, PhaseInv, CopyInv,
       CallInv, Live, Frontier, TagPhases, CreatePhases, Phases, OneRequestPerRelease
<1>24. ASSUME NEW c \in Calls, NEW status \in {"open", "closed", "unknown"},
              MoveTicket(c, status)
       PROVE  IInv'
  <2>1. CallsKept
    BY <1>0, <1>24 DEF MoveTicket, CallsKept, Live, TypeOK, Requests
  <2>. QED
    BY <1>0, <1>24, <2>1 DEF MoveTicket, CallsKept, IInv, PhaseInv, CopyInv,
       CallInv, Live, Frontier, TagPhases, CreatePhases, Phases, OneRequestPerRelease
<1>25. ASSUME NEW s \in Sources, Publish(s) PROVE IInv'
  <2>1. /\ UNCHANGED <<row, snap, phase, tag, old, cur, calls>>
        /\ snap.target.source \in Sources
        /\ latest[snap.target.source] \in Nat
        /\ latest'[snap.target.source] \in Nat
        /\ latest'[snap.target.source] >= latest[snap.target.source]
    BY <1>0, <1>25, BoundsAssumption DEF Publish, TypeOK, Rows, Targets
  <2>2. PhaseInv' /\ CopyInv'
    BY <2>1, TagFields DEF IInv, PhaseInv, CopyInv, Live, CreatePhases, TagPhases
  <2>3. ASSUME NEW c \in Calls, Live(c) PROVE CallInv(c)'
    BY <2>1, <2>3, TagFields DEF IInv, CallInv, Live, Frontier, PhaseInv
  <2>. QED
    BY <1>0, <2>1, <2>2, <2>3 DEF IInv, CallInv, OneRequestPerRelease, Live
<1>26. ASSUME NEW s \in Sources, Retract(s) PROVE IInv'
  BY <1>26 DEF Retract
<1>27. ASSUME NEW s \in Sources, NEW p \in Projects, Retarget(s, p) PROVE IInv'
  <2>1. row'.target.epoch = row.target.epoch + 1
    BY <1>27 DEF Retarget, NewRow
  <2>2. row.target.epoch \in Nat /\ snap.target.epoch \in Nat
    BY <1>0, BoundsAssumption DEF TypeOK, Rows, Targets
  <2>3. \A c \in Calls : calls[c].target.epoch \in Nat
    BY <1>0, BoundsAssumption DEF TypeOK, Requests, Targets
  <2>4. CASE phase = "idle"
    <3>1. snap' = row' /\ snap = row /\ phase' = "idle"
      BY <1>27, <2>4 DEF Retarget, IInv, PhaseInv
    <3>2. PhaseInv' /\ CopyInv'
      BY <2>1, <2>2, <3>1 DEF PhaseInv, CopyInv, TagPhases, CreatePhases
    <3>3. ASSUME NEW c \in Calls, Live(c) PROVE CallInv(c)'
      BY <1>27, <2>1, <2>2, <2>3, <3>1, <3>3 DEF Retarget, IInv, CallInv, Live
    <3>. QED
      BY <1>0, <1>27, <3>2, <3>3 DEF Retarget, IInv, CallInv, OneRequestPerRelease, Live
  <2>5. CASE phase # "idle"
    <3>1. snap' = snap
      BY <1>27, <2>5 DEF Retarget
    <3>2. PhaseInv' /\ CopyInv'
      BY <1>27, <2>1, <2>2, <2>5, <3>1 DEF Retarget, IInv, PhaseInv, CopyInv, TagPhases,
         CreatePhases, Live
    <3>. QED
      BY <1>0, <1>27, <3>1, <3>2 DEF Retarget, IInv, CallInv, Frontier, OneRequestPerRelease, Live
  <2>. QED
    BY <2>4, <2>5
<1>28. CASE Crash
  BY <1>28, <1>k, <1>r DEF Crash
<1>29. CASE UNCHANGED vars
  BY <1>0, <1>29 DEF vars, IInv, PhaseInv, CopyInv, CallInv, Live, Frontier,
     OneRequestPerRelease
<1>. QED
  BY <1>1, <1>2, <1>3, <1>4, <1>5, <1>6, <1>7, <1>8, <1>9, <1>10, <1>11, <1>12, <1>13, <1>14, <1>15, <1>16, <1>17, <1>18, <1>19, <1>20, <1>21, <1>22, <1>23, <1>24, <1>25, <1>26, <1>27, <1>28, <1>29 DEF Next, Evaluate, Environment

\* The invariant holds in the initial states: no request was made yet.
LEMMA InvInit == Init => IInv
<1>1. ASSUME Init PROVE TypeOK
  BY <1>1, BoundsAssumption DEF Init, TypeOK, Rows, Targets, NewRow, Requests, CallStates,
     Statuses, Phases
<1>2. ASSUME Init PROVE PhaseInv /\ CopyInv
  BY <1>1, <1>2, BoundsAssumption DEF Init, PhaseInv, CopyInv, TagPhases, CreatePhases, TypeOK,
     Rows, Targets
<1>3. ASSUME Init, NEW c \in Calls PROVE ~Live(c)
  BY <1>3 DEF Init, Live
<1>. QED
  BY <1>1, <1>2, <1>3 DEF IInv, CallInv, OneRequestPerRelease

\* One ticket per release, whatever fails, crashes, answers late or is edited, as long as
\* sources do not withdraw releases.
THEOREM OneTicketPerRelease ==
  ASSUME ~Retractions
  PROVE  Spec => []OneRequestPerRelease
<1>1. IInv /\ [Next]_vars => IInv'
  BY InvStep
<1>2. IInv => OneRequestPerRelease
  BY DEF IInv
<1>. QED
  BY <1>1, <1>2, InvInit, PTL DEF Spec

\* As long as sources do not withdraw releases, no create is sent for a release whose
\* earlier create is unclear: that ticket exists, and the engine has no link to it.
THEOREM UnclearIsNotRepeated ==
  ASSUME ~Retractions
  PROVE  Spec => UnclearNeverRepeated
<1>1. IInv /\ [Next]_vars => IInv'
  BY InvStep
<1>2. ASSUME IInv, IInv', NEW c \in Calls, NEW d \in Calls,
             calls[c].state = "unused", calls'[c].state = "sent", Next,
             Exists(d), ~calls[d].linked
      PROVE  calls[d].target # calls'[c].target \/ calls[d].tag # calls'[c].tag
  <2>1. calls \in [Calls -> Requests] /\ calls' # calls
    BY <1>2 DEF IInv, TypeOK
  <2>2. calls'[d] = calls[d] /\ c # d
    <3>1. CASE \E e \in Calls : SendCreate(e)
      BY <1>2, <2>1, <3>1 DEF SendCreate, Exists
    <3>2. CASE CreateRejected \/ LinkTicket \/ CloseOldTicket \/ MergeTicket
      <4>1. ASSUME CreateRejected PROVE calls'[c].state # "sent"
        BY <1>2, <2>1, <4>1 DEF CreateRejected, Requests
      <4>2. ASSUME LinkTicket PROVE calls'[c].state # "sent"
        BY <1>2, <2>1, <4>2 DEF LinkTicket, Requests
      <4>3. ASSUME CloseOldTicket PROVE calls'[c].state # "sent"
        BY <1>2, <2>1, <4>3 DEF CloseOldTicket, Requests
      <4>4. ASSUME MergeTicket PROVE calls'[c].state # "sent"
        BY <1>2, <2>1, <4>4 DEF MergeTicket, Requests
      <4>. QED
        BY <1>2, <3>2, <4>1, <4>2, <4>3, <4>4
    <3>3. CASE \E e \in Calls, status \in {"open", "closed", "unknown"} :
                 StoreTicket(e) \/ MoveTicket(e, status)
      <4>1. PICK e \in Calls, status \in {"open", "closed", "unknown"} :
              StoreTicket(e) \/ MoveTicket(e, status)
        BY <3>3
      <4>2. ASSUME StoreTicket(e) PROVE calls'[c].state # "sent"
        BY <1>2, <2>1, <4>2 DEF StoreTicket, Requests
      <4>3. ASSUME MoveTicket(e, status) PROVE calls'[c].state # "sent"
        BY <1>2, <2>1, <4>3 DEF MoveTicket, Requests
      <4>. QED
        BY <1>2, <4>1, <4>2, <4>3
    <3>. QED
      BY <1>2, <2>1, <3>1, <3>2, <3>3 DEF Next, Evaluate, Environment, ListRepo, Interrupt,
         FetchFails, Baseline, Skip, NewTag, StatusFails, OpenTicketClosed, ApplyPolicy,
         RefuseRepeatedCreate, InputFails, MarkTicketPending, CreateAnswered, CreateUnclear,
         LinkLost, ReportOldTicket, SaveMerge, Publish, Retract, Retarget, Crash
  <2>3. Live(c)' /\ Live(d)'
    BY <1>2, <2>2 DEF Live, Exists
  <2>. QED
    BY <1>2, <2>2, <2>3 DEF IInv, OneRequestPerRelease
<1>3. IInv /\ IInv' /\ [Next]_vars =>
        [\A c, d \in Calls :
           /\ calls[c].state = "unused" /\ calls'[c].state = "sent"
           /\ Exists(d) /\ ~calls[d].linked
           => \/ calls[d].target # calls'[c].target
              \/ calls[d].tag # calls'[c].tag]_vars
  BY <1>2
<1>. QED
  BY <1>1, <1>3, InvInit, PTL DEF Spec, UnclearNeverRepeated

\* A ticket that may exist without a link is remembered until a newer release is out.
LEMMA InvRemembers == IInv => NoTicketForgotten
<1> SUFFICES ASSUME IInv, NEW c \in Calls, Live(c), ~calls[c].linked,
                    calls[c].target = row.target,
                    ~(latest[row.target.source] > calls[c].tag.no)
             PROVE  row.pendingTag = calls[c].tag
    BY DEF NoTicketForgotten
<1>1. /\ row.target.epoch \in Nat
      /\ snap.target.epoch \in Nat
      /\ latest[row.target.source] \in Nat
  BY BoundsAssumption DEF IInv, TypeOK, Rows, Targets
<1>2. calls[c].tag \in Tags /\ calls[c].target.epoch <= snap.target.epoch
  BY DEF IInv, CallInv
<1>3. snap.target = row.target /\ snap.pendingTag = row.pendingTag
  BY <1>1, <1>2 DEF IInv, CopyInv
<1>4. calls[c].tag.no <= Frontier
  BY <1>3 DEF IInv, CallInv
<1>5. phase \in TagPhases => tag \in Tags /\ tag.no <= latest[row.target.source]
  BY <1>3 DEF IInv, PhaseInv
<1>6. calls[c].tag.no = Frontier
  BY <1>1, <1>2, <1>3, <1>4, <1>5, TagFields DEF Frontier
<1>. QED
  BY <1>3, <1>6 DEF IInv, CallInv

\* As long as sources do not withdraw releases, a ticket whose link the engine never stored
\* is named by the note in the repo's row until the source has a newer release.
THEOREM NothingForgotten ==
  ASSUME ~Retractions
  PROVE  Spec => []NoTicketForgotten
<1>1. IInv /\ [Next]_vars => IInv'
  BY InvStep
<1>. QED
  BY <1>1, InvInit, InvRemembers, PTL DEF Spec

=============================================================================
