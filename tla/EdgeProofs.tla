----------------------------- MODULE EdgeProofs -----------------------------
(***************************************************************************)
(* What the server lets in and what leaves it: the rate limiter decides by *)
(* its window; a create call of any provider keeps the contract of         *)
(* TicketCreate and never loses an ID that has arrived; no message reaches *)
(* a target that was not meant at some time of the poll.                   *)
(***************************************************************************)
EXTENDS RateLimiter, TicketCalls, Notifications, FiniteSetTheorems, WellFoundedInduction, TLAPS

-----------------------------------------------------------------------------
(* The rate limiter.                                                       *)

\* A finite set of positions has a last one, by induction on natural numbers: the least of
\* their bounds.
LEMMA LastPosition ==
  ASSUME NEW n \in Nat, NEW S \in SUBSET (1..n), S # {}
  PROVE  \E i \in S : \A j \in S : j <= i
<1>. DEFINE T == {m \in Nat : \A j \in S : j <= m}
            R == {ss \in Nat \X Nat : ss[1] < ss[2]}
<1>1. IsWellFoundedOn(R, Nat)
  BY NatLessThanWellFounded DEF OpToRel
<1>2. n \in T /\ T \subseteq Nat
  OBVIOUS
<1>3. PICK m \in T : \A y \in T : <<y, m>> \notin R
  <2>. HIDE DEF R, T
  <2>. QED
    BY <1>1, <1>2, WFMin
<1>4. ASSUME NEW y \in T PROVE m <= y
  <2>1. <<y, m>> \in Nat \X Nat /\ ~(<<y, m>>[1] < <<y, m>>[2])
    BY <1>3
  <2>. QED
    BY <2>1
<1>5. m \in S
  <2>. SUFFICES ASSUME m \notin S PROVE FALSE
    OBVIOUS
  <2>1. m \in Nat /\ \A j \in S : j \in Nat \ {0} /\ j < m
    OBVIOUS
  <2>2. m # 0
    <3>1. PICK j \in S : TRUE
      OBVIOUS
    <3>. QED
      BY <2>1, <3>1
  <2>3. m - 1 \in Nat /\ \A j \in S : j <= m - 1
    BY <2>1, <2>2
  <2>4. m - 1 \in T
    BY <2>3
  <2>. QED
    BY <1>4, <2>1, <2>4
<1>. QED
  BY <1>5

LimiterTyped ==
  /\ clock \in Nat /\ newest \in Nat
  /\ admitted \in [Keys -> Seq(Nat)]
  /\ caller \in [Callers -> {Away} \cup [key : Keys, now : Nat]]
  /\ DOMAIN hits \subseteq Keys
  /\ \A k \in DOMAIN hits : hits[k] \subseteq DOMAIN admitted[k]

Stored(k) == IF k \in DOMAIN hits THEN hits[k] ELSE {}

\* What the store has lost of a key in order had left its window by the time of some request.
LostIsOver ==
  \A k \in Keys : InOrder(k) =>
    \A i \in DOMAIN admitted[k] \ Stored(k) : admitted[k][i] + Window[k] <= newest

LimiterInv == LimiterTyped /\ LostIsOver

LEMMA KeyTyped ==
  ASSUME LimiterTyped, NEW k \in Keys
  PROVE  /\ Window[k] \in Nat /\ Limit[k] \in Nat
         /\ DOMAIN admitted[k] = 1..Len(admitted[k]) /\ Len(admitted[k]) \in Nat
         /\ \A i \in DOMAIN admitted[k] : admitted[k][i] \in Nat
         /\ Stored(k) \subseteq DOMAIN admitted[k]
BY LimiterAssumption DEF LimiterTyped, Stored

\* The sweep takes a bucket of a key in order only when all its hits have left the window.
LEMMA SweptIsOver ==
  ASSUME LimiterTyped, NEW k \in DOMAIN hits, NEW now \in Nat, InOrder(k), k \notin DOMAIN Swept(now)
  PROVE  \A i \in hits[k] : ~InWindow(k, i, now)
<1>1. k \in Keys /\ hits[k] \subseteq 1..Len(admitted[k]) /\ Len(admitted[k]) \in Nat
  BY KeyTyped DEF LimiterTyped
<1>2. CASE hits[k] = {}
  BY <1>2
<1>3. CASE hits[k] # {}
  <2>1. PICK m \in hits[k] : \A j \in hits[k] : j <= m
    BY <1>1, <1>3, LastPosition
  <2>2. ~InWindow(k, m, now)
    BY <2>1 DEF Swept
  <2>3. ASSUME NEW i \in hits[k] PROVE admitted[k][i] <= admitted[k][m]
    BY <1>1, <2>1, KeyTyped DEF InOrder
  <2>. QED
    BY <1>1, <2>1, <2>2, <2>3, KeyTyped DEF InWindow
<1>. QED
  BY <1>2, <1>3

\* What a sweep at now leaves of a key.
Left(k, now) ==
  IF now >= lastSweep + SweepInterval
  THEN IF k \in DOMAIN Swept(now) THEN Swept(now)[k] ELSE {}
  ELSE Stored(k)

ActiveHits(k, now) == {i \in Left(k, now) : InWindow(k, i, now)}

\* A hit of a key in order is dropped only outside the window.
LEMMA ActiveIsStored ==
  ASSUME LimiterTyped, NEW k \in Keys, NEW now \in Nat
  PROVE  /\ Left(k, now) \subseteq Stored(k)
         /\ InOrder(k) => \A i \in Stored(k) : InWindow(k, i, now) => i \in Left(k, now)
<1>1. DOMAIN Swept(now) \subseteq DOMAIN hits /\ \A j \in DOMAIN Swept(now) : Swept(now)[j] = hits[j]
  BY DEF Swept
<1>2. Left(k, now) \subseteq Stored(k)
  BY <1>1 DEF Left, Stored
<1>3. ASSUME InOrder(k), NEW i \in Stored(k), InWindow(k, i, now) PROVE i \in Left(k, now)
  <2>1. k \in DOMAIN hits /\ i \in hits[k]
    BY <1>3 DEF Stored
  <2>2. k \in DOMAIN Swept(now)
    BY <1>3, <2>1, SweptIsOver
  <2>. QED
    BY <1>1, <1>3, <2>1, <2>2 DEF Left
<1>. QED
  BY <1>2, <1>3

\* The step of a request that passes the lock, for its key and its time.
LEMMA AllowStep ==
  ASSUME LimiterTyped, NEW c \in Callers, Allow(c),
         NEW k, NEW now, k = caller[c].key, now = caller[c].now
  PROVE  /\ k \in Keys /\ now \in Nat
         /\ clock' = clock /\ caller' = [caller EXCEPT ![c] = Away]
         /\ newest' \in Nat /\ newest' >= newest /\ newest' >= now
         /\ DOMAIN hits' \subseteq Keys
         /\ \A j \in Keys : j # k => Stored(j)' = Left(j, now)
         /\ IF Cardinality(ActiveHits(k, now)) >= Limit[k]
            THEN admitted' = admitted /\ Stored(k)' = ActiveHits(k, now)
            ELSE /\ admitted' = [admitted EXCEPT ![k] = Append(@, now)]
                 /\ Stored(k)' = ActiveHits(k, now) \cup {Len(admitted[k]) + 1}
<1>1. caller[c] \in [key : Keys, now : Nat]
  BY DEF LimiterTyped, Allow
<1>2. k \in Keys /\ now \in Nat
  BY <1>1
<1>3. clock' = clock /\ caller' = [caller EXCEPT ![c] = Away]
  BY DEF Allow
<1>4. newest' = IF now > newest THEN now ELSE newest
  BY DEF Allow
<1>5. newest' \in Nat /\ newest' >= newest /\ newest' >= now
  BY <1>2, <1>4 DEF LimiterTyped
<1>. DEFINE left == IF now >= lastSweep + SweepInterval THEN Swept(now) ELSE hits
            active == IF k \in DOMAIN left THEN {i \in left[k] : InWindow(k, i, now)} ELSE {}
            kept == IF Cardinality(active) >= Limit[k] THEN active ELSE active \cup {Len(admitted[k]) + 1}
<1>6. hits' = [j \in DOMAIN left \cup {k} |-> IF j = k THEN kept ELSE left[j]]
  BY DEF Allow
<1>7. admitted' = IF Cardinality(active) >= Limit[k] THEN admitted ELSE [admitted EXCEPT ![k] = Append(@, now)]
  BY DEF Allow
<1>8. active = ActiveHits(k, now)
  BY DEF ActiveHits, Left, Stored
<1>9. DOMAIN left \subseteq DOMAIN hits
  BY DEF Swept
<1>10. \A j : (IF j \in DOMAIN left THEN left[j] ELSE {}) = Left(j, now)
  BY DEF Left, Stored
<1>. HIDE DEF left, active
<1>11. DOMAIN hits' = DOMAIN left \cup {k} /\ hits'[k] = kept /\ \A j \in DOMAIN left : j # k => hits'[j] = left[j]
  BY <1>6
<1>12. Stored(k)' = kept
  BY <1>11 DEF Stored
<1>13. ASSUME NEW j \in Keys, j # k PROVE Stored(j)' = Left(j, now)
  BY <1>10, <1>11, <1>13 DEF Stored
<1>14. DOMAIN hits' \subseteq Keys
  BY <1>2, <1>9, <1>11 DEF LimiterTyped
<1>. QED
  BY <1>2, <1>3, <1>5, <1>7, <1>8, <1>12, <1>13, <1>14

LEMMA LostStep ==
  ASSUME LimiterInv, NEW c \in Callers, Allow(c)
  PROVE  LimiterInv'
<1>t. LimiterTyped
  BY DEF LimiterInv
<1>. PICK k, now : k = caller[c].key /\ now = caller[c].now
  OBVIOUS
<1>1. /\ k \in Keys /\ now \in Nat
      /\ clock' = clock /\ caller' = [caller EXCEPT ![c] = Away]
      /\ newest' \in Nat /\ newest' >= newest /\ newest' >= now
      /\ DOMAIN hits' \subseteq Keys
      /\ \A j \in Keys : j # k => Stored(j)' = Left(j, now)
  BY <1>t, AllowStep
<1>. DEFINE active == ActiveHits(k, now)
            grows == ~(Cardinality(active) >= Limit[k])
            n == Len(admitted[k]) + 1
<1>2. IF grows THEN admitted' = [admitted EXCEPT ![k] = Append(@, now)] /\ Stored(k)' = active \cup {n}
      ELSE admitted' = admitted /\ Stored(k)' = active
  <2>1. IF Cardinality(ActiveHits(k, now)) >= Limit[k]
        THEN admitted' = admitted /\ Stored(k)' = ActiveHits(k, now)
        ELSE /\ admitted' = [admitted EXCEPT ![k] = Append(@, now)]
             /\ Stored(k)' = ActiveHits(k, now) \cup {Len(admitted[k]) + 1}
    BY <1>t, AllowStep
  <2>. QED
    BY <2>1
<1>. HIDE DEF active, grows
<1>3. \A j \in Keys : j # k => admitted'[j] = admitted[j]
  BY <1>t, <1>1, <1>2 DEF LimiterTyped
<1>4. /\ admitted[k] \in Seq(Nat) /\ n \in Nat
      /\ IF grows THEN admitted'[k] = Append(admitted[k], now) ELSE admitted'[k] = admitted[k]
  BY <1>t, <1>1, <1>2 DEF LimiterTyped
<1>5. admitted' \in [Keys -> Seq(Nat)]
  <2>1. Append(admitted[k], now) \in Seq(Nat)
    BY <1>1, <1>4
  <2>. QED
    BY <1>t, <1>1, <1>2, <2>1 DEF LimiterTyped
<1>6. /\ DOMAIN admitted'[k] = IF grows THEN DOMAIN admitted[k] \cup {n} ELSE DOMAIN admitted[k]
      /\ \A i \in DOMAIN admitted[k] : admitted'[k][i] = admitted[k][i] /\ i < n
  <2>. PICK q \in Seq(Nat) : q = admitted[k]
    BY <1>4
  <2>1. /\ DOMAIN Append(q, now) = DOMAIN q \cup {Len(q) + 1}
        /\ \A i \in DOMAIN q : Append(q, now)[i] = q[i] /\ i < Len(q) + 1
    BY <1>1
  <2>. QED
    BY <1>4, <2>1
<1>7. active \subseteq Stored(k) /\ \A j \in Keys : Left(j, now) \subseteq Stored(j)
  BY <1>t, <1>1, ActiveIsStored DEF active, ActiveHits
<1>8. ASSUME NEW j \in Keys PROVE Stored(j)' \subseteq DOMAIN admitted'[j]
  <2>1. CASE j = k
    BY <1>t, <1>1, <1>2, <1>6, <1>7, <2>1, KeyTyped
  <2>2. CASE j # k
    BY <1>t, <1>1, <1>3, <1>7, <2>2, KeyTyped
  <2>. QED
    BY <2>1, <2>2
<1>9. LimiterTyped'
  <2>1. caller' \in [Callers -> {Away} \cup [key : Keys, now : Nat]]
    BY <1>t, <1>1 DEF LimiterTyped
  <2>2. \A j \in DOMAIN hits' : hits'[j] \subseteq DOMAIN admitted'[j]
    BY <1>1, <1>8 DEF Stored
  <2>. QED
    BY <1>t, <1>1, <1>5, <2>1, <2>2 DEF LimiterTyped
<1>10. ASSUME NEW j \in Keys, InOrder(j)', NEW i \in DOMAIN admitted'[j] \ Stored(j)'
       PROVE  admitted'[j][i] + Window[j] <= newest'
  <2>1. /\ i \in DOMAIN admitted[j] /\ admitted'[j][i] = admitted[j][i]
        /\ i \notin Left(j, now) \/ ~InWindow(j, i, now)
    <3>1. CASE j = k
      BY <1>2, <1>6, <1>10, <3>1 DEF active, ActiveHits
    <3>2. CASE j # k
      BY <1>1, <1>3, <1>10, <3>2
    <3>. QED
      BY <3>1, <3>2
  <2>2. InOrder(j)
    <3>1. CASE j = k
      BY <1>6, <1>10, <3>1 DEF InOrder
    <3>2. CASE j # k
      BY <1>3, <1>10, <3>2 DEF InOrder
    <3>. QED
      BY <3>1, <3>2
  <2>3. admitted[j][i] \in Nat /\ Window[j] \in Nat /\ newest \in Nat
    BY <1>t, <2>1, KeyTyped DEF LimiterTyped
  <2>4. CASE i \in Stored(j)
    <3>1. ~InWindow(j, i, now)
      BY <1>t, <1>1, <2>1, <2>2, <2>4, ActiveIsStored
    <3>. QED
      BY <1>1, <2>1, <2>3, <3>1 DEF InWindow
  <2>5. CASE i \notin Stored(j)
    <3>1. admitted[j][i] + Window[j] <= newest
      BY <2>1, <2>2, <2>5 DEF LimiterInv, LostIsOver
    <3>. QED
      BY <1>1, <2>1, <2>3, <3>1
  <2>. QED
    BY <2>4, <2>5
<1>. QED
  BY <1>9, <1>10 DEF LimiterInv, LostIsOver

LEMMA LimiterBegins == LimiterInit => LimiterInv
<1>. SUFFICES ASSUME LimiterInit PROVE LimiterInv
  OBVIOUS
<1>1. DOMAIN hits = {} /\ \A k \in Keys : admitted[k] = << >>
  BY DEF LimiterInit
<1>2. LimiterTyped
  BY <1>1, LimiterAssumption DEF LimiterInit, LimiterTyped
<1>. QED
  BY <1>1, <1>2 DEF LimiterInv, LostIsOver

LEMMA LimiterStep == LimiterInv /\ [LimiterNext]_limiterVars => LimiterInv'
<1>. SUFFICES ASSUME LimiterInv, [LimiterNext]_limiterVars PROVE LimiterInv'
  OBVIOUS
<1>1. ASSUME UNCHANGED <<hits, admitted, newest>>, clock' \in Nat,
             caller' \in [Callers -> {Away} \cup [key : Keys, now : Nat]]
      PROVE  LimiterInv'
  BY <1>1 DEF LimiterInv, LimiterTyped, LostIsOver, Stored, InOrder
<1>2. CASE Pass
  BY <1>1, <1>2 DEF Pass, LimiterInv, LimiterTyped
<1>3. ASSUME NEW c \in Callers, NEW k \in Keys, ReadClock(c, k) PROVE LimiterInv'
  <2>1. [key |-> k, now |-> clock] \in [key : Keys, now : Nat]
    BY DEF LimiterInv, LimiterTyped
  <2>. QED
    BY <1>1, <1>3, <2>1 DEF ReadClock, LimiterInv, LimiterTyped
<1>4. CASE UNCHANGED limiterVars
  BY <1>1, <1>4 DEF limiterVars, LimiterInv, LimiterTyped
<1>. QED
  BY <1>2, <1>3, <1>4, LostStep DEF LimiterNext

\* A request that passes the lock in the order of the times is admitted exactly if the window
\* that ends with it has room: no sweep and no cut of the hits changes a decision.
THEOREM WindowDecides == LimiterSpec => DecidesByWindow
<1>. DEFINE Decided(c) ==
       LET k == caller[c].key
           now == caller[c].now
       IN  caller[c] # Away /\ caller'[c] = Away /\ newest <= now /\ InOrder(k)
             => ((admitted' # admitted) <=> AdmittedWithin(k, now) < Limit[k])
<1>1. ASSUME LimiterInv, LimiterNext, NEW c \in Callers PROVE Decided(c)
  <2>. SUFFICES ASSUME NEW k, NEW now, k = caller[c].key, now = caller[c].now,
                       caller[c] # Away, caller'[c] = Away, newest <= now, InOrder(k)
                PROVE  (admitted' # admitted) <=> AdmittedWithin(k, now) < Limit[k]
    OBVIOUS
  <2>1. LimiterTyped /\ caller \in [Callers -> {Away} \cup [key : Keys, now : Nat]]
    BY <1>1 DEF LimiterInv, LimiterTyped
  <2>2. Allow(c)
    <3>1. ASSUME NEW d \in Callers, d # c, Allow(d) \/ \E j \in Keys : ReadClock(d, j) PROVE FALSE
      BY <2>1, <3>1 DEF Allow, ReadClock
    <3>2. ~ \E j \in Keys : ReadClock(c, j)
      BY DEF ReadClock
    <3>. QED
      BY <1>1, <3>1, <3>2 DEF LimiterNext, Pass
  <2>3. /\ k \in Keys /\ now \in Nat
        /\ IF Cardinality(ActiveHits(k, now)) >= Limit[k]
           THEN admitted' = admitted
           ELSE admitted' = [admitted EXCEPT ![k] = Append(@, now)]
    BY <2>1, <2>2, AllowStep
  <2>4. ActiveHits(k, now) = {i \in DOMAIN admitted[k] : InWindow(k, i, now)}
    <3>1. ASSUME NEW i \in DOMAIN admitted[k], InWindow(k, i, now) PROVE i \in Stored(k)
      <4>1. admitted[k][i] \in Nat /\ Window[k] \in Nat /\ newest \in Nat
        BY <2>1, <2>3, KeyTyped DEF LimiterTyped
      <4>2. ~(admitted[k][i] + Window[k] <= newest)
        BY <2>3, <3>1, <4>1 DEF InWindow
      <4>. QED
        BY <1>1, <2>3, <4>2 DEF LimiterInv, LostIsOver
    <3>2. Left(k, now) \subseteq DOMAIN admitted[k]
      BY <2>1, <2>3, ActiveIsStored, KeyTyped
    <3>. QED
      BY <2>1, <2>3, <3>1, <3>2, ActiveIsStored DEF ActiveHits
  <2>5. AdmittedWithin(k, now) = Cardinality(ActiveHits(k, now))
    BY <2>4 DEF AdmittedWithin
  <2>6. [admitted EXCEPT ![k] = Append(@, now)] # admitted
    <3>1. admitted[k] \in Seq(Nat) /\ admitted \in [Keys -> Seq(Nat)]
      BY <2>1, <2>3 DEF LimiterTyped
    <3>2. Append(admitted[k], now) # admitted[k]
      BY <2>3, <3>1
    <3>. QED
      BY <2>3, <3>1, <3>2
  <2>7. Cardinality(ActiveHits(k, now)) \in Nat /\ Limit[k] \in Nat
    <3>1. DOMAIN admitted[k] = 1..Len(admitted[k]) /\ Len(admitted[k]) \in Nat /\ Limit[k] \in Nat
      BY <2>1, <2>3, KeyTyped
    <3>2. IsFiniteSet(1..Len(admitted[k])) /\ ActiveHits(k, now) \subseteq 1..Len(admitted[k])
      BY <2>4, <3>1, FS_Interval
    <3>. QED
      BY <3>1, <3>2, FS_Subset, FS_CardinalityType
  <2>. QED
    BY <2>3, <2>5, <2>6, <2>7
<1>2. LimiterInv /\ [LimiterNext]_limiterVars => [\A c \in Callers : Decided(c)]_limiterVars
  BY <1>1
<1>. QED
  BY <1>2, LimiterBegins, LimiterStep, PTL DEF LimiterSpec, DecidesByWindow

-----------------------------------------------------------------------------
(* Create calls.                                                           *)

CallsTyped ==
  /\ call \in [system : Systems, priority : BOOLEAN, initial : BOOLEAN, key : BOOLEAN,
               stage : {"ready", "waiting", "created", "over"},
               told : {"nothing", "id", "notStored", "unclear"}]
  /\ wire \in {"empty", "request", "id", "garbled", "5xx", "4xx", "failed", "noPriority"}
  /\ issues \in Nat

\* A call that may still send has stored nothing and has nothing on the way.
FreshWhenReady == call.stage = "ready" => issues = 0 /\ wire = "empty"

\* What the answer on the way says of the ticket.
WireTellsTruth ==
  /\ wire = "request" => issues = 0
  /\ wire = "id" => issues = 1
  /\ wire \in {"4xx", "noPriority"} => issues = 0

\* The ticket of an ID that arrived is stored.
KeyIsStored ==
  /\ call.stage = "created" => issues = 1 /\ call.key
  /\ call.told = "id" => issues = 1
  /\ call.key => call.stage = "created" \/ call.told = "id"

\* Nothing can be stored after "not stored".
RefusedForGood == call.told = "notStored" => issues = 0 /\ wire # "request"

CallInv ==
  /\ CallsTyped
  /\ issues <= 1
  /\ call.told = "nothing" <=> call.stage # "over"
  /\ FreshWhenReady /\ WireTellsTruth /\ KeyIsStored /\ RefusedForGood

\* The invariant holds when the call begins.
LEMMA CallBegins == CallsInit => CallInv
<1> SUFFICES ASSUME CallsInit PROVE CallInv
  OBVIOUS
<1>1. call.key = FALSE /\ call.stage = "ready" /\ call.told = "nothing"
  BY DEF CallsInit
<1>2. CallsTyped
  <2>1. call \in [system : Systems, priority : BOOLEAN, initial : BOOLEAN, key : {FALSE},
                  stage : {"ready"}, told : {"nothing"}]
    BY DEF CallsInit
  <2>2. call \in [system : Systems, priority : BOOLEAN, initial : BOOLEAN, key : BOOLEAN,
                  stage : {"ready", "waiting", "created", "over"},
                  told : {"nothing", "id", "notStored", "unclear"}]
    BY <2>1, Zenon
  <2> QED BY <2>2 DEF CallsInit, CallsTyped
<1> QED
  BY <1>1, <1>2 DEF CallsInit, CallInv, FreshWhenReady, WireTellsTruth, KeyIsStored, RefusedForGood

\* Every step of the call, of the wire and of the ticket system keeps it.
LEMMA CallStep == CallInv /\ [CallsNext]_callVars => CallInv'
<1> SUFFICES ASSUME CallInv, [CallsNext]_callVars PROVE CallInv'
  OBVIOUS
<1> USE DEF CallInv, CallsTyped, FreshWhenReady, WireTellsTruth, KeyIsStored, RefusedForGood
<1>1. CASE NotSent
  BY <1>1 DEF NotSent, Return
<1>2. CASE CancelledEarly
  BY <1>2 DEF CancelledEarly, Return
<1>3. CASE SendRequest
  BY <1>3 DEF SendRequest
<1>4. CASE SystemStores
  BY <1>4 DEF SystemStores
<1>5. CASE SystemRefuses
  BY <1>5 DEF SystemRefuses
<1>6. CASE GiveUp
  BY <1>6 DEF GiveUp, Return
<1>7. CASE IdArrives
  <2>1. CASE call.system = "jira" /\ call.initial
    BY <1>7, <2>1 DEF IdArrives
  <2>2. CASE ~(call.system = "jira" /\ call.initial)
    BY <1>7, <2>2 DEF IdArrives
  <2> QED BY <2>1, <2>2
<1>8. CASE DropPriority
  BY <1>8 DEF DropPriority
<1>9. CASE ErrorArrives
  BY <1>9 DEF ErrorArrives, Return
<1>10. CASE ApplyInitialStatus
  BY <1>10 DEF ApplyInitialStatus, Return
<1>11. CASE UNCHANGED callVars
  BY <1>11 DEF callVars
<1> QED
  BY <1>1, <1>2, <1>3, <1>4, <1>5, <1>6, <1>7, <1>8, <1>9, <1>10, <1>11 DEF CallsNext

\* A step of the call is a step of the contract or leaves it alone.
LEMMA CallStepKeepsContract ==
  CallInv /\ [CallsNext]_callVars => [Create!Next]_<<call.told, Tickets>>
<1> SUFFICES ASSUME CallInv, [CallsNext]_callVars PROVE [Create!Next]_<<call.told, Tickets>>
  OBVIOUS
<1> USE DEF CallInv, CallsTyped, FreshWhenReady, WireTellsTruth, KeyIsStored, RefusedForGood,
            Tickets
<1>1. CASE NotSent
  <2>1. Create!TellNotStored
    BY <1>1 DEF NotSent, Return, Create!TellNotStored
  <2> QED BY <2>1 DEF Create!Next
<1>2. CASE CancelledEarly
  <2>1. Create!TellUnclear
    BY <1>2 DEF CancelledEarly, Return, Create!TellUnclear
  <2> QED BY <2>1 DEF Create!Next
<1>3. CASE SendRequest \/ SystemRefuses \/ DropPriority \/ UNCHANGED callVars
  BY <1>3 DEF SendRequest, SystemRefuses, DropPriority, callVars
<1>4. CASE SystemStores
  <2>1. Create!Store
    BY <1>4 DEF SystemStores, Create!Store
  <2> QED BY <2>1 DEF Create!Next
<1>5. CASE GiveUp
  <2>1. Create!TellUnclear
    BY <1>5 DEF GiveUp, Return, Create!TellUnclear
  <2> QED BY <2>1 DEF Create!Next
<1>6. CASE IdArrives
  <2>1. CASE call.system = "jira" /\ call.initial
    BY <1>6, <2>1 DEF IdArrives
  <2>2. CASE ~(call.system = "jira" /\ call.initial)
    <3>1. Create!TellId
      BY <1>6, <2>2 DEF IdArrives, Create!TellId
    <3> QED BY <3>1 DEF Create!Next
  <2> QED BY <2>1, <2>2
<1>7. CASE ErrorArrives
  <2>1. CASE wire = "4xx"
    <3>1. Create!TellNotStored
      BY <1>7, <2>1 DEF ErrorArrives, Return, Create!TellNotStored
    <3> QED BY <3>1 DEF Create!Next
  <2>2. CASE wire # "4xx"
    <3>1. Create!TellUnclear
      BY <1>7, <2>2 DEF ErrorArrives, Return, Create!TellUnclear
    <3> QED BY <3>1 DEF Create!Next
  <2> QED BY <2>1, <2>2
<1>8. CASE ApplyInitialStatus
  <2>1. Create!TellId
    BY <1>8 DEF ApplyInitialStatus, Return, Create!TellId
  <2> QED BY <2>1 DEF Create!Next
<1> QED
  BY <1>1, <1>2, <1>3, <1>4, <1>5, <1>6, <1>7, <1>8 DEF CallsNext

\* Whatever gets lost or comes late: at most one ticket per call, an ID only of
\* a stored ticket, and no ticket ever after an error that the engine takes as
\* "definitely not stored" (create_error.go:54-75).
THEOREM CallsKeepContract == CallsSpec => KeepsContract
<1>1. CallsInit => Create!Init
  BY DEF CallsInit, Create!Init, Tickets
<1> QED
  BY <1>1, CallBegins, CallStep, CallStepKeepsContract, PTL
     DEF CallsSpec, KeepsContract, Create!Spec

\* A call whose ID has arrived returns it (jira.go:184-198).
THEOREM IdIsNotLost == CallsSpec => []IdNotLost
<1>1. CallInv => IdNotLost
  BY DEF CallInv, CallsTyped, KeyIsStored, IdNotLost
<1> QED
  BY <1>1, CallBegins, CallStep, PTL DEF CallsSpec

-----------------------------------------------------------------------------
(* Notifications, for every set of targets, subscriptions and actions.     *)

Polls == [stage : {"idle", "loaded", "notifying"}, picked : SUBSET Targets,
          actions : Seq(STRING), queue : SUBSET Targets]

NotifyTyped ==
  /\ poll \in Polls
  /\ DOMAIN targets \subseteq Targets
  /\ selected \in SUBSET Targets /\ audience \in SUBSET Targets /\ sent \in SUBSET Targets

\* A poll under way counts what is selected and what it has picked, and it sends
\* to nobody else.
AudienceCovers ==
  poll.stage # "idle" =>
    /\ Meant(selected) \subseteq audience
    /\ Meant(poll.picked) \subseteq audience

NotifyInv ==
  /\ NotifyTyped
  /\ AudienceCovers
  /\ poll.queue \subseteq audience
  /\ sent \subseteq audience
  /\ poll.stage = "idle" => poll.queue = {} /\ sent = {}
  /\ poll.stage = "loaded" => poll.queue = {}

\* Nothing is sent before the first poll.
LEMMA NotifyBegins == NotifyInit => NotifyInv
<1> SUFFICES ASSUME NotifyInit PROVE NotifyInv
  OBVIOUS
<1>1. poll \in Polls
  BY DEF NotifyInit, Resting, Polls
<1> QED
  BY <1>1 DEF NotifyInit, NotifyInv, NotifyTyped, AudienceCovers, Resting

\* A change of the selection widens the audience of a poll under way.
LEMMA SelectKeeps ==
  ASSUME NotifyInv, NEW selection \in SUBSET Targets, Select(selection),
         DOMAIN targets' \subseteq Targets
  PROVE  NotifyInv'
<1>1. CASE poll.stage = "idle"
  BY <1>1 DEF NotifyInv, NotifyTyped, AudienceCovers, Select, Meant
<1>2. CASE poll.stage # "idle"
  <2>1. audience' = audience \cup Meant(selection) /\ selected' = selection
    BY <1>2 DEF Select
  <2>2. poll' = poll /\ sent' = sent
    BY DEF Select
  <2>3. NotifyTyped'
    BY <2>1, <2>2 DEF NotifyInv, NotifyTyped, Meant
  <2>4. Meant(selected)' = Meant(selection) /\ Meant(poll.picked)' = Meant(poll.picked)
    BY <2>1, <2>2 DEF Meant
  <2>5. AudienceCovers'
    BY <1>2, <2>1, <2>2, <2>4 DEF NotifyInv, AudienceCovers
  <2> QED
    BY <2>1, <2>2, <2>3, <2>5 DEF NotifyInv
<1> QED
  BY <1>1, <1>2

\* Every step keeps the invariant.
LEMMA NotifyStep == NotifyInv /\ [NotifyNext]_notifyVars => NotifyInv'
<1> SUFFICES ASSUME NotifyInv, [NotifyNext]_notifyVars PROVE NotifyInv'
  OBVIOUS
<1>t. poll \in Polls /\ NotifyTyped
  BY DEF NotifyInv, NotifyTyped
<1>1. ASSUME NEW t \in Targets, NEW enabled, NEW events, CreateTarget(t, enabled, events)
      PROVE  NotifyInv'
  <2>1. DOMAIN targets' \subseteq Targets
    BY <1>1, <1>t DEF CreateTarget, NotifyTyped
  <2> QED
    BY <1>1, <2>1 DEF CreateTarget, NotifyInv, NotifyTyped, AudienceCovers, Meant
<1>2. ASSUME NEW t \in Targets, NEW enabled, NEW events, PatchTarget(t, enabled, events)
      PROVE  NotifyInv'
  <2>1. DOMAIN targets' \subseteq Targets
    BY <1>2, <1>t DEF PatchTarget, NotifyTyped
  <2> QED
    BY <1>2, <2>1 DEF PatchTarget, NotifyInv, NotifyTyped, AudienceCovers, Meant
<1>3. ASSUME NEW t \in Targets, DeleteTarget(t) PROVE NotifyInv'
  <2>1. DOMAIN targets' \subseteq Targets
    BY <1>3, <1>t DEF DeleteTarget, NotifyTyped
  <2>2. selected \ {t} \in SUBSET Targets
    BY <1>t DEF NotifyTyped
  <2> QED
    BY <1>3, <2>1, <2>2, SelectKeeps DEF DeleteTarget
<1>4. ASSUME NEW t \in Targets, SendToTarget(t) PROVE NotifyInv'
  <2>1. poll' \in Polls /\ poll'.picked = poll.picked /\ poll'.stage = poll.stage
        /\ poll'.queue = poll.queue \ {t}
    BY <1>4, <1>t DEF SendToTarget, Polls
  <2>2. t \in audience /\ poll.stage = "notifying"
    BY <1>4, <1>t DEF SendToTarget, NotifyInv, Polls
  <2>3. sent' \subseteq sent \cup {t}
    BY <1>4 DEF SendToTarget
  <2> QED
    BY <1>4, <2>1, <2>2, <2>3
       DEF SendToTarget, NotifyInv, NotifyTyped, AudienceCovers, Meant
<1>5. ASSUME NEW selection \in SUBSET Targets, SelectTargets(selection) PROVE NotifyInv'
  <2>1. DOMAIN targets' \subseteq Targets
    BY <1>5, <1>t DEF SelectTargets, NotifyTyped
  <2> QED
    BY <1>5, <2>1, SelectKeeps DEF SelectTargets
<1>6. CASE LoadRepo
  <2>1. poll' \in Polls /\ poll'.picked = selected /\ poll'.stage = "loaded" /\ poll'.queue = {}
    BY <1>6, <1>t DEF LoadRepo, Polls, NotifyTyped, NotifyInv
  <2> QED
    BY <1>6, <2>1 DEF LoadRepo, NotifyInv, NotifyTyped, AudienceCovers, Meant
<1>7. CASE SavePollState
  <2>1. PICK picked \in {selected, poll.picked} : poll' = [poll EXCEPT !.picked = picked]
    BY <1>7 DEF SavePollState
  <2>2. poll' \in Polls /\ poll'.picked = picked /\ poll'.stage = poll.stage
        /\ poll'.queue = poll.queue
    BY <2>1, <1>t DEF Polls, NotifyTyped
  <2>3. Meant(picked) \subseteq audience
    BY <1>7 DEF SavePollState, NotifyInv, AudienceCovers
  <2> QED
    BY <1>7, <2>2, <2>3 DEF SavePollState, NotifyInv, NotifyTyped, AudienceCovers, Meant
<1>8. ASSUME NEW actions \in ActionLists, Evaluated(actions) PROVE NotifyInv'
  <2>1. poll' \in Polls /\ poll'.picked = poll.picked /\ poll'.stage = "notifying"
        /\ poll'.queue = poll.queue /\ poll.stage = "loaded"
    BY <1>8, <1>t, NotifyAssumption DEF Evaluated, Polls
  <2> QED
    BY <1>8, <2>1 DEF Evaluated, NotifyInv, NotifyTyped, AudienceCovers, Meant
<1>9. CASE EvaluationFails \/ Notified
  <2>1. Resting \in Polls
    BY DEF Resting, Polls
  <2>2. Resting.stage = "idle" /\ Resting.queue = {}
    BY DEF Resting
  <2> QED
    BY <1>9, <2>1, <2>2 DEF EvaluationFails, Notified, NotifyInv, NotifyTyped, AudienceCovers
<1>10. CASE NotifyRepoAction
  <2>1. PICK listed \in BOOLEAN :
          poll' = [poll EXCEPT !.actions = Tail(@),
                     !.queue = IF listed THEN Addressed(Head(poll.actions)) ELSE {}]
    BY <1>10 DEF NotifyRepoAction
  <2> DEFINE queue == IF listed THEN Addressed(Head(poll.actions)) ELSE {}
  <2>2. queue \subseteq Meant(poll.picked)
    <3>1. ASSUME NEW t \in Addressed(Head(poll.actions)) PROVE t \in Meant(poll.picked)
      <4>1. t \in Targets /\ (poll.picked = {} \/ t \in poll.picked)
        BY <3>1, <1>t DEF NotifyTyped, Addressed, Existing
      <4> QED BY <4>1 DEF Meant
    <3> QED BY <3>1
  <2>3. queue \in SUBSET Targets
    BY <2>2, <1>t DEF Meant, Polls
  <2>4. Tail(poll.actions) \in Seq(STRING)
    BY <1>10, <1>t DEF NotifyRepoAction, Polls
  <2>5. poll' = [poll EXCEPT !.actions = Tail(poll.actions), !.queue = queue]
    BY <2>1
  <2> HIDE DEF queue
  <2>6. poll' \in Polls /\ poll'.picked = poll.picked /\ poll'.stage = poll.stage
        /\ poll'.queue = queue
    BY <2>3, <2>4, <2>5, <1>t DEF Polls
  <2>7. poll.stage = "notifying"
    BY <1>10 DEF NotifyRepoAction
  <2> QED
    BY <1>10, <2>2, <2>6, <2>7
       DEF NotifyRepoAction, NotifyInv, NotifyTyped, AudienceCovers, Meant
<1>11. CASE UNCHANGED notifyVars
  BY <1>11 DEF notifyVars, NotifyInv, NotifyTyped, AudienceCovers, Meant
<1> QED
  BY <1>1, <1>2, <1>3, <1>4, <1>5, <1>6, <1>7, <1>8, <1>9, <1>10, <1>11 DEF NotifyNext

\* A target that gets a message of a poll was meant at some time of that poll,
\* whatever is edited or deleted meanwhile and whichever read fails
\* (engine.go:622-638, notify.go:54-148).
THEOREM MessagesStayInTheAudience == NotifySpec => []OnlyChosenTargets
<1>1. NotifyInv => OnlyChosenTargets
  BY DEF NotifyInv, OnlyChosenTargets
<1> QED
  BY <1>1, NotifyBegins, NotifyStep, PTL DEF NotifySpec

=============================================================================
