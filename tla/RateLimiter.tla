----------------------------- MODULE RateLimiter -----------------------------
(***************************************************************************)
(* The limiter in front of the public auth endpoints: a window of admitted *)
(* requests per key (client and endpoint), and a sweep that now and then   *)
(* drops the keys whose window is over.  A request reads the clock before  *)
(* it takes the lock, so requests may pass the lock out of the order of    *)
(* their times.                                                            *)
(***************************************************************************)
EXTENDS Naturals, Sequences, FiniteSets

CONSTANTS Keys, Limit, Window,  \* Limit[k] requests in Window[k]
          SweepInterval,
          Callers,              \* requests that can be on their way at once
          MaxTime               \* bound on the clock

ASSUME LimiterAssumption ==
  /\ Limit \in [Keys -> Nat \ {0}] /\ Window \in [Keys -> Nat \ {0}]
  /\ SweepInterval \in Nat \ {0}

VARIABLES clock,
          hits,        \* store: of each key that has a bucket its hits, in the order
                       \* of their entry: positions in admitted[key]
          lastSweep,
          caller,      \* a request between its clock reading and the lock
          admitted,    \* history: the times of all admitted requests, by key
          newest       \* history: the latest time that passed the lock

limiterVars == <<clock, hits, lastSweep, caller, admitted, newest>>

Away == [key |-> "none"]

LimiterInit ==
  /\ clock = SweepInterval
  /\ hits = << >>
  /\ lastSweep = 0
  /\ caller = [c \in Callers |-> Away]
  /\ admitted = [k \in Keys |-> << >>]
  /\ newest = 0

Pass ==
  /\ clock < MaxTime
  /\ clock' = clock + 1
  /\ UNCHANGED <<hits, lastSweep, caller, admitted, newest>>

ReadClock(c, k) ==
  /\ caller[c] = Away
  /\ caller' = [caller EXCEPT ![c] = [key |-> k, now |-> clock]]
  /\ UNCHANGED <<clock, hits, lastSweep, admitted, newest>>

\* Hit i of key k is in the window that ends at now.
InWindow(k, i, now) == admitted[k][i] + Window[k] > now

\* Mutant: the oldest hit decides.
SweptByOldest(now) ==
  [k \in {k \in DOMAIN hits : \E i \in hits[k] :
             (\A j \in hits[k] : i <= j) /\ InWindow(k, i, now)} |-> hits[k]]

\* A bucket is kept by its last hit.
Swept(now) ==
  [k \in {k \in DOMAIN hits : \E i \in hits[k] :
             (\A j \in hits[k] : j <= i) /\ InWindow(k, i, now)} |-> hits[k]]

\* RateLimiter.allow, under the lock.
Allow(c) ==
  LET k == caller[c].key
      now == caller[c].now
      sweeps == now >= lastSweep + SweepInterval
      left == IF sweeps THEN Swept(now) ELSE hits
      active == IF k \in DOMAIN left THEN {i \in left[k] : InWindow(k, i, now)} ELSE {}
      full == Cardinality(active) >= Limit[k]
      kept == IF full THEN active ELSE active \cup {Len(admitted[k]) + 1}
  IN  /\ caller[c] # Away
      /\ lastSweep' = IF sweeps THEN now ELSE lastSweep
      /\ hits' = [j \in DOMAIN left \cup {k} |-> IF j = k THEN kept ELSE left[j]]
      /\ admitted' = IF full THEN admitted ELSE [admitted EXCEPT ![k] = Append(@, now)]
      /\ newest' = IF now > newest THEN now ELSE newest
      /\ caller' = [caller EXCEPT ![c] = Away]
      /\ UNCHANGED clock

LimiterNext ==
  \/ Pass
  \/ \E c \in Callers : Allow(c) \/ \E k \in Keys : ReadClock(c, k)

LimiterSpec == LimiterInit /\ [][LimiterNext]_limiterVars

-----------------------------------------------------------------------------
(* Properties *)

\* How many requests of key k were admitted in the window that ends at now.
AdmittedWithin(k, now) == Cardinality({i \in DOMAIN admitted[k] : InWindow(k, i, now)})

\* The requests of key k were admitted in the order of their times.
InOrder(k) == \A i, j \in DOMAIN admitted[k] : i < j => admitted[k][i] <= admitted[k][j]

\* A request that passes the lock in the order of the times is admitted exactly
\* if the window that ends with it has room among all requests that were ever
\* admitted: neither the sweep nor the hits dropped on the way change a
\* decision (ratelimit.go:112-164).  It is not so for a key whose requests
\* overtook each other between the clock and the lock: the sweep looks at the
\* hit entered last, which is then not the newest.
DecidesByWindow ==
  [][\A c \in Callers :
       LET k == caller[c].key
           now == caller[c].now
       IN  caller[c] # Away /\ caller'[c] = Away /\ newest <= now /\ InOrder(k)
             => ((admitted' # admitted) <=> AdmittedWithin(k, now) < Limit[k])]_limiterVars

=============================================================================
