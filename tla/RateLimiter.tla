----------------------------- MODULE RateLimiter -----------------------------
(***************************************************************************)
(* The middleware in front of /api/auth: a token bucket per client address *)
(* in a map, filled lazily, with a goroutine that forgets idle addresses.  *)
(*                                                                         *)
(* Requests of many goroutines and the cleanup are serialised by a mutex,  *)
(* but the clock runs on while it is held, and allow reads the clock twice *)
(* for a known visitor: once to fill the bucket, once to set lastSeen.     *)
(*                                                                         *)
(* Data abstraction.  Time is counted in ticks, as short as one likes, and *)
(* tokens in the units that one tick adds, so a token is Cost units.  The  *)
(* code's limiter has Burst = 10 tokens = 60 seconds and Idle = 180        *)
(* seconds; its arithmetic on float64 is taken as exact.                   *)
(***************************************************************************)
EXTENDS Integers

CONSTANTS Visitors,  \* client addresses
          Cost,      \* units of one token: ticks it takes to refill it
          Burst,     \* units of a full bucket
          Idle,      \* ticks after which the cleanup forgets a visitor
          MaxNow,    \* bound on the clock
          None       \* no visitor

ASSUME RateLimiterAssumption ==
  /\ Cost \in Nat \ {0} /\ Burst \in Nat /\ Cost <= Burst
  /\ Idle \in Nat /\ Burst <= Idle
  /\ MaxNow \in Nat
  /\ None \notin Visitors /\ None \notin [tokens : 0 .. Burst, lastSeen : Nat]

VARIABLES
  now,       \* the clock
  visitors,  \* rl.visitors
  mu,        \* the visitor whose request holds rl.mu between two clock readings
  \* History variables: they record what happened and guard nothing.
  asked,     \* when the request that holds rl.mu read the clock first
  opened,    \* when the window was opened in which requests are counted
  admitted   \* the requests of a visitor let through since

windows == <<opened, admitted>>
vars    == <<now, visitors, mu, asked, windows>>

Visitor == [tokens : 0 .. Burst, lastSeen : Nat]

Init ==
  /\ now = 0
  /\ visitors = [v \in Visitors |-> None]
  /\ mu = None
  /\ asked = 0
  /\ opened   = [v \in Visitors |-> 0]
  /\ admitted = [v \in Visitors |-> 0]

\* Faulty variant of Filled: the bucket may overflow.
Overfilled(tokens, elapsed) == tokens + elapsed

\* v.tokens += elapsed * rl.rate, at most rl.burst
Filled(tokens, elapsed) ==
  IF tokens + elapsed > Burst THEN Burst ELSE tokens + elapsed

Count(v) == admitted' = [admitted EXCEPT ![v] = @ + 1]

----------------------------------------------------------------------------
\* allow, a visitor that is not in the map.
AllowNew(v) ==
  /\ mu = None
  /\ visitors[v] = None
  /\ visitors' = [visitors EXCEPT ![v] = [tokens |-> Burst - Cost, lastSeen |-> now]]
  /\ Count(v)
  /\ UNCHANGED <<now, mu, asked, opened>>

\* allow, a known visitor: its bucket is filled for the time since lastSeen ..
Refill(v) ==
  /\ mu = None
  /\ visitors[v] # None
  /\ visitors' = [visitors EXCEPT ![v].tokens = Filled(@, now - visitors[v].lastSeen)]
  /\ mu' = v
  /\ asked' = now
  /\ UNCHANGED <<now, windows>>

\* Faulty variant of Decide: a refused request is charged too.
ChargeAlways(v) ==
  /\ mu = v
  /\ visitors' = [visitors EXCEPT ![v] = [tokens |-> @.tokens - Cost, lastSeen |-> now]]
  /\ \/ visitors[v].tokens < Cost /\ UNCHANGED admitted
     \/ visitors[v].tokens >= Cost /\ Count(v)
  /\ mu' = None
  /\ UNCHANGED <<now, asked, opened>>

\* .. and the request is let through if that left a token in it.
Decide(v) ==
  /\ mu = v
  /\ \/ /\ visitors[v].tokens < Cost
        /\ visitors' = [visitors EXCEPT ![v].lastSeen = now]
        /\ UNCHANGED admitted
     \/ /\ visitors[v].tokens >= Cost
        /\ visitors' = [visitors EXCEPT ![v] =
             [tokens |-> @.tokens - Cost, lastSeen |-> now]]
        /\ Count(v)
  /\ mu' = None
  /\ UNCHANGED <<now, asked, opened>>

\* Faulty variant of IsIdle: whoever is not asking right now is forgotten.
IsQuiet(v) == visitors[v] # None /\ now - visitors[v].lastSeen > 0

IsIdle(v) == visitors[v] # None /\ now - visitors[v].lastSeen > Idle

\* One round of the cleanup goroutine.
Cleanup ==
  /\ mu = None
  /\ \E v \in Visitors : IsIdle(v)
  /\ visitors' = [v \in Visitors |-> IF IsIdle(v) THEN None ELSE visitors[v]]
  /\ UNCHANGED <<now, mu, asked, windows>>

Tick ==
  /\ now < MaxNow
  /\ now' = now + 1
  /\ UNCHANGED <<visitors, mu, asked, windows>>

\* Requests can be counted from any moment on.
OpenWindow(v) ==
  /\ opened'   = [opened EXCEPT ![v] = now]
  /\ admitted' = [admitted EXCEPT ![v] = 0]
  /\ UNCHANGED <<now, visitors, mu, asked>>

Next ==
  \/ \E v \in Visitors : AllowNew(v) \/ Refill(v) \/ Decide(v) \/ OpenWindow(v)
  \/ Cleanup
  \/ Tick

Spec == Init /\ [][Next]_vars

----------------------------------------------------------------------------
\* The type invariant.
TypeOK ==
  /\ now \in Nat
  /\ visitors \in [Visitors -> Visitor \cup {None}]
  /\ mu \in Visitors \cup {None}
  /\ asked \in Nat /\ asked <= now
  /\ opened \in [Visitors -> Nat]
  /\ admitted \in [Visitors -> Nat]
  /\ \A v \in Visitors : opened[v] <= now
  /\ \A v \in Visitors : visitors[v] # None => visitors[v].lastSeen <= now
  /\ mu # None => visitors[mu] # None

\* What is in the bucket of a visitor at this moment: a visitor that is not in
\* the map has a full one; while its request holds the mutex nothing is added.
Level(v) ==
  IF visitors[v] = None THEN Burst
  ELSE IF mu = v THEN visitors[v].tokens
  ELSE Filled(visitors[v].tokens, now - visitors[v].lastSeen)

Bucket == INSTANCE TokenBucket
            WITH clock <- now, level <- [v \in Visitors |-> Level(v)]

\* The map of lazily filled buckets, with visitors coming and being forgotten,
\* behaves as if every address had had its own bucket from the start: above
\* all, the cleanup gives nobody more than waiting would have.
IsATokenBucket == Bucket!Spec

\* In no window of time are more requests of an address let through than a
\* full bucket and the refill of the window pay for.
NoMoreThanPaid ==
  \A v \in Visitors : admitted[v] * Cost <= Burst + (now - opened[v])

\* An address that waits for the refill of one token after its last request,
\* allowed or not, is let through, whatever it did before.
PatientIsAllowed ==
  [][\A v \in Visitors :
       (mu = v /\ mu' = None /\ admitted' = admitted) =>
         asked - visitors[v].lastSeen < Cost]_vars
=============================================================================
