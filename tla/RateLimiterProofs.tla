-------------------------- MODULE RateLimiterProofs --------------------------
(***************************************************************************)
(* The rate limiter is a token bucket per address, for any number of       *)
(* addresses, any rate and burst, provided the cleanup waits at least as   *)
(* long as an empty bucket takes to fill (Burst <= Idle): the 180 seconds  *)
(* of cleanup against the 60 seconds of RateLimit(10.0/60.0, 10).          *)
(*                                                                         *)
(* Everything rests on how each action changes Level, the bucket that the  *)
(* map stands for.                                                         *)
(***************************************************************************)
EXTENDS RateLimiter, TLAPS

\* A bucket never holds more than Burst, and its level is a natural number.
LEMMA LevelType ==
  ASSUME TypeOK, NEW v \in Visitors
  PROVE  Level(v) \in 0 .. Burst
BY RateLimiterAssumption DEF TypeOK, Level, Filled, Visitor

LevelsOK == \A v \in Visitors : Level(v) \in 0 .. Burst

LEMMA LevelsType == TypeOK => LevelsOK
BY LevelType DEF LevelsOK

LEMMA NextLevelsType ==
  ASSUME TypeOK'
  PROVE  \A v \in Visitors : Level(v)' \in 0 .. Burst
<1>1. TypeOK' => LevelsOK'
  BY LevelsType, PTL
<1> QED BY <1>1 DEF LevelsOK

\* An unknown address has a full bucket and pays from it.
LEMMA LevelAllowNew ==
  ASSUME TypeOK, NEW u \in Visitors, AllowNew(u)
  PROVE  /\ TypeOK'
         /\ Level(u) >= Cost /\ Level(u)' = Level(u) - Cost
         /\ \A v \in Visitors \ {u} : Level(v)' = Level(v)
<1> USE RateLimiterAssumption
<1>1. [tokens |-> Burst - Cost, lastSeen |-> now] \in Visitor
  BY DEF TypeOK, Visitor
<1>2. visitors' \in [Visitors -> Visitor \cup {None}]
  BY <1>1 DEF TypeOK, AllowNew
<1>3. admitted' \in [Visitors -> Nat]
  BY DEF TypeOK, AllowNew, Count
<1>4. TypeOK'
  BY <1>2, <1>3 DEF TypeOK, AllowNew
<1>5. visitors'[u] # None /\ visitors'[u] = [tokens |-> Burst - Cost, lastSeen |-> now]
  BY <1>1 DEF TypeOK, AllowNew, Visitor
<1>6. Level(u) = Burst /\ Level(u)' = Burst - Cost
  BY <1>5 DEF TypeOK, AllowNew, Level, Filled
<1>7. \A v \in Visitors \ {u} : Level(v)' = Level(v)
  BY DEF TypeOK, AllowNew, Level
<1> QED BY <1>4, <1>6, <1>7

\* Filling lazily changes nothing.
LEMMA LevelRefill ==
  ASSUME TypeOK, NEW u \in Visitors, Refill(u)
  PROVE  TypeOK' /\ \A v \in Visitors : Level(v)' = Level(v)
<1> USE RateLimiterAssumption
<1> DEFINE t == Filled(visitors[u].tokens, now - visitors[u].lastSeen)
<1>1. visitors[u] \in Visitor /\ mu = None
  BY DEF TypeOK, Refill
<1>2. t \in 0 .. Burst
  BY <1>1 DEF TypeOK, Visitor, Filled
<1>3. /\ visitors' = [visitors EXCEPT ![u] = [visitors[u] EXCEPT !.tokens = t]]
      /\ mu' = u /\ asked' = now /\ UNCHANGED <<now, opened, admitted>>
  BY DEF Refill, windows
<1> HIDE DEF t
<1> DEFINE r == [visitors[u] EXCEPT !.tokens = t]
<1>4. r \in Visitor /\ r # None /\ r.tokens = t /\ r.lastSeen = visitors[u].lastSeen
  BY <1>1, <1>2 DEF Visitor
<1> HIDE DEF r
<1>5. visitors'[u] = r /\ \A v \in Visitors \ {u} : visitors'[v] = visitors[v]
  BY <1>3 DEF TypeOK, r
<1>6. visitors' \in [Visitors -> Visitor \cup {None}]
  BY <1>3, <1>4 DEF TypeOK, r
<1>7. TypeOK'
  <2>1. \A v \in Visitors : visitors'[v] # None => visitors'[v].lastSeen <= now
    <3>1. visitors[u] # None
      BY DEF Refill
    <3>2. \A v \in Visitors : visitors[v] # None => visitors[v].lastSeen <= now
      BY DEF TypeOK
    <3> QED BY <1>4, <1>5, <3>1, <3>2
  <2>2. visitors'[u] # None
    BY <1>4, <1>5
  <2> QED BY <1>3, <1>6, <2>1, <2>2 DEF TypeOK
<1>8. Level(u) = t
  BY <1>1 DEF Level, t, Refill
<1>9. Level(u)' = t
  BY <1>3, <1>4, <1>5 DEF Level
<1>10. \A v \in Visitors \ {u} : Level(v)' = Level(v)
  BY <1>1, <1>3, <1>5 DEF Level
<1> QED BY <1>7, <1>8, <1>9, <1>10

\* A request that is let through pays one token, a refused one nothing.
LEMMA LevelDecide ==
  ASSUME TypeOK, NEW u \in Visitors, Decide(u)
  PROVE  /\ TypeOK'
         /\ \/ Level(u)' = Level(u) /\ UNCHANGED admitted
            \/ Level(u) >= Cost /\ Level(u)' = Level(u) - Cost /\ Count(u)
         /\ \A v \in Visitors \ {u} : Level(v)' = Level(v)
<1> USE RateLimiterAssumption
<1>1. visitors[u] \in Visitor /\ visitors[u] # None /\ mu = u
  BY DEF TypeOK, Decide
<1>2. Level(u) = visitors[u].tokens /\ visitors[u].tokens \in 0 .. Burst
  BY <1>1 DEF Level, Visitor
<1>3. PICK t \in 0 .. Burst :
        /\ visitors' = [visitors EXCEPT ![u] = [tokens |-> t, lastSeen |-> now]]
        /\ \/ t = Level(u) /\ UNCHANGED admitted
           \/ Level(u) >= Cost /\ t = Level(u) - Cost /\ Count(u)
  <2>1. CASE visitors[u].tokens < Cost
    <3>1. [visitors[u] EXCEPT !.lastSeen = now]
            = [tokens |-> visitors[u].tokens, lastSeen |-> now]
      BY <1>1 DEF Visitor
    <3> QED BY <1>2, <2>1, <3>1 DEF Decide
  <2>2. CASE visitors[u].tokens >= Cost
    BY <1>2, <2>2 DEF Decide
  <2> QED BY <1>2, <2>1, <2>2
<1>4. mu' = None /\ UNCHANGED <<now, asked, opened>>
  BY DEF Decide
<1> DEFINE r == [tokens |-> t, lastSeen |-> now]
<1>5. r \in Visitor /\ r # None /\ r.tokens = t /\ r.lastSeen = now
  BY DEF Visitor, TypeOK
<1> HIDE DEF r
<1>6. visitors'[u] = r /\ \A v \in Visitors \ {u} : visitors'[v] = visitors[v]
  BY <1>3 DEF TypeOK, r
<1>7. visitors' \in [Visitors -> Visitor \cup {None}]
  BY <1>3, <1>5 DEF TypeOK, r
<1>8. admitted' \in [Visitors -> Nat]
  BY <1>3 DEF TypeOK, Count
<1>9. TypeOK'
  BY <1>4, <1>5, <1>6, <1>7, <1>8 DEF TypeOK
<1>10. Level(u)' = t
  <2>1. Filled(t, 0) = t
    BY DEF Filled
  <2>2. now - now = 0
    BY DEF TypeOK
  <2> QED BY <1>4, <1>5, <1>6, <2>1, <2>2 DEF Level
<1>11. \A v \in Visitors \ {u} : Level(v)' = Level(v)
  BY <1>1, <1>4, <1>6 DEF Level
<1> QED BY <1>3, <1>9, <1>10, <1>11

\* A visitor that is forgotten had a full bucket.
LEMMA LevelCleanup ==
  ASSUME TypeOK, Cleanup
  PROVE  TypeOK' /\ \A v \in Visitors : Level(v)' = Level(v)
<1> USE RateLimiterAssumption
<1>1. TypeOK'
  BY DEF TypeOK, Cleanup, windows
<1>2. ASSUME NEW v \in Visitors
      PROVE  Level(v)' = Level(v)
  <2>1. CASE IsIdle(v)
    <3>1. visitors'[v] = None
      BY <2>1 DEF Cleanup
    <3>2. visitors[v] \in Visitor /\ visitors[v] # None /\ mu = None
      BY <2>1 DEF IsIdle, TypeOK, Cleanup
    <3>3. visitors[v].tokens + (now - visitors[v].lastSeen) > Burst
      BY <2>1, <3>2 DEF IsIdle, TypeOK, Visitor
    <3> QED BY <3>1, <3>2, <3>3 DEF Level, Filled
  <2>2. CASE ~IsIdle(v)
    BY <2>2 DEF Cleanup, Level
  <2> QED BY <2>1, <2>2
<1> QED BY <1>1, <1>2

\* Time fills a bucket up to Burst (but for the time a decision takes).
LEMMA LevelTick ==
  ASSUME TypeOK, Tick
  PROVE  TypeOK' /\ \A v \in Visitors : Level(v)' \in {Level(v), Level(v) + 1}
<1> USE RateLimiterAssumption
<1>1. TypeOK'
  BY DEF TypeOK, Tick, windows, Visitor
<1>2. ASSUME NEW v \in Visitors
      PROVE  Level(v)' \in {Level(v), Level(v) + 1}
  <2>1. now' = now + 1 /\ now \in Nat /\ UNCHANGED <<visitors, mu>>
    BY DEF Tick, TypeOK
  <2>2. CASE visitors[v] = None \/ mu = v
    BY <2>1, <2>2 DEF Level
  <2>3. CASE visitors[v] # None /\ mu # v
    <3>1. visitors[v].tokens \in Int /\ visitors[v].lastSeen \in Int
      BY <2>3 DEF TypeOK, Visitor
    <3>2. /\ Level(v) = Filled(visitors[v].tokens, now - visitors[v].lastSeen)
          /\ Level(v)' = Filled(visitors'[v].tokens, now' - visitors'[v].lastSeen)
      BY <2>1, <2>3 DEF Level
    <3>3. now' - visitors'[v].lastSeen = (now - visitors[v].lastSeen) + 1
      BY <2>1, <3>1
    <3> QED BY <2>1, <3>1, <3>2, <3>3 DEF Filled
  <2> QED BY <2>2, <2>3
<1> QED BY <1>1, <1>2

LEMMA LevelOpenWindow ==
  ASSUME TypeOK, NEW u \in Visitors, OpenWindow(u)
  PROVE  TypeOK' /\ \A v \in Visitors : Level(v)' = Level(v)
<1>1. TypeOK'
  BY DEF TypeOK, OpenWindow
<1>2. \A v \in Visitors : Level(v)' = Level(v)
  BY DEF OpenWindow, Level
<1> QED BY <1>1, <1>2

LEMMA LevelStutter ==
  ASSUME TypeOK, UNCHANGED vars
  PROVE  TypeOK' /\ \A v \in Visitors : Level(v)' = Level(v)
<1>1. UNCHANGED <<now, visitors, mu, asked, opened, admitted>>
  BY DEF vars, windows
<1>2. TypeOK'
  BY <1>1 DEF TypeOK
<1>3. \A v \in Visitors : Level(v)' = Level(v)
  BY <1>1 DEF Level
<1> QED BY <1>2, <1>3

LEMMA LimiterInit ==
  ASSUME Init
  PROVE  TypeOK /\ \A v \in Visitors : Level(v) = Burst
BY RateLimiterAssumption DEF Init, TypeOK, Level

LEMMA LimiterType ==
  ASSUME TypeOK, [Next]_vars
  PROVE  TypeOK'
BY LevelAllowNew, LevelRefill, LevelDecide, LevelCleanup, LevelTick,
   LevelOpenWindow, LevelStutter DEF Next

----------------------------------------------------------------------------
(* The limiter implements a token bucket per address.                      *)

levels == [v \in Visitors |-> Level(v)]

\* A step that leaves every level and the windows alone is a stutter of the
\* buckets.
LEMMA SameLevels ==
  ASSUME \A v \in Visitors : Level(v)' = Level(v)
  PROVE  levels' = levels
BY DEF levels

\* A step that takes one token of u out of its bucket.
LEMMA OneLevel ==
  ASSUME NEW u \in Visitors, Level(u)' = Level(u) - Cost,
         \A v \in Visitors \ {u} : Level(v)' = Level(v)
  PROVE  levels' = [levels EXCEPT ![u] = @ - Cost]
BY DEF levels

LEMMA BucketInit ==
  ASSUME Init
  PROVE  Bucket!Init
<1>1. levels = [v \in Visitors |-> Burst]
  BY LimiterInit DEF levels
<1> QED BY <1>1 DEF Init, Bucket!Init, levels

LEMMA BucketAdmit ==
  ASSUME NEW u \in Visitors, Level(u) >= Cost, Level(u)' = Level(u) - Cost,
         \A v \in Visitors \ {u} : Level(v)' = Level(v),
         Count(u), UNCHANGED <<now, opened>>
  PROVE  Bucket!Admit(u)
<1>1. levels' = [levels EXCEPT ![u] = @ - Cost]
  BY OneLevel
<1>2. levels[u] >= Cost
  BY DEF levels
<1> QED BY <1>1, <1>2 DEF Bucket!Admit, Count, levels

LEMMA BucketTick ==
  ASSUME TypeOK, Tick
  PROVE  Bucket!Tick
<1>1. TypeOK' /\ \A v \in Visitors : Level(v)' \in {Level(v), Level(v) + 1}
  BY LevelTick
<1>2. \A v \in Visitors : Level(v)' \in 0 .. Burst
  BY <1>1, NextLevelsType
<1>3. levels' \in [Visitors -> 0 .. Burst]
  BY <1>2 DEF levels
<1>4. \A v \in Visitors : levels'[v] \in {levels[v], levels[v] + 1}
  BY <1>1 DEF levels
<1> QED BY <1>3, <1>4 DEF Bucket!Tick, Tick, windows, levels

LEMMA BucketStep ==
  ASSUME TypeOK, [Next]_vars
  PROVE  [Bucket!Next]_(Bucket!bucketVars)
<1>1. ASSUME UNCHANGED windows, UNCHANGED now,
             \A v \in Visitors : Level(v)' = Level(v)
      PROVE  UNCHANGED Bucket!bucketVars
  BY <1>1, SameLevels DEF Bucket!bucketVars, windows, levels
<1>2. ASSUME NEW u \in Visitors, AllowNew(u)
      PROVE  Bucket!Next
  BY <1>2, LevelAllowNew, BucketAdmit DEF AllowNew, Bucket!Next
<1>3. ASSUME NEW u \in Visitors, Refill(u)
      PROVE  UNCHANGED Bucket!bucketVars
  BY <1>1, <1>3, LevelRefill DEF Refill
<1>4. ASSUME NEW u \in Visitors, Decide(u)
      PROVE  [Bucket!Next]_(Bucket!bucketVars)
  <2>1. UNCHANGED <<now, opened>>
    BY <1>4 DEF Decide
  <2>2. CASE Level(u)' = Level(u) /\ UNCHANGED admitted
    BY <1>1, <1>4, <2>1, <2>2, LevelDecide DEF windows
  <2>3. CASE Level(u) >= Cost /\ Level(u)' = Level(u) - Cost /\ Count(u)
    BY <1>4, <2>1, <2>3, LevelDecide, BucketAdmit DEF Bucket!Next
  <2> QED BY <1>4, <2>2, <2>3, LevelDecide
<1>5. ASSUME NEW u \in Visitors, OpenWindow(u)
      PROVE  Bucket!Next
  <2>1. levels' = levels
    BY <1>5, LevelOpenWindow, SameLevels
  <2> QED BY <1>5, <2>1 DEF OpenWindow, Bucket!OpenWindow, Bucket!Next, levels
<1>6. CASE Cleanup
  BY <1>1, <1>6, LevelCleanup DEF Cleanup
<1>7. CASE Tick
  BY <1>7, BucketTick DEF Bucket!Next
<1>8. CASE UNCHANGED vars
  BY <1>1, <1>8, LevelStutter DEF vars
<1> QED BY <1>2, <1>3, <1>4, <1>5, <1>6, <1>7, <1>8 DEF Next

\* The map of lazily filled buckets, visitors that come and the cleanup that
\* forgets them behave as one bucket per address that is always there.
THEOREM LimiterIsATokenBucket == Spec => IsATokenBucket
<1>1. Init => TypeOK /\ Bucket!Init
  BY LimiterInit, BucketInit
<1>2. TypeOK /\ [Next]_vars => TypeOK' /\ [Bucket!Next]_(Bucket!bucketVars)
  BY LimiterType, BucketStep
<1> QED BY <1>1, <1>2, PTL DEF Spec, IsATokenBucket, Bucket!Spec

----------------------------------------------------------------------------
(* What the windows count.                                                 *)

\* The inductive invariant: what was let through in a window and what is
\* still in the bucket were together paid for.
Paid ==
  \A v \in Visitors :
    admitted[v] * Cost + Level(v) <= Burst + (now - opened[v])

LEMMA PaidStep ==
  ASSUME TypeOK, Paid, [Next]_vars
  PROVE  Paid'
<1> USE RateLimiterAssumption
<1>1. /\ now \in Nat /\ opened \in [Visitors -> Nat] /\ admitted \in [Visitors -> Nat]
      /\ TypeOK'
  BY LimiterType DEF TypeOK
<1>2. \A v \in Visitors : Level(v) \in Int /\ Level(v)' \in Int
  BY <1>1, LevelType, NextLevelsType
<1>3. \A n \in Nat : n * Cost \in Int /\ (n + 1) * Cost = n * Cost + Cost
  OBVIOUS
<1>4. ASSUME UNCHANGED windows, UNCHANGED now,
             \A v \in Visitors : Level(v)' = Level(v)
      PROVE  Paid'
  BY <1>4 DEF Paid, windows
<1>5. ASSUME NEW u \in Visitors, Level(u)' = Level(u) - Cost,
             \A v \in Visitors \ {u} : Level(v)' = Level(v),
             Count(u), UNCHANGED <<now, opened>>
      PROVE  Paid'
  <2>1. admitted'[u] = admitted[u] + 1
        /\ \A v \in Visitors \ {u} : admitted'[v] = admitted[v]
    BY <1>1, <1>5 DEF Count
  <2>2. ASSUME NEW v \in Visitors
        PROVE  admitted'[v] * Cost + Level(v)' <= Burst + (now' - opened'[v])
    <3>1. admitted[v] * Cost + Level(v) <= Burst + (now - opened[v])
      BY DEF Paid
    <3>2. CASE v # u
      BY <1>5, <2>1, <3>1, <3>2
    <3>3. CASE v = u
      <4>1. admitted'[u] * Cost = admitted[u] * Cost + Cost
        BY <1>1, <1>3, <2>1
      <4>2. admitted[u] * Cost \in Int /\ Level(u) \in Int
        BY <1>1, <1>2, <1>3
      <4> QED BY <1>5, <3>1, <3>3, <4>1, <4>2
    <3> QED BY <3>2, <3>3
  <2> QED BY <2>2 DEF Paid
<1>6. ASSUME NEW u \in Visitors, AllowNew(u)
      PROVE  Paid'
  BY <1>5, <1>6, LevelAllowNew DEF AllowNew
<1>7. ASSUME NEW u \in Visitors, Refill(u)
      PROVE  Paid'
  BY <1>4, <1>7, LevelRefill DEF Refill
<1>8. ASSUME NEW u \in Visitors, Decide(u)
      PROVE  Paid'
  <2>1. UNCHANGED <<now, opened>>
    BY <1>8 DEF Decide
  <2>2. CASE Level(u)' = Level(u) /\ UNCHANGED admitted
    BY <1>4, <1>8, <2>1, <2>2, LevelDecide DEF windows
  <2>3. CASE Level(u) >= Cost /\ Level(u)' = Level(u) - Cost /\ Count(u)
    BY <1>5, <1>8, <2>1, <2>3, LevelDecide
  <2> QED BY <1>8, <2>2, <2>3, LevelDecide
<1>9. ASSUME NEW u \in Visitors, OpenWindow(u)
      PROVE  Paid'
  <2>1. \A v \in Visitors : Level(v)' = Level(v) /\ Level(v) \in 0 .. Burst
    BY <1>9, LevelOpenWindow, LevelType
  <2>2. ASSUME NEW v \in Visitors
        PROVE  admitted'[v] * Cost + Level(v)' <= Burst + (now' - opened'[v])
    <3>1. CASE v # u
      BY <1>1, <1>9, <2>1, <3>1 DEF OpenWindow, Paid
    <3>2. CASE v = u
      <4>1. admitted'[u] = 0 /\ opened'[u] = now /\ now' = now
        BY <1>1, <1>9 DEF OpenWindow
      <4>2. 0 * Cost = 0
        OBVIOUS
      <4> QED BY <1>1, <2>1, <3>2, <4>1, <4>2
    <3> QED BY <3>1, <3>2
  <2> QED BY <2>2 DEF Paid
<1>10. CASE Cleanup
  BY <1>4, <1>10, LevelCleanup DEF Cleanup
<1>11. CASE Tick
  <2>1. now' = now + 1 /\ UNCHANGED <<opened, admitted>>
    BY <1>11 DEF Tick, windows
  <2>2. ASSUME NEW v \in Visitors
        PROVE  admitted'[v] * Cost + Level(v)' <= Burst + (now' - opened'[v])
    <3>1. admitted[v] * Cost + Level(v) <= Burst + (now - opened[v])
      BY DEF Paid
    <3>2. Level(v)' <= Level(v) + 1
      BY <1>2, <1>11, LevelTick
    <3>3. admitted[v] * Cost \in Int /\ opened[v] \in Int /\ admitted[v] \in Nat
      BY <1>1, <1>3
    <3> QED BY <1>1, <1>2, <2>1, <3>1, <3>2, <3>3
  <2> QED BY <2>2 DEF Paid
<1>12. CASE UNCHANGED vars
  BY <1>4, <1>12, LevelStutter DEF vars
<1> QED BY <1>6, <1>7, <1>8, <1>9, <1>10, <1>11, <1>12 DEF Next

\* In no window are more requests of an address let through than are paid for.
THEOREM WindowsArePaid == Spec => [](TypeOK /\ NoMoreThanPaid)
<1>1. Init => TypeOK /\ Paid
  <2>1. ASSUME Init, NEW v \in Visitors
        PROVE  admitted[v] * Cost + Level(v) <= Burst + (now - opened[v])
    <3>1. admitted[v] = 0 /\ opened[v] = 0 /\ now = 0 /\ Level(v) = Burst
      BY <2>1, LimiterInit DEF Init
    <3> QED BY <3>1, RateLimiterAssumption
  <2> QED BY <2>1, LimiterInit DEF Paid
<1>2. TypeOK /\ Paid /\ [Next]_vars => TypeOK' /\ Paid'
  BY LimiterType, PaidStep
<1>3. TypeOK /\ Paid => NoMoreThanPaid
  <2>1. ASSUME TypeOK, Paid, NEW v \in Visitors
        PROVE  admitted[v] * Cost <= Burst + (now - opened[v])
    <3>1. Level(v) \in 0 .. Burst /\ admitted[v] * Cost + Level(v) <= Burst + (now - opened[v])
      BY <2>1, LevelType DEF Paid
    <3>2. admitted[v] \in Nat /\ opened[v] \in Nat /\ now \in Nat
      BY <2>1 DEF TypeOK
    <3>3. admitted[v] * Cost \in Int
      BY <3>2, RateLimiterAssumption
    <3> QED BY <3>1, <3>2, <3>3, RateLimiterAssumption
  <2> QED BY <2>1 DEF NoMoreThanPaid
<1> QED BY <1>1, <1>2, <1>3, PTL DEF Spec

----------------------------------------------------------------------------
(* What a patient client can count on.                                     *)

\* Between the two clock readings of a request its bucket is full, or holds
\* at least what the time since the visitor's last request has added.
FilledForWaiting ==
  mu # None =>
    \/ visitors[mu].tokens >= Burst
    \/ visitors[mu].tokens >= asked - visitors[mu].lastSeen

LEMMA WaitingStep ==
  ASSUME TypeOK, FilledForWaiting, [Next]_vars
  PROVE  FilledForWaiting'
<1> USE RateLimiterAssumption
<1>1. ASSUME mu' = None
      PROVE  FilledForWaiting'
  BY <1>1 DEF FilledForWaiting
<1>2. ASSUME NEW u \in Visitors, Refill(u)
      PROVE  FilledForWaiting'
  <2> DEFINE e == now - visitors[u].lastSeen
  <2>1. visitors[u] \in Visitor /\ visitors[u].tokens \in Nat /\ e \in Int
    BY <1>2 DEF Refill, TypeOK, Visitor
  <2>2. /\ visitors' = [visitors EXCEPT ![u] =
                        [visitors[u] EXCEPT !.tokens = Filled(visitors[u].tokens, e)]]
        /\ mu' = u /\ asked' = now
    BY <1>2 DEF Refill
  <2>3. /\ visitors'[u].tokens = Filled(visitors[u].tokens, e)
        /\ visitors'[u].lastSeen = visitors[u].lastSeen
    <3>1. visitors'[u] = [visitors[u] EXCEPT !.tokens = Filled(visitors[u].tokens, e)]
      BY <2>2 DEF TypeOK
    <3> QED BY <2>1, <3>1 DEF Visitor
  <2>4. Filled(visitors[u].tokens, e) >= Burst \/ Filled(visitors[u].tokens, e) >= e
    BY <2>1 DEF Filled
  <2> QED BY <2>2, <2>3, <2>4 DEF FilledForWaiting
<1>3. ASSUME UNCHANGED <<visitors, mu, asked>>
      PROVE  FilledForWaiting'
  BY <1>3 DEF FilledForWaiting
<1>4. ASSUME NEW u \in Visitors, AllowNew(u) \/ Decide(u)
      PROVE  FilledForWaiting'
  BY <1>1, <1>4 DEF AllowNew, Decide
<1>5. ASSUME NEW u \in Visitors, OpenWindow(u)
      PROVE  FilledForWaiting'
  BY <1>3, <1>5 DEF OpenWindow
<1>6. CASE Cleanup
  BY <1>1, <1>6 DEF Cleanup
<1>7. CASE Tick \/ UNCHANGED vars
  BY <1>3, <1>7 DEF Tick, vars
<1> QED BY <1>2, <1>4, <1>5, <1>6, <1>7 DEF Next

\* A client that waits for the refill of one token is let through.
THEOREM PatienceIsRewarded == Spec => PatientIsAllowed
<1> DEFINE Served == \A v \in Visitors :
                       (mu = v /\ mu' = None /\ admitted' = admitted) =>
                         asked - visitors[v].lastSeen < Cost
<1>1. Init => TypeOK /\ FilledForWaiting
  BY LimiterInit DEF Init, FilledForWaiting
<1>2. TypeOK /\ FilledForWaiting /\ [Next]_vars => TypeOK' /\ FilledForWaiting'
  BY LimiterType, WaitingStep
<1>3. ASSUME TypeOK, FilledForWaiting, [Next]_vars
      PROVE  Served
  <2> SUFFICES ASSUME NEW v \in Visitors, mu = v, mu' = None, admitted' = admitted
               PROVE  asked - visitors[v].lastSeen < Cost
    OBVIOUS
  <2>1. v # None
    BY RateLimiterAssumption
  <2>2. Decide(v)
    BY <1>3, <2>1 DEF Next, AllowNew, Refill, Decide, Cleanup, Tick, OpenWindow, vars
  <2>3. ~Count(v)
    BY <1>3 DEF Count, TypeOK
  <2>4. visitors[v].tokens < Cost
    BY <2>2, <2>3 DEF Decide
  <2>5. visitors[v] \in Visitor
    BY <2>1, <1>3 DEF TypeOK
  <2>6. visitors[v].tokens \in Nat /\ visitors[v].lastSeen \in Nat /\ asked \in Nat
    BY <1>3, <2>5, RateLimiterAssumption DEF Visitor, TypeOK
  <2> QED BY <1>3, <2>1, <2>4, <2>6, RateLimiterAssumption DEF FilledForWaiting
<1> QED BY <1>1, <1>2, <1>3, PTL DEF Spec, PatientIsAllowed
=============================================================================
