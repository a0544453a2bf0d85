----------------------------- MODULE TokenBucket -----------------------------
(***************************************************************************)
(* What a rate limiter promises: every visitor has a bucket that holds at  *)
(* most Burst units and is full at first; each tick adds at most one unit; *)
(* a request is let through only if it can take Cost units out.            *)
(***************************************************************************)
EXTENDS Integers

CONSTANTS Visitors, Cost, Burst

VARIABLES clock,     \* the time, in ticks
          level,     \* the units in each visitor's bucket
          opened,    \* when the window was opened in which requests are counted
          admitted   \* the requests let through since

bucketVars == <<clock, level, opened, admitted>>

Init ==
  /\ clock = 0
  /\ level    = [v \in Visitors |-> Burst]
  /\ opened   = [v \in Visitors |-> 0]
  /\ admitted = [v \in Visitors |-> 0]

Tick ==
  /\ clock' = clock + 1
  /\ level' \in [Visitors -> 0 .. Burst]
  /\ \A v \in Visitors : level'[v] \in {level[v], level[v] + 1}
  /\ UNCHANGED <<opened, admitted>>

Admit(v) ==
  /\ level[v] >= Cost
  /\ level'    = [level EXCEPT ![v] = @ - Cost]
  /\ admitted' = [admitted EXCEPT ![v] = @ + 1]
  /\ UNCHANGED <<clock, opened>>

\* Requests can be counted from any moment on.
OpenWindow(v) ==
  /\ opened'   = [opened EXCEPT ![v] = clock]
  /\ admitted' = [admitted EXCEPT ![v] = 0]
  /\ UNCHANGED <<clock, level>>

Next == Tick \/ \E v \in Visitors : Admit(v) \/ OpenWindow(v)

Spec == Init /\ [][Next]_bucketVars
=============================================================================
