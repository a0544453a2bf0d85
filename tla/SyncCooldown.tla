---------------------------- MODULE SyncCooldown ----------------------------
(***************************************************************************)
(* The cooldown of POST /api/users/:username/sync.  The handler compares   *)
(* the clock with the updated_at of the user row it has just read, and     *)
(* writes updated_at only as its last statement; logins and the collector  *)
(* write it too.  This module adds to SyncJobs the two history variables   *)
(* the promise is about, and lets them follow every step.  The SELECT of   *)
(* the row and the comparison are one step (SyncStart): a sync counts as   *)
(* let through when its row is read.                                       *)
(***************************************************************************)
EXTENDS SyncJobs

VARIABLES admitted,  \* when a sync of the user was last let through
          synced     \* when a sync of the user last completed

cooldownVars == <<vars, admitted, synced>>

\* This step lets a sync of u through.
Admits(u) == \E w \in Handlers : /\ kind[w] = "none" /\ kind'[w] = "sync"
                                 /\ user'[w] = u

\* This step is the last statement of a sync of u, which then answers 200.
Completes(u) == \E w \in Handlers : /\ kind[w] = "sync" /\ user[w] = u
                                    /\ Stamp(w)

CooldownInit ==
  /\ Init
  /\ admitted = [u \in Users |-> None]
  /\ synced   = [u \in Users |-> None]

CooldownNext ==
  /\ Next
  /\ admitted' = [u \in Users |-> IF Admits(u) THEN now ELSE admitted[u]]
  /\ synced'   = [u \in Users |-> IF Completes(u) THEN now ELSE synced[u]]

CooldownSpec == CooldownInit /\ [][CooldownNext]_cooldownVars

----------------------------------------------------------------------------
\* After a sync of a user has completed, whatever jobs ran since, the next
\* one that reads the row of the user is let through no earlier than Cooldown
\* later.
CooldownAfterSync ==
  [][\A u \in Users : (Admits(u) /\ synced[u] # None) =>
       now - synced[u] >= Cooldown]_cooldownVars

\* What the API table promises (README.md:43, "5분 쿨다운", a cooldown of
\* five minutes; handler/user.go:225, "sync available every 5 minutes"): two
\* syncs of a user are let through at least Cooldown apart.
SyncEveryCooldown ==
  [][\A u \in Users : (Admits(u) /\ admitted[u] # None) =>
       now - admitted[u] >= Cooldown]_cooldownVars
=============================================================================
