--------------------------- MODULE MCSyncHealing ---------------------------
(***************************************************************************)
(* SyncHealing on small instances.  A behaviour is about one of two cases, *)
(* chosen at its start: clients that only log in, while GitHub's data      *)
(* changes; or clients that make every request, while it rests.  (The two  *)
(* together are too many states.)  No symmetry: it is checked for a        *)
(* liveness property.                                                      *)
(***************************************************************************)
EXTENDS SyncHealing

VARIABLE clients   \* the requests the clients of this behaviour make

LoginsOnly == {"login"}

MCHealingInit == HealingInit /\ clients \in {LoginsOnly, Requests}

\* Neither case disables a step that Fairness is about.
MCHealingNext ==
  /\ HealingNext
  /\ \A w \in Handlers : kind'[w] \in clients \cup {"none"}
  /\ clients # LoginsOnly => UNCHANGED ghVersion
  /\ UNCHANGED clients

MCHealingSpec ==
  MCHealingInit /\ [][MCHealingNext]_<<healingVars, clients>> /\ Fairness
=============================================================================
