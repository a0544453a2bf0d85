---------------------------- MODULE MCIdentities ----------------------------
(***************************************************************************)
(* Identities on small instances.  No symmetry: it is checked for liveness *)
(* properties.                                                             *)
(***************************************************************************)
EXTENDS Identities

CONSTANTS u1, u2, r1, r2, a, b, n, m

\* Which account begins with which login makes no difference.
FirstLogins == [u \in Users |-> IF u = u1 THEN a ELSE b]

NoRepos == [r \in Repos |-> None]
OneRepo == [NoRepos EXCEPT ![r1] = <<u1, n>>]
TwoRepos == [OneRepo EXCEPT ![r2] = <<u1, m>>]

World(places, k, l) == [repos |-> places, renames |-> k, moves |-> l]

\* Renames enough for two accounts to swap their logins; a repository that is
\* moved while its owner is renamed; one whose name passes to another; an
\* account with more of them than a page holds, until one moves.
Mixed == {World(NoRepos, 3, 0), World(OneRepo, 1, 1), World(OneRepo, 0, 2),
          World(TwoRepos, 0, 1)}

\* The third of these alone.
Moved == {World(OneRepo, 0, 2)}

\* Bound: repositories take the name n only.  (No fairness is about GitHub.)
MCNext ==
  /\ Next
  /\ \A r \in Repos : ghRepo'[r] \in {ghRepo[r], None} \/ ghRepo'[r][2] = n

MCSpec == Init /\ [][MCNext]_vars /\ Fairness
=============================================================================
