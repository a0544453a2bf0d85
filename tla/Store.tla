------------------------------- MODULE Store -------------------------------
(***************************************************************************)
(* The PostgreSQL tables of migrations/, and the SQL statements that the   *)
(* repository and ranking packages issue against them.                     *)
(*                                                                         *)
(* No code of the repository opens a transaction: every statement commits  *)
(* by itself, and other requests run between two statements of a handler.  *)
(* A statement that only carries values (INSERT .. VALUES .. ON CONFLICT,  *)
(* UPDATE .. WHERE id) is one atomic step here.  A statement that computes *)
(* what it writes from other tables (INSERT .. SELECT, DELETE .. IN        *)
(* (SELECT ..)) reads a snapshot when it starts and writes when it         *)
(* commits (READ COMMITTED); other statements may commit in between, so it *)
(* is modelled by an operator for what it reads and one for what it does.  *)
(*                                                                         *)
(* Data abstraction.  Everything GitHub says is represented by the version *)
(* of GitHub's data at the moment of the call: a natural number.  "stats"  *)
(* stands for the columns full_name .. watchers of a repository row.       *)
(***************************************************************************)
EXTENDS Naturals

CONSTANTS Users,   \* GitHub accounts: users.id
          Repos,   \* GitHub repositories: repositories.id
          Years,   \* the calendar years of a contribution history
          None     \* an absent row, an absent value

RepoRow == [owner : Users, stats : Nat, is_public : BOOLEAN]

ASSUME StoreAssumption ==
  /\ Years \subseteq Nat
  /\ Years # {}
  /\ \A S \in SUBSET Years : S # {} => \E y \in S : \A z \in S : z <= y
  /\ None \notin Nat \cup Users \cup Repos
  /\ None \notin RepoRow

VARIABLES users,           \* users.updated_at of each row (the token is always set)
          contributions,   \* contributions: one row per user and year
          streak_rankings, \* streak_rankings: the fetched years it was computed from
          repositories,    \* repositories
          user_rankings,   \* user_rankings: the inputs its totals were summed over
          repo_rankings    \* repo_rankings: the stats its score was computed from

tables == <<users, contributions, streak_rankings, repositories,
            user_rankings, repo_rankings>>

Maybe(S) == S \cup {None}

YearData == [Years -> Maybe(Nat)]
RepoData == [Repos -> Maybe(Nat)]
Totals   == [years : YearData, repos : RepoData]

NoYears == [y \in Years |-> None]
NoRepos == [r \in Repos |-> None]

(***************************************************************************)
(* The state migrations leave behind on a new database.                    *)
(***************************************************************************)
StoreInit ==
  /\ users           = [u \in Users |-> None]
  /\ contributions   = [u \in Users |-> NoYears]
  /\ streak_rankings = [u \in Users |-> None]
  /\ repositories    = [r \in Repos |-> None]
  /\ user_rankings   = [u \in Users |-> None]
  /\ repo_rankings   = NoRepos

----------------------------------------------------------------------------
(* What the computing statements read.                                     *)

Owned(r, u) == repositories[r] # None /\ repositories[r].owner = u

\* WHERE owner_id = $1 AND is_public = true
PublicOf(u) ==
  [r \in Repos |-> IF Owned(r, u) /\ repositories[r].is_public
                   THEN repositories[r].stats ELSE None]

\* SELECT id FROM repositories WHERE owner_id = $1 AND is_public = false
PrivateOf(u) == {r \in Repos : Owned(r, u) /\ ~repositories[r].is_public}

\* The SELECT of RecalculateUser: the sums over contributions and over the
\* user's public repositories.  An aggregate without GROUP BY yields one row
\* even when nothing matches, so the statement always has a row to write.
TotalsOf(u) == [years |-> contributions[u], repos |-> PublicOf(u)]

----------------------------------------------------------------------------
(* The statements, each with the tables it leaves alone.                   *)

UpsertUser(u, t) ==
  /\ users' = [users EXCEPT ![u] = t]
  /\ UNCHANGED <<contributions, streak_rankings, repositories,
                 user_rankings, repo_rankings>>

\* UPDATE users SET updated_at = NOW() WHERE id = $1: no row, no effect
UpdateSyncedAt(u, t) ==
  /\ users' = [users EXCEPT ![u] = IF @ = None THEN None ELSE t]
  /\ UNCHANGED <<contributions, streak_rankings, repositories,
                 user_rankings, repo_rankings>>

UpsertYear(u, y, v) ==
  /\ contributions' = [contributions EXCEPT ![u][y] = v]
  /\ UNCHANGED <<users, streak_rankings, repositories,
                 user_rankings, repo_rankings>>

UpsertStreak(u, days) ==
  /\ streak_rankings' = [streak_rankings EXCEPT ![u] = days]
  /\ UNCHANGED <<users, contributions, repositories,
                 user_rankings, repo_rankings>>

\* Faulty variants of UpsertRepo: the conflicting row is replaced, with the
\* column's default for is_public; its owner is overwritten.
ReplaceRepo(r, u, v) ==
  /\ repositories' = [repositories EXCEPT ![r] =
                       [owner |-> u, stats |-> v, is_public |-> FALSE]]
  /\ UNCHANGED <<users, contributions, streak_rankings,
                 user_rankings, repo_rankings>>

TakeOverRepo(r, u, v) ==
  /\ repositories' = [repositories EXCEPT ![r] =
       [owner |-> u, stats |-> v, is_public |-> @ # None /\ @.is_public]]
  /\ UNCHANGED <<users, contributions, streak_rankings,
                 user_rankings, repo_rankings>>

\* A new row is private (the column's default); ON CONFLICT (id) keeps
\* owner_id and is_public of the row that is there.
UpsertRepo(r, u, v) ==
  /\ repositories' = [repositories EXCEPT ![r] =
       IF @ = None THEN [owner |-> u, stats |-> v, is_public |-> FALSE]
                   ELSE [@ EXCEPT !.stats = v]]
  /\ UNCHANGED <<users, contributions, streak_rankings,
                 user_rankings, repo_rankings>>

TogglePublic(r, b) ==
  /\ repositories' = [repositories EXCEPT ![r] =
       IF @ = None THEN None ELSE [@ EXCEPT !.is_public = b]]
  /\ UNCHANGED <<users, contributions, streak_rankings,
                 user_rankings, repo_rankings>>

WriteUserRanking(u, read) ==
  /\ user_rankings' = [user_rankings EXCEPT ![u] = read]
  /\ UNCHANGED <<users, contributions, streak_rankings, repositories,
                 repo_rankings>>

DeleteRepoRankings(ids) ==
  /\ repo_rankings' = [r \in Repos |-> IF r \in ids THEN None
                                       ELSE repo_rankings[r]]
  /\ UNCHANGED <<users, contributions, streak_rankings, repositories,
                 user_rankings>>

\* Faulty variant of InsertRepoRankings: an UPDATE, which adds no row.
UpdateRepoRankings(read) ==
  /\ repo_rankings' = [r \in Repos |-> IF read[r] # None /\ repo_rankings[r] # None
                                       THEN read[r] ELSE repo_rankings[r]]
  /\ UNCHANGED <<users, contributions, streak_rankings, repositories,
                 user_rankings>>

InsertRepoRankings(read) ==
  /\ repo_rankings' = [r \in Repos |-> IF read[r] # None THEN read[r]
                                       ELSE repo_rankings[r]]
  /\ UNCHANGED <<users, contributions, streak_rankings, repositories,
                 user_rankings>>

----------------------------------------------------------------------------
\* The shape of the tables: the column types of migrations/.
StoreTypeOK ==
  /\ users           \in [Users -> Maybe(Nat)]
  /\ contributions   \in [Users -> YearData]
  /\ streak_rankings \in [Users -> Maybe(YearData)]
  /\ repositories    \in [Repos -> Maybe(RepoRow)]
  /\ user_rankings   \in [Users -> Maybe(Totals)]
  /\ repo_rankings   \in RepoData
============================================================================
