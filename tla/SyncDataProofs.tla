--------------------------- MODULE SyncDataProofs ---------------------------
(***************************************************************************)
(* What the jobs do to the tables the rankings are summed from, when a     *)
(* sync is let through, and why no statement meets a foreign key that      *)
(* refuses it, in every instance of SyncJobs.                              *)
(***************************************************************************)
EXTENDS SyncJobsProofs, SyncCooldown

----------------------------------------------------------------------------
(* Visibility.                                                             *)

\* A repository keeps its owner, and only a toggle by that owner changes
\* whether it is public.
LEMMA VisibilityStep ==
  ASSUME TypeOK, [Next]_vars, NEW r \in Repos, repositories[r] # None
  PROVE  /\ repositories'[r] # None
         /\ repositories'[r].owner = repositories[r].owner
         /\ repositories'[r].is_public # repositories[r].is_public =>
              \E w \in Workers : /\ kind[w] = "toggle" /\ pc[w] = "togglePublic"
                                 /\ work[w].repo = r
                                 /\ user[w] = repositories[r].owner
<1>1. repositories[r] \in RepoRow
  BY DEF TypeOK, StoreTypeOK, Maybe
<1>2. CASE repositories' = repositories
  BY <1>2
<1>3. ASSUME NEW w \in Workers, NEW q \in Repos, SaveRepo(w, q)
      PROVE  /\ repositories'[r] # None
             /\ repositories'[r].owner = repositories[r].owner
             /\ repositories'[r].is_public = repositories[r].is_public
  <2>1. repositories'[r] = IF r = q THEN [repositories[r] EXCEPT !.stats = work[w].repos[q]]
                           ELSE repositories[r]
    BY <1>3, NoneIsNothing DEF SaveRepo, UpsertRepo, TypeOK, StoreTypeOK
  <2>2. work[w].repos[q] \in Nat
    BY <1>3, NoneIsNothing DEF SaveRepo, TypeOK, LocalsOK, Work, RepoData, Maybe
  <2>3. repositories'[r] \in RepoRow
    BY <1>1, <2>1, <2>2 DEF RepoRow
  <2> QED
    BY <1>1, <2>1, <2>2, <2>3, NoneIsNothing DEF RepoRow
<1>4. ASSUME NEW w \in Workers, ToggleRepo(w)
      PROVE  /\ repositories'[r] # None
             /\ repositories'[r].owner = repositories[r].owner
             /\ repositories'[r].is_public # repositories[r].is_public =>
                  /\ kind[w] = "toggle" /\ pc[w] = "togglePublic"
                  /\ work[w].repo = r /\ user[w] = repositories[r].owner
  <2>1. work[w].is_public \in BOOLEAN
    BY DEF TypeOK, Work
  <2>2. kind[w] = "toggle" /\ pc[w] = "togglePublic" /\ Owned(work[w].repo, user[w])
    BY <1>4 DEF ToggleRepo, TypeOK, LocalsOK
  <2> QED
    BY <1>1, <1>4, <2>1, <2>2, NoneIsNothing
       DEF ToggleRepo, TogglePublic, TypeOK, StoreTypeOK, RepoRow, Owned
<1>5. \/ repositories' = repositories
      \/ \E w \in Workers, q \in Repos : SaveRepo(w, q)
      \/ \E w \in Workers : ToggleRepo(w)
  BY DEF Next, Loop, Proceed, Stumble, vars, tables, LoginStart, SyncStart, ToggleStart,
         CollectorTick, CollectStart, CollectSkip, CollectEnd, FetchYear, SaveYear,
         SaveStreak, FetchRepos, ReposSaved, RankUserRead, RankUserWrite, DeleteRead,
         DeleteWrite, RankReposRead, RankReposWrite, Stamp, Fail, PassOver, Crash, Tick,
         GitHubActivity, GitHubMove, UpsertUser, UpdateSyncedAt, UpsertYear, UpsertStreak,
         WriteUserRanking, DeleteRepoRankings, InsertRepoRankings
<1> QED
  BY <1>2, <1>3, <1>4, <1>5

\* No sync, login or collection, whatever it interleaves with, publishes or
\* hides a repository or hands it to another user: only its owner's toggle does.
THEOREM VisibilityIsKept == Spec => VisibilityIsTheOwners
<1>1. TypeOK /\ [Next]_vars =>
        [\A r \in Repos : repositories[r] # None =>
           /\ repositories'[r] # None
           /\ repositories'[r].owner = repositories[r].owner
           /\ repositories'[r].is_public # repositories[r].is_public =>
                \E w \in Workers : /\ kind[w] = "toggle" /\ pc[w] = "togglePublic"
                                   /\ work[w].repo = r
                                   /\ user[w] = repositories[r].owner]_vars
  BY VisibilityStep
<1> QED
  BY <1>1, TypeCorrect, PTL DEF Spec, VisibilityIsTheOwners

----------------------------------------------------------------------------
(* The cooldown.                                                           *)

\* The row of a user is stamped when a sync completes, and never goes back.
CooldownInv ==
  /\ TypeOK
  /\ synced \in [Users -> Maybe(Nat)]
  /\ \A u \in Users : synced[u] # None =>
       /\ synced[u] <= now
       /\ users[u] # None => synced[u] <= users[u]

\* Only the clock moves now, and a row gets no other time than now.  (So none
\* is removed.)
LEMMA UpdatedNow ==
  ASSUME TypeOK, [Next]_vars
  PROVE  /\ now' = now \/ (now' = now + 1 /\ users' = users)
         /\ \A u \in Users : users'[u] = users[u] \/ users'[u] = now
<1>1. CASE users' = users
  <2>1. now' = now \/ now' = now + 1
    BY DEF Next, Loop, Proceed, Stumble, vars, env, tables, LoginStart, SyncStart, ToggleStart,
         CollectorTick, CollectStart, CollectSkip, CollectEnd, FetchYear, SaveYear,
         SaveStreak, FetchRepos, SaveRepo, ReposSaved, ToggleRepo, RankUserRead, RankUserWrite,
         DeleteRead, DeleteWrite, RankReposRead, RankReposWrite, Stamp, Fail, PassOver, Crash,
         Tick, GitHubActivity, GitHubMove
  <2> QED
    BY <1>1, <2>1
<1>2. ASSUME NEW u \in Users, UpsertUser(u, now) \/ UpdateSyncedAt(u, now), now' = now
      PROVE  \A v \in Users : users'[v] = users[v] \/ users'[v] = now
  BY <1>2 DEF UpsertUser, UpdateSyncedAt, TypeOK, StoreTypeOK
<1>3. ASSUME NEW w \in Workers, Stamp(w)
      PROVE  user[w] \in Users /\ UpdateSyncedAt(user[w], now) /\ now' = now
  BY <1>3, BusyHasUser DEF Stamp, env
<1>4. CASE \E w \in Handlers, u \in Users : LoginStart(w, u)
  BY <1>2, <1>4 DEF LoginStart, env
<1>5. ASSUME NEW w \in Workers, Proceed(w) PROVE users' = users \/ Stamp(w)
  BY <1>5 DEF Proceed, tables, FetchYear, SaveYear, SaveStreak, FetchRepos, SaveRepo,
     ReposSaved, ToggleRepo, RankUserRead, RankUserWrite, DeleteRead, DeleteWrite,
     RankReposRead, RankReposWrite, UpsertYear, UpsertStreak, UpsertRepo, TogglePublic,
     WriteUserRanking, DeleteRepoRankings, InsertRepoRankings
<1>6. \/ users' = users
      \/ \E w \in Handlers, u \in Users : LoginStart(w, u)
      \/ \E w \in Workers : Proceed(w)
  BY DEF Next, Loop, Stumble, vars, tables, SyncStart, ToggleStart, CollectorTick,
     CollectStart, CollectSkip, CollectEnd, Fail, PassOver, Crash, Tick, GitHubActivity,
     GitHubMove
<1> QED
  BY <1>1, <1>2, <1>3, <1>4, <1>5, <1>6

\* A sync that completes stamps the row of its user, if there is one.
LEMMA CompletedNow ==
  ASSUME TypeOK, NEW u \in Users, Completes(u)
  PROVE  users'[u] \in {None, now} /\ now' = now
<1> PICK w \in Handlers : user[w] = u /\ Stamp(w)
  BY DEF Completes
<1> QED
  BY DEF Stamp, UpdateSyncedAt, env, TypeOK, StoreTypeOK

LEMMA CooldownStep ==
  ASSUME CooldownInv, [CooldownNext]_cooldownVars
  PROVE  CooldownInv'
<1>1. [Next]_vars
  BY DEF CooldownNext, cooldownVars
<1>2. TypeOK' /\ now \in Nat
  BY <1>1, TypeNext DEF CooldownInv, TypeOK
<1>3. CASE UNCHANGED cooldownVars
  BY <1>2, <1>3 DEF cooldownVars, vars, env, tables, CooldownInv
<1>4. CASE synced' = [u \in Users |-> IF Completes(u) THEN now ELSE synced[u]]
  <2>1. (synced \in [Users -> Maybe(Nat)])'
    BY <1>2, <1>4 DEF CooldownInv, Maybe
  <2>2. ASSUME NEW u \in Users, synced'[u] # None
        PROVE  synced'[u] <= now' /\ (users'[u] # None => synced'[u] <= users'[u])
    <3>1. CASE Completes(u)
      BY <1>2, <1>4, <3>1, CompletedNow DEF CooldownInv
    <3>2. CASE ~Completes(u)
      <4>1. synced'[u] = synced[u] /\ synced[u] \in Nat
        BY <1>4, <2>2, <3>2 DEF CooldownInv, Maybe
      <4>2. users'[u] # None => users'[u] \in Nat
        BY <1>2 DEF TypeOK, StoreTypeOK, Maybe
      <4> QED
        BY <1>1, <1>2, <2>2, <4>1, <4>2, UpdatedNow DEF CooldownInv
    <3> QED
      BY <3>1, <3>2
  <2> QED
    BY <1>2, <2>1, <2>2 DEF CooldownInv
<1> QED
  BY <1>3, <1>4 DEF CooldownNext

\* A step that lets a sync through is SyncStart.
LEMMA AdmittedByGuard ==
  ASSUME TypeOK, [Next]_vars, NEW u \in Users, Admits(u)
  PROVE  users[u] # None /\ now - users[u] >= Cooldown
<1> PICK h \in Handlers : kind[h] = "none" /\ kind'[h] = "sync" /\ user'[h] = u
  BY DEF Admits
<1>1. h \in Workers /\ Collector \in Workers
  BY DEF Workers
<1>2. ASSUME NEW w \in Workers, NEW k, NEW v, NEW l, NEW locals, Start(w, k, v, l, locals)
      PROVE  w = h /\ k = "sync" /\ v = u
  BY <1>1, <1>2 DEF Start, TypeOK
<1>3. ASSUME NEW w \in Workers, End(w) PROVE FALSE
  BY <1>1, <1>3 DEF End, TypeOK
<1>4. kind' # kind
  BY <1>1
<1>5. ~Crash
  BY <1>1 DEF Crash
<1>6. \/ \E w \in Handlers, v \in Users : LoginStart(w, v) \/ SyncStart(w, v)
      \/ \E w \in Handlers, r \in Repos, b \in BOOLEAN : ToggleStart(w, r, b)
      \/ \E v \in Users : CollectStart(v)
  BY <1>3, <1>4, <1>5
     DEF Next, Loop, Proceed, Stumble, vars, control, CollectorTick, CollectSkip, CollectEnd,
         FetchYear, SaveYear, SaveStreak, FetchRepos, SaveRepo, ReposSaved, ToggleRepo,
         RankUserRead, RankUserWrite, DeleteRead, DeleteWrite, RankReposRead, RankReposWrite,
         Stamp, Fail, PassOver, Tick, GitHubActivity, GitHubMove
<1>7. \E w \in Handlers : SyncStart(w, u)
  <2>1. \A w \in Handlers : w \in Workers
    BY DEF Workers
  <2>2. \A w \in Handlers, v \in Users : ~LoginStart(w, v)
    BY <1>2, <2>1 DEF LoginStart
  <2>3. \A w \in Handlers, r \in Repos, b \in BOOLEAN : ~ToggleStart(w, r, b)
    BY <1>2, <2>1 DEF ToggleStart
  <2>4. \A v \in Users : ~CollectStart(v)
    BY <1>1, <1>2 DEF CollectStart
  <2>5. \A w \in Handlers, v \in Users : SyncStart(w, v) => v = u
    BY <1>2, <2>1 DEF SyncStart
  <2> QED
    BY <1>6, <2>2, <2>3, <2>4, <2>5
<1> QED
  BY <1>7 DEF SyncStart

\* Whatever jobs, failures and crashes come between: after a sync of a user
\* has completed, none is let through before the cooldown has passed.
THEOREM CooldownIsKept == CooldownSpec => CooldownAfterSync
<1>1. CooldownInit => CooldownInv
  BY TypeInit DEF CooldownInit, CooldownInv, Maybe
<1>2. CooldownInv /\ [CooldownNext]_cooldownVars => CooldownInv'
  BY CooldownStep
<1>3. CooldownInv /\ [CooldownNext]_cooldownVars =>
        [\A u \in Users : (Admits(u) /\ synced[u] # None) =>
           now - synced[u] >= Cooldown]_cooldownVars
  <2> SUFFICES ASSUME CooldownInv, CooldownNext, NEW u \in Users, Admits(u), synced[u] # None
               PROVE  now - synced[u] >= Cooldown
    OBVIOUS
  <2>1. TypeOK /\ [Next]_vars
    BY DEF CooldownInv, CooldownNext
  <2>2. users[u] # None /\ now - users[u] >= Cooldown
    BY <2>1, AdmittedByGuard
  <2>3. now \in Nat /\ users[u] \in Nat /\ synced[u] \in Nat /\ Cooldown \in Nat
    BY <2>2, SyncJobsAssumption DEF CooldownInv, TypeOK, StoreTypeOK, Maybe
  <2> QED
    BY <2>2, <2>3 DEF CooldownInv
<1> QED
  BY <1>1, <1>2, <1>3, PTL DEF CooldownSpec, CooldownAfterSync

----------------------------------------------------------------------------
(* What a job has fetched, and what is stored.                             *)
(*                                                                         *)
(* Data comes from GitHub's current version, so what is fetched is no      *)
(* older than what is stored, and stays so until another job saves, which  *)
(* marks the worker (crossed).  That is why a save turns nothing back; and *)
(* that what a sync has saved is what it had fetched.                      *)

HasStats(r, v) == repositories[r] # None /\ repositories[r].stats = v

\* Nothing is newer than GitHub.
NothingNewer ==
  /\ \A u \in Users, y \in Years : contributions[u][y] # None => contributions[u][y] <= ghVersion
  /\ \A r \in Repos : repositories[r] # None => repositories[r].stats <= ghVersion
  /\ \A w \in Workers, y \in Years : work[w].fetched[y] # None => work[w].fetched[y] <= ghVersion
  /\ \A w \in Workers, r \in Repos : work[w].repos[r] # None => work[w].repos[r] <= ghVersion

\* What w has fetched is no older than what is stored.
Ahead(w) ==
  /\ \A y \in Years : user[w] # None /\ work[w].fetched[y] # None
       /\ contributions[user[w]][y] # None => contributions[user[w]][y] <= work[w].fetched[y]
  /\ \A r \in Repos : work[w].repos[r] # None /\ repositories[r] # None =>
       repositories[r].stats <= work[w].repos[r]

\* What a sync has still to fetch and to save, and what it has saved.
Saved(w) ==
  /\ pc[w] = "fetchYears" => Years \subseteq work[w].toFetch \cup work[w].toSave
  /\ pc[w] \in {"fetchRepos", "saveYears"} => work[w].toFetch = {}
  /\ pc[w] = "fetchRepos" => Years \subseteq work[w].toSave
  /\ pc[w] = "saveYears" =>
       \A y \in Years : y \in work[w].toSave \/ contributions[user[w]][y] = work[w].fetched[y]
  /\ pc[w] \in {"saveStreak", "saveRepos", "rankUser", "rankUserWrite"} =>
       \A y \in Years : contributions[user[w]][y] = work[w].fetched[y]
  /\ pc[w] \in {"saveRepos", "rankUser", "rankUserWrite"} =>
       streak_rankings[user[w]] = work[w].fetched
  /\ pc[w] \in {"saveYears", "saveStreak"} =>
       \A r \in Repos : work[w].repos[r] # None => r \in work[w].toUpsert
  /\ pc[w] = "saveRepos" =>
       \A r \in Repos : work[w].repos[r] # None =>
         r \in work[w].toUpsert \/ HasStats(r, work[w].repos[r])
  /\ pc[w] \in {"rankUser", "rankUserWrite"} =>
       \A r \in Repos : work[w].repos[r] # None => HasStats(r, work[w].repos[r])

Uncrossed(w) == w \notin crossed => Ahead(w) /\ (kind[w] = "sync" => Saved(w))

DataInv == TypeOK /\ NothingNewer /\ \A w \in Workers : Uncrossed(w)

LEMMA DataInit == Init => DataInv
<1> SUFFICES ASSUME Init PROVE DataInv
  OBVIOUS
<1>1. NothingNewer
  BY DEF Init, StoreInit, NothingNewer, NoWork, NoYears, NoRepos
<1>2. \A w \in Workers : Uncrossed(w)
  BY DEF Init, Uncrossed, Ahead, NoWork, NoYears, NoRepos
<1> QED
  BY <1>1, <1>2, TypeInit DEF DataInv

\* The shapes that the comparisons need.
LEMMA DataTypes ==
  ASSUME TypeOK
  PROVE  /\ ghVersion \in Nat /\ None \notin Nat
         /\ \A u \in Users, y \in Years : contributions[u][y] \in Maybe(Nat)
         /\ \A r \in Repos : repositories[r] # None => repositories[r].stats \in Nat
         /\ \A w \in Workers, y \in Years : work[w].fetched[y] \in Maybe(Nat)
         /\ \A w \in Workers, r \in Repos : work[w].repos[r] \in Maybe(Nat)
         /\ \A w \in Workers : user[w] # None => user[w] \in Users
<1>1. \A r \in Repos : repositories[r] # None => repositories[r] \in RepoRow
  BY DEF TypeOK, StoreTypeOK, Maybe
<1>2. \A w \in Workers : work[w] \in Work
  BY DEF TypeOK
<1> QED
  BY <1>1, <1>2, NoneIsNothing DEF TypeOK, StoreTypeOK, YearData, RepoData, RepoRow, Work, Maybe

----------------------------------------------------------------------------
(* What a step of one worker does to the others.                           *)

\* The others stand still, and what they compare with does not change, unless
\* they are marked.
Spares(w) ==
  \A x \in Workers \ {w} :
    /\ Still(x)
    /\ x \in crossed => x \in crossed'
    /\ x \notin crossed' =>
         /\ user[x] # None => /\ contributions'[user[x]] = contributions[user[x]]
                              /\ streak_rankings'[user[x]] = streak_rankings[user[x]]
         /\ \A r \in Repos : work[x].repos[r] # None =>
              /\ repositories'[r] = None <=> repositories[r] = None
              /\ repositories'[r] # None => repositories'[r].stats = repositories[r].stats

LEMMA OtherUncrossed ==
  ASSUME DataInv, NEW w \in Workers, Spares(w), NEW x \in Workers \ {w}
  PROVE  Uncrossed(x)'
<1> SUFFICES ASSUME x \notin crossed'
             PROVE  Ahead(x)' /\ (kind'[x] = "sync" => Saved(x)')
  BY DEF Uncrossed
<1>1. /\ pc'[x] = pc[x] /\ kind'[x] = kind[x] /\ user'[x] = user[x] /\ work'[x] = work[x]
      /\ x \notin crossed
      /\ user[x] # None => /\ contributions'[user[x]] = contributions[user[x]]
                           /\ streak_rankings'[user[x]] = streak_rankings[user[x]]
      /\ \A r \in Repos : work[x].repos[r] # None =>
           /\ repositories'[r] = None <=> repositories[r] = None
           /\ repositories'[r] # None => repositories'[r].stats = repositories[r].stats
  BY DEF Spares, Still
<1>2. Ahead(x) /\ (kind[x] = "sync" => Saved(x))
  BY <1>1 DEF DataInv, Uncrossed
<1>3. Ahead(x)'
  BY <1>1, <1>2 DEF Ahead
<1>4. ASSUME kind[x] = "sync" PROVE Saved(x)'
  <2>1. user[x] = None => pc[x] \in {"idle", "nextUser"}
    BY DEF DataInv, TypeOK, LocalsOK
  <2>2. \A r \in Repos : work[x].repos[r] # None /\ HasStats(r, work[x].repos[r])
          => HasStats(r, work[x].repos[r])'
    BY <1>1 DEF HasStats
  <2> QED
    BY <1>1, <1>2, <1>4, <2>1, <2>2 DEF Saved
<1> QED
  BY <1>1, <1>3, <1>4

\* What each action shows of its worker.
DataStays(w) == Spares(w) /\ NothingNewer' /\ Uncrossed(w)'

LEMMA DataStep ==
  ASSUME DataInv, TypeOK', NEW w \in Workers, DataStays(w)
  PROVE  DataInv'
BY OtherUncrossed DEF DataStays, DataInv

\* A step that changes no data and loses or keeps what its worker has fetched.
LEMMA NoDataStep ==
  ASSUME DataInv, NEW w \in Workers, Typed(w), ghVersion' = ghVersion,
         UNCHANGED <<contributions, streak_rankings>>,
         \A r \in Repos : /\ repositories'[r] = None <=> repositories[r] = None
                          /\ repositories'[r] # None =>
                               repositories'[r].stats = repositories[r].stats,
         \A x \in Workers \ {w} : x \in crossed => x \in crossed',
         \/ work'[w].fetched = NoYears /\ work'[w].repos = NoRepos
         \/ /\ work'[w].fetched = work[w].fetched /\ work'[w].repos = work[w].repos
            /\ user'[w] = user[w] /\ (w \in crossed => w \in crossed'),
         w \notin crossed' /\ kind'[w] = "sync" => Saved(w)'
  PROVE  DataStays(w)
<1>1. Spares(w)
  BY DEF Spares, Typed
<1>2. NothingNewer'
  <2>1. \A x \in Workers \ {w} : work'[x] = work[x]
    BY DEF Typed, Still
  <2> QED
    BY <2>1 DEF NothingNewer, DataInv, NoYears, NoRepos
<1>3. w \notin crossed' => Ahead(w)'
  <2>1. CASE work'[w].fetched = NoYears /\ work'[w].repos = NoRepos
    BY <2>1 DEF Ahead, NoYears, NoRepos
  <2>2. CASE /\ work'[w].fetched = work[w].fetched /\ work'[w].repos = work[w].repos
             /\ user'[w] = user[w] /\ (w \in crossed => w \in crossed')
    BY <2>2 DEF Ahead, DataInv, Uncrossed
  <2> QED
    BY <2>1, <2>2
<1> QED
  BY <1>1, <1>2, <1>3 DEF DataStays, Uncrossed

----------------------------------------------------------------------------
(* Steps that change no data.                                              *)

SameStats ==
  \A r \in Repos : /\ repositories'[r] = None <=> repositories[r] = None
                   /\ repositories'[r] # None => repositories'[r].stats = repositories[r].stats

LEMMA DataStarts ==
  ASSUME DataInv, NEW w \in Handlers,
         \/ \E u \in Users : LoginStart(w, u) \/ SyncStart(w, u)
         \/ \E r \in Repos, b \in BOOLEAN : ToggleStart(w, r, b)
  PROVE  DataStays(w)
<1>1. Typed(w) /\ w \in Workers /\ TypeOK
  BY TypeLoginStart, TypeSyncStart, TypeToggleStart DEF DataInv, Workers
<1>2. UNCHANGED <<contributions, streak_rankings, repositories, crossed, ghVersion>>
  BY DEF LoginStart, SyncStart, ToggleStart, UpsertUser, tables, flags, env
<1>3. /\ work'[w].fetched = NoYears /\ work'[w].repos = NoRepos
      /\ kind'[w] = "sync" => pc'[w] = "fetchYears" /\ work'[w].toFetch = Years
  <2>1. ASSUME NEW u \in Users, LoginStart(w, u) \/ SyncStart(w, u)
        PROVE  pc'[w] = "fetchYears" /\ work'[w] = FetchAllYears
    BY <1>1, <2>1 DEF LoginStart, SyncStart, Start, Goto, TypeOK
  <2>2. ASSUME NEW r \in Repos, NEW b \in BOOLEAN, ToggleStart(w, r, b)
        PROVE  kind'[w] = "toggle" /\ work'[w] = [NoWork EXCEPT !.repo = r, !.is_public = b]
    BY <1>1, <2>2 DEF ToggleStart, Start, TypeOK
  <2>3. /\ FetchAllYears.fetched = NoYears /\ FetchAllYears.repos = NoRepos
        /\ FetchAllYears.toFetch = Years
        /\ \A r \in Repos, b \in BOOLEAN :
             /\ [NoWork EXCEPT !.repo = r, !.is_public = b].fetched = NoYears
             /\ [NoWork EXCEPT !.repo = r, !.is_public = b].repos = NoRepos
    BY DEF FetchAllYears, NoWork
  <2> QED
    BY <2>1, <2>2, <2>3
<1>4. kind'[w] = "sync" => Saved(w)'
  BY <1>3 DEF Saved
<1> QED
  BY <1>1, <1>2, <1>3, <1>4, NoDataStep

LEMMA DataLoop ==
  ASSUME DataInv, Loop
  PROVE  DataStays(Collector)
<1>1. Typed(Collector) /\ Collector \in Workers /\ TypeOK
  BY TypeCollectorTick, TypeCollectStart, TypeCollectSkip, TypeCollectEnd DEF DataInv, Workers, Loop
<1>2. UNCHANGED <<contributions, streak_rankings, repositories, crossed, ghVersion>>
  BY DEF Loop, CollectorTick, CollectStart, CollectSkip, CollectEnd, tables, flags, env
<1>3. CASE CollectorTick \/ CollectEnd \/ \E u \in Users : CollectSkip(u)
  <2>1. work' = work /\ user' = user /\ pc'[Collector] \in {"nextUser", "idle"}
    BY <1>1, <1>3 DEF CollectorTick, CollectEnd, CollectSkip, IsNext, Goto, control, TypeOK
  <2>2. Saved(Collector)'
    BY <2>1 DEF Saved
  <2> QED
    BY <1>1, <1>2, <2>1, <2>2, NoDataStep
<1>4. CASE \E u \in Users : CollectStart(u)
  <2>1. /\ work'[Collector].fetched = NoYears /\ work'[Collector].repos = NoRepos
        /\ kind'[Collector] = "collect"
    BY <1>1, <1>4 DEF CollectStart, Start, FetchAllYears, NoWork, TypeOK
  <2> QED
    BY <1>1, <1>2, <2>1, NoDataStep
<1> QED
  BY <1>3, <1>4 DEF Loop

\* The end of a job.
LEMMA DataEnd ==
  ASSUME DataInv, NEW w \in Workers, Typed(w), ghVersion' = ghVersion, End(w),
         UNCHANGED <<contributions, streak_rankings, repositories>>
  PROVE  DataStays(w)
<1>1. /\ work'[w].fetched = NoYears /\ work'[w].repos = NoRepos
      /\ kind'[w] = "none"
      /\ \A x \in Workers \ {w} : x \in crossed => x \in crossed'
  BY DEF End, NoWork, DataInv, TypeOK
<1> QED
  BY <1>1, NoDataStep

LEMMA DataStumble ==
  ASSUME DataInv, NEW w \in Workers, Stumble(w)
  PROVE  DataStays(w)
<1>1. Typed(w) /\ TypeOK
  BY TypeFail, TypePassOver DEF DataInv, Stumble
<1>2. UNCHANGED <<contributions, streak_rankings, repositories, ghVersion>>
  BY DEF Stumble, Fail, PassOver, tables, env
<1>3. CASE Fail(w)
  BY <1>1, <1>2, <1>3, DataEnd DEF Fail
<1>4. CASE PassOver(w)
  <2>1. kind'[w] # "sync"
    BY <1>4 DEF PassOver, Ends
  <2>2. \A x \in Workers \ {w} : x \in crossed => x \in crossed'
    BY <1>4 DEF PassOver, flags
  <2>3. \/ work'[w].fetched = NoYears /\ work'[w].repos = NoRepos
        \/ /\ work'[w].fetched = work[w].fetched /\ work'[w].repos = work[w].repos
           /\ user'[w] = user[w] /\ (w \in crossed => w \in crossed')
    BY <1>1, <1>4 DEF PassOver, flags, NoWork, TypeOK, Work
  <2> QED
    BY <1>1, <1>2, <2>1, <2>2, <2>3, NoDataStep
<1> QED
  BY <1>3, <1>4 DEF Stumble

\* The recalculations; and the calls that only go on.
LEMMA DataRanks ==
  ASSUME DataInv, NEW w \in Workers,
         \/ RankUserRead(w) \/ RankUserWrite(w)
         \/ DeleteRead(w) \/ DeleteWrite(w) \/ RankReposRead(w)
  PROVE  DataStays(w)
<1>1. Typed(w) /\ TypeOK
  BY TypeRankUserRead, TypeRankUserWrite, TypeDeleteRead, TypeDeleteWrite, TypeRankReposRead
     DEF DataInv
<1>2. UNCHANGED <<contributions, streak_rankings, repositories, ghVersion>>
  BY DEF RankUserRead, RankUserWrite, DeleteRead, DeleteWrite, RankReposRead,
         WriteUserRanking, DeleteRepoRankings, tables, env
<1>3. CASE RankUserRead(w)
  <2>1. /\ work' = work /\ user' = user /\ kind' = kind /\ crossed' = crossed
        /\ pc[w] = "rankUser" /\ pc'[w] = "rankUserWrite"
    BY <1>1, <1>3 DEF RankUserRead, Goto, TypeOK
  <2>2. w \notin crossed' /\ kind'[w] = "sync" => Saved(w)'
    BY <1>2, <2>1 DEF DataInv, Uncrossed, Saved, HasStats
  <2> QED
    BY <1>1, <1>2, <2>1, <2>2, NoDataStep
<1>4. CASE RankUserWrite(w)
  <2>1. /\ work'[w].fetched = NoYears /\ work'[w].repos = NoRepos
        /\ pc'[w] = "delete"
        /\ \A x \in Workers \ {w} : x \in crossed => x \in crossed'
    BY <1>1, <1>4 DEF RankUserWrite, Goto, NoWork, TypeOK
  <2>2. Saved(w)'
    BY <2>1 DEF Saved
  <2> QED
    BY <1>1, <1>2, <2>1, <2>2, NoDataStep
<1>5. CASE DeleteRead(w) \/ DeleteWrite(w) \/ RankReposRead(w)
  <2>1. /\ work' = work /\ user' = user /\ crossed' = crossed
        /\ pc'[w] \in {"deleteWrite", "rankRepos", "rankReposWrite"}
    BY <1>1, <1>5 DEF DeleteRead, DeleteWrite, RankReposRead, Goto, TypeOK, flags
  <2>2. Saved(w)'
    BY <2>1 DEF Saved
  <2> QED
    BY <1>1, <1>2, <2>1, <2>2, NoDataStep
<1> QED
  BY <1>3, <1>4, <1>5

LEMMA DataLastCalls ==
  ASSUME DataInv, NEW w \in Workers, RankReposWrite(w) \/ Stamp(w)
  PROVE  DataStays(w)
<1>1. Typed(w) /\ TypeOK
  BY TypeRankReposWrite, TypeStamp DEF DataInv
<1>2. UNCHANGED <<contributions, streak_rankings, repositories, ghVersion>>
  BY DEF RankReposWrite, Stamp, InsertRepoRankings, UpdateSyncedAt, env
<1>3. CASE End(w)
  BY <1>1, <1>2, <1>3, DataEnd
<1>4. CASE Goto(w, "stamp") /\ UNCHANGED <<kind, user, work, listed, dirty, overlap, crossed>>
  <2>1. pc'[w] = "stamp"
    BY <1>1, <1>4 DEF Goto, TypeOK
  <2>2. Saved(w)'
    BY <2>1 DEF Saved
  <2> QED
    BY <1>1, <1>2, <1>4, <2>2, NoDataStep
<1> QED
  BY <1>3, <1>4 DEF RankReposWrite, Stamp

LEMMA DataReposSaved ==
  ASSUME DataInv, NEW w \in Workers, ReposSaved(w)
  PROVE  DataStays(w)
<1>1. Typed(w) /\ TypeOK
  BY TypeReposSaved DEF DataInv
<1>2. /\ UNCHANGED <<contributions, streak_rankings, repositories, ghVersion>>
      /\ work' = work /\ user' = user /\ kind' = kind /\ crossed' = crossed
      /\ pc[w] = "saveRepos" /\ pc'[w] = "rankUser" /\ work[w].toUpsert = {}
  BY <1>1 DEF ReposSaved, Goto, TypeOK, tables, env, flags
<1>3. w \notin crossed' /\ kind'[w] = "sync" => Saved(w)'
  BY <1>2 DEF DataInv, Uncrossed, Saved, HasStats
<1> QED
  BY <1>1, <1>2, <1>3, NoDataStep

\* A toggle changes no stats.
LEMMA DataToggleRepo ==
  ASSUME DataInv, NEW w \in Workers, ToggleRepo(w)
  PROVE  DataStays(w)
<1>1. Typed(w) /\ TypeOK /\ kind[w] = "toggle"
  BY TypeToggleRepo DEF DataInv, ToggleRepo, TypeOK, LocalsOK
<1>2. SameStats
  BY <1>1, NoneIsNothing
     DEF ToggleRepo, TogglePublic, TypeOK, StoreTypeOK, RepoRow, Maybe, Work, SameStats
<1>3. /\ UNCHANGED <<contributions, streak_rankings, ghVersion>>
      /\ work' = work /\ user' = user /\ kind' = kind /\ crossed' = crossed
  BY DEF ToggleRepo, TogglePublic, env
<1> QED
  BY <1>1, <1>2, <1>3, NoDataStep DEF SameStats

----------------------------------------------------------------------------
(* Fetching and saving.                                                    *)

\* Nothing gets newer than GitHub by saving or fetching.
LEMMA NewestStep ==
  ASSUME DataInv, NEW w \in Workers, ghVersion' = ghVersion,
         \A x \in Workers \ {w} : work'[x] = work[x],
         \A u \in Users, y \in Years :
           contributions'[u][y] \in {contributions[u][y], work[w].fetched[y]},
         \A r \in Repos : repositories'[r] # None =>
           \/ repositories[r] # None /\ repositories'[r].stats = repositories[r].stats
           \/ work[w].repos[r] # None /\ repositories'[r].stats = work[w].repos[r],
         \A y \in Years : work'[w].fetched[y] \in {work[w].fetched[y], ghVersion},
         \A r \in Repos : work'[w].repos[r] \in {work[w].repos[r], ghVersion, None}
  PROVE  NothingNewer'
<1>1. NothingNewer /\ ghVersion \in Nat
  BY DataTypes DEF DataInv
<1>2. \A u \in Users, y \in Years : contributions'[u][y] # None => contributions'[u][y] <= ghVersion
  BY <1>1 DEF NothingNewer
<1>3. \A r \in Repos : repositories'[r] # None => repositories'[r].stats <= ghVersion
  BY <1>1 DEF NothingNewer
<1>4. \A x \in Workers, y \in Years :
        work'[x].fetched[y] # None => work'[x].fetched[y] <= ghVersion
  <2> SUFFICES ASSUME NEW x \in Workers, NEW y \in Years, work'[x].fetched[y] # None
               PROVE  work'[x].fetched[y] <= ghVersion
    OBVIOUS
  <2>1. CASE x = w
    BY <1>1, <2>1 DEF NothingNewer
  <2>2. CASE x # w
    BY <1>1, <2>2 DEF NothingNewer
  <2> QED
    BY <2>1, <2>2
<1>5. \A x \in Workers, r \in Repos :
        work'[x].repos[r] # None => work'[x].repos[r] <= ghVersion
  <2> SUFFICES ASSUME NEW x \in Workers, NEW r \in Repos, work'[x].repos[r] # None
               PROVE  work'[x].repos[r] <= ghVersion
    OBVIOUS
  <2>1. CASE x = w
    BY <1>1, <2>1 DEF NothingNewer
  <2>2. CASE x # w
    BY <1>1, <2>2 DEF NothingNewer
  <2> QED
    BY <2>1, <2>2
<1> QED
  BY <1>2, <1>3, <1>4, <1>5 DEF NothingNewer

\* What is fetched now is as new as it can be.
LEMMA DataFetchYear ==
  ASSUME DataInv, NEW w \in Workers, FetchYear(w)
  PROVE  DataStays(w)
<1> USE DataTypes DEF DataInv
<1>1. Typed(w) /\ TypeOK
  BY TypeFetchYear
<1>2. work[w].toFetch \in SUBSET Years /\ work[w].toFetch # {}
  BY DEF FetchYear, TypeOK, LocalsOK, Work
<1> PICK y \in Years : y = Latest(work[w].toFetch) /\ y \in work[w].toFetch
  BY <1>2, LatestIn
<1>3. /\ UNCHANGED <<contributions, streak_rankings, repositories, crossed, ghVersion, kind, user>>
      /\ GetsYear(w, y) /\ pc[w] = "fetchYears"
      /\ kind[w] = "sync" => \/ pc'[w] = "fetchYears"
                             \/ pc'[w] = "fetchRepos" /\ work[w].toFetch \ {y} = {}
  BY <1>1 DEF FetchYear, GetsYear, Goto, TypeOK, tables, env, flags
<1>4. /\ work'[w].toFetch = work[w].toFetch \ {y}
      /\ work'[w].fetched = [work[w].fetched EXCEPT ![y] = ghVersion]
      /\ work'[w].toSave = work[w].toSave \cup {y}
      /\ work'[w].repos = work[w].repos
  BY <1>3, YearFetched
<1>5. /\ work'[w].fetched[y] = ghVersion
      /\ \A z \in Years \ {y} : work'[w].fetched[z] = work[w].fetched[z]
  BY <1>1, <1>4 DEF TypeOK, Work, YearData
<1>6. Spares(w)
  BY <1>1, <1>3 DEF Spares, Typed
<1>7. NothingNewer'
  <2>1. \A x \in Workers \ {w} : work'[x] = work[x]
    BY <1>1 DEF Typed, Still
  <2> QED
    BY <1>3, <1>4, <1>5, <2>1, NewestStep
<1>8. w \notin crossed' => Ahead(w)'
  BY <1>3, <1>4, <1>5 DEF Uncrossed, Ahead, NothingNewer
<1>9. w \notin crossed' /\ kind'[w] = "sync" => Saved(w)'
  BY <1>3, <1>4 DEF Uncrossed, Saved
<1> QED
  BY <1>6, <1>7, <1>8, <1>9 DEF DataStays, Uncrossed

\* A save of a year marks the rivals, and brings the row to what was fetched.
LEMMA DataSaveYear ==
  ASSUME DataInv, NEW w \in Workers, SaveYear(w)
  PROVE  DataStays(w)
<1> USE DataTypes DEF DataInv
<1>1. Typed(w) /\ TypeOK /\ user[w] \in Users
  BY TypeSaveYear, BusyHasUser DEF SaveYear
<1>2. work[w].toSave \in SUBSET Years /\ work[w].toSave # {}
  BY DEF SaveYear, TypeOK, LocalsOK, Work
<1> PICK y \in Years : y = Latest(work[w].toSave) /\ y \in work[w].toSave
  BY <1>2, LatestIn
<1> PICK u \in Users : u = user[w]
  BY <1>1
<1>3. /\ UNCHANGED <<streak_rankings, repositories, ghVersion, kind, user>>
      /\ contributions' = [contributions EXCEPT ![u][y] = work[w].fetched[y]]
      /\ work' = [work EXCEPT ![w].toSave = work[w].toSave \ {y}]
      /\ crossed' = crossed \cup Rivals(w) /\ pc[w] = "saveYears"
      /\ \/ pc'[w] = "saveYears"
         \/ pc'[w] = "fetchYears" /\ work[w].toFetch # {}
         \/ pc'[w] = "saveStreak" /\ work[w].toSave \ {y} = {}
  BY <1>1 DEF SaveYear, UpsertYear, Goto, TypeOK, env
<1>4. /\ work'[w].toSave = work[w].toSave \ {y}
      /\ work'[w].toFetch = work[w].toFetch /\ work'[w].fetched = work[w].fetched
      /\ work'[w].repos = work[w].repos /\ work'[w].toUpsert = work[w].toUpsert
  BY <1>3, YearSaved
<1>5. /\ contributions'[u][y] = work[w].fetched[y]
      /\ \A z \in Years \ {y} : contributions'[u][z] = contributions[u][z]
      /\ \A v \in Users \ {u} : contributions'[v] = contributions[v]
  BY <1>3 DEF TypeOK, StoreTypeOK, YearData
<1>6. Spares(w)
  BY <1>1, <1>3, <1>5 DEF Spares, Typed, Rivals
<1>7. NothingNewer'
  <2>1. \A x \in Workers \ {w} : work'[x] = work[x]
    BY <1>1 DEF Typed, Still
  <2>2. \A v \in Users, z \in Years :
          contributions'[v][z] \in {contributions[v][z], work[w].fetched[z]}
    BY <1>5
  <2> QED
    BY <1>3, <1>4, <2>1, <2>2, NewestStep
<1>8. w \notin crossed' => Ahead(w)'
  <2> SUFFICES ASSUME w \notin crossed' PROVE Ahead(w)'
    OBVIOUS
  <2>1. Ahead(w) /\ u # None
    BY <1>3, NoneIsNothing DEF Uncrossed
  <2>2. ASSUME NEW z \in Years, work[w].fetched[z] # None, contributions'[u][z] # None
        PROVE  contributions'[u][z] <= work[w].fetched[z]
    <3>1. CASE z = y
      <4>1. contributions'[u][z] = work[w].fetched[z]
        BY <1>5, <3>1
      <4>2. work[w].fetched[z] \in Nat
        BY <1>1, <2>2 DEF Maybe
      <4> QED
        BY <4>1, <4>2
    <3>2. CASE z # y
      BY <1>5, <2>1, <2>2, <3>2 DEF Ahead
    <3> QED
      BY <3>1, <3>2
  <2>3. \A r \in Repos : work[w].repos[r] # None /\ repositories[r] # None =>
          repositories[r].stats <= work[w].repos[r]
    BY <2>1 DEF Ahead
  <2>4. user'[w] = u /\ repositories' = repositories
    BY <1>3
  <2> QED
    BY <1>4, <2>2, <2>3, <2>4 DEF Ahead
<1>9. w \notin crossed' /\ kind'[w] = "sync" => Saved(w)'
  BY <1>3, <1>4, <1>5 DEF Uncrossed, Saved
<1> QED
  BY <1>6, <1>7, <1>8, <1>9 DEF DataStays, Uncrossed

LEMMA DataSaveStreak ==
  ASSUME DataInv, NEW w \in Workers, SaveStreak(w)
  PROVE  DataStays(w)
<1> USE DataTypes DEF DataInv
<1>1. Typed(w) /\ TypeOK /\ user[w] \in Users
  BY TypeSaveStreak, BusyHasUser DEF SaveStreak
<1>2. /\ UNCHANGED <<contributions, repositories, ghVersion, kind, user, work>>
      /\ streak_rankings' = [streak_rankings EXCEPT ![user[w]] = work[w].fetched]
      /\ crossed' = crossed \cup Rivals(w) /\ pc[w] = "saveStreak"
      /\ kind[w] = "sync" => pc'[w] = "saveRepos"
  BY <1>1 DEF SaveStreak, UpsertStreak, Goto, TypeOK, env
<1>3. /\ streak_rankings'[user[w]] = work[w].fetched
      /\ \A v \in Users : v # user[w] => streak_rankings'[v] = streak_rankings[v]
  BY <1>1, <1>2 DEF TypeOK, StoreTypeOK
<1>4. Spares(w)
  BY <1>1, <1>2, <1>3 DEF Spares, Typed, Rivals
<1>5. NothingNewer'
  BY <1>2 DEF NothingNewer
<1>6. w \notin crossed' => Ahead(w)'
  BY <1>2 DEF Uncrossed, Ahead
<1>7. w \notin crossed' /\ kind'[w] = "sync" => Saved(w)'
  BY <1>2, <1>3 DEF Uncrossed, Saved
<1> QED
  BY <1>4, <1>5, <1>6, <1>7 DEF DataStays, Uncrossed

LEMMA DataFetchRepos ==
  ASSUME DataInv, NEW w \in Workers, FetchRepos(w)
  PROVE  DataStays(w)
<1> USE DataTypes DEF DataInv
<1>1. Typed(w) /\ TypeOK
  BY TypeFetchRepos
<1> DEFINE Got(page) == [r \in Repos |-> IF r \in page THEN ghVersion ELSE None]
<1> PICK mine \in FirstPage(user[w]) :
        work' = [work EXCEPT ![w].repos = Got(mine), ![w].toUpsert = mine]
  BY DEF FetchRepos
<1> DEFINE got == Got(mine)
<1>2. /\ got \in RepoData /\ mine \in SUBSET Repos
      /\ \A r \in Repos : got[r] # None => got[r] = ghVersion /\ r \in mine
  BY DEF RepoData, Maybe, FirstPage
<1>3. /\ UNCHANGED <<contributions, streak_rankings, repositories, crossed, ghVersion, kind, user>>
      /\ GetsRepos(w, got, mine) /\ pc[w] = "fetchRepos"
      /\ kind[w] = "sync" => pc'[w] = "saveYears"
  BY <1>1 DEF FetchRepos, GetsRepos, Goto, TypeOK, tables, env, flags
<1> HIDE DEF Got, got
<1>4. /\ work'[w].repos = got /\ work'[w].toUpsert = mine
      /\ work'[w].toFetch = work[w].toFetch /\ work'[w].fetched = work[w].fetched
      /\ work'[w].toSave = work[w].toSave
  BY <1>2, <1>3, ReposFetched
<1>5. Spares(w)
  BY <1>1, <1>3 DEF Spares, Typed
<1>6. NothingNewer'
  <2>1. \A x \in Workers \ {w} : work'[x] = work[x]
    BY <1>1 DEF Typed, Still
  <2> QED
    BY <1>2, <1>3, <1>4, <2>1, NewestStep
<1>7. w \notin crossed' => Ahead(w)'
  BY <1>2, <1>3, <1>4 DEF Uncrossed, Ahead, NothingNewer
<1>8. w \notin crossed' /\ kind'[w] = "sync" => Saved(w)'
  BY <1>2, <1>3, <1>4 DEF Uncrossed, Saved
<1> QED
  BY <1>5, <1>6, <1>7, <1>8 DEF DataStays, Uncrossed

LEMMA DataSaveRepo ==
  ASSUME DataInv, NEW w \in Workers, NEW r \in Repos, SaveRepo(w, r)
  PROVE  DataStays(w)
<1> USE DataTypes DEF DataInv
<1>1. Typed(w) /\ TypeOK
  BY TypeSaveRepo
<1>2. /\ UNCHANGED <<contributions, streak_rankings, ghVersion, kind, user, pc>>
      /\ work' = [work EXCEPT ![w].toUpsert = @ \ {r}]
      /\ crossed' = crossed \cup Rivals(w)
                    \cup {x \in Workers \ {w} : work[x].repos[r] # None}
      /\ pc[w] = "saveRepos"
  BY DEF SaveRepo, UpsertRepo, env, control
<1>3. /\ work'[w].toUpsert = work[w].toUpsert \ {r}
      /\ work'[w].toFetch = work[w].toFetch /\ work'[w].fetched = work[w].fetched
      /\ work'[w].toSave = work[w].toSave /\ work'[w].repos = work[w].repos
  BY <1>2, RepoSaved
<1>4. /\ work[w].repos[r] \in Nat
      /\ repositories'[r] # None /\ repositories'[r].stats = work[w].repos[r]
      /\ \A q \in Repos \ {r} : repositories'[q] = repositories[q]
  BY RowSaved
<1>5. Spares(w)
  BY <1>1, <1>2, <1>4 DEF Spares, Typed
<1>6. NothingNewer'
  <2>1. \A x \in Workers \ {w} : work'[x] = work[x]
    BY <1>1 DEF Typed, Still
  <2>2. \A q \in Repos : repositories'[q] # None =>
          \/ repositories[q] # None /\ repositories'[q].stats = repositories[q].stats
          \/ work[w].repos[q] # None /\ repositories'[q].stats = work[w].repos[q]
    BY <1>4
  <2> QED
    BY <1>2, <1>3, <2>1, <2>2, NewestStep
<1>7. w \notin crossed' => Ahead(w)'
  BY <1>2, <1>3, <1>4 DEF Uncrossed, Ahead
<1>8. w \notin crossed' /\ kind'[w] = "sync" => Saved(w)'
  <2> SUFFICES ASSUME w \notin crossed', kind'[w] = "sync" PROVE Saved(w)'
    OBVIOUS
  <2>1. /\ pc' = pc /\ user' = user /\ pc[w] = "saveRepos"
        /\ contributions' = contributions /\ streak_rankings' = streak_rankings
    BY <1>2
  <2>2. Saved(w)
    BY <1>2 DEF Uncrossed
  <2>3. \A q \in Repos : work[w].repos[q] # None =>
          \/ q \in work[w].toUpsert \ {r}
          \/ repositories'[q] # None /\ repositories'[q].stats = work[w].repos[q]
    <3> SUFFICES ASSUME NEW q \in Repos, work[w].repos[q] # None, q \notin work[w].toUpsert \ {r}
                 PROVE  repositories'[q] # None /\ repositories'[q].stats = work[w].repos[q]
      OBVIOUS
    <3>1. CASE q = r
      BY <1>4, <3>1
    <3>2. CASE q # r
      BY <1>4, <2>1, <2>2, <3>2 DEF Saved, HasStats
    <3> QED
      BY <3>1, <3>2
  <2> QED
    BY <1>3, <2>1, <2>2, <2>3 DEF Saved, HasStats
<1> QED
  BY <1>5, <1>6, <1>7, <1>8 DEF DataStays, Uncrossed

----------------------------------------------------------------------------
(* The invariant.                                                          *)

LEMMA DataCrash ==
  ASSUME DataInv, Crash
  PROVE  DataInv'
<1>1. TypeOK'
  BY TypeCrash DEF DataInv
<1>2. /\ UNCHANGED <<contributions, repositories, ghVersion>>
      /\ \A w \in Workers : /\ work'[w].fetched = NoYears /\ work'[w].repos = NoRepos
                            /\ kind'[w] = "none"
  BY DEF Crash, tables, env, NoWork
<1>3. NothingNewer'
  BY <1>2 DEF DataInv, NothingNewer, NoYears, NoRepos
<1>4. \A w \in Workers : Uncrossed(w)'
  BY <1>2 DEF Uncrossed, Ahead, NoYears, NoRepos
<1> QED
  BY <1>1, <1>3, <1>4 DEF DataInv

LEMMA DataOutside ==
  ASSUME DataInv,
         \/ Tick \/ GitHubActivity
         \/ \E r \in Repos, o \in Owners : GitHubMove(r, o)
         \/ UNCHANGED vars
  PROVE  DataInv'
<1>1. TypeOK'
  BY TypeOutside DEF DataInv
<1>2. /\ UNCHANGED <<contributions, streak_rankings, repositories, pc, kind, user, work, crossed>>
      /\ ghVersion' = ghVersion \/ ghVersion' = ghVersion + 1
  BY DEF Tick, GitHubActivity, GitHubMove, vars, tables, control, flags, env
<1>3. NothingNewer'
  BY <1>2, DataTypes DEF DataInv, NothingNewer, Maybe
<1>4. \A w \in Workers : Uncrossed(w)'
  BY <1>2 DEF DataInv, Uncrossed, Ahead, Saved, HasStats
<1> QED
  BY <1>1, <1>3, <1>4 DEF DataInv

LEMMA DataNext ==
  ASSUME DataInv, [Next]_vars
  PROVE  DataInv'
<1>1. TypeOK'
  BY TypeNext DEF DataInv
<1>2. Handlers \subseteq Workers /\ Collector \in Workers
  BY DEF Workers
<1>3. CASE \/ \E w \in Handlers, u \in Users : LoginStart(w, u)
           \/ \E w \in Handlers, u \in Users : SyncStart(w, u)
           \/ \E w \in Handlers, r \in Repos, b \in BOOLEAN : ToggleStart(w, r, b)
  BY <1>1, <1>2, <1>3, DataStarts, DataStep
<1>4. CASE Loop
  BY <1>1, <1>2, <1>4, DataLoop, DataStep
<1>5. CASE \E w \in Workers : Stumble(w)
  BY <1>1, <1>5, DataStumble, DataStep
<1>6. ASSUME NEW w \in Workers, Proceed(w) PROVE DataInv'
  <2>1. CASE FetchYear(w) \/ SaveYear(w) \/ SaveStreak(w) \/ FetchRepos(w)
    BY <1>1, <2>1, DataFetchYear, DataSaveYear, DataSaveStreak, DataFetchRepos, DataStep
  <2>2. CASE \E r \in Repos : SaveRepo(w, r)
    BY <1>1, <2>2, DataSaveRepo, DataStep
  <2>3. CASE ReposSaved(w) \/ ToggleRepo(w)
    BY <1>1, <2>3, DataReposSaved, DataToggleRepo, DataStep
  <2>4. CASE \/ RankUserRead(w) \/ RankUserWrite(w)
             \/ DeleteRead(w) \/ DeleteWrite(w) \/ RankReposRead(w)
    BY <1>1, <2>4, DataRanks, DataStep
  <2>5. CASE RankReposWrite(w) \/ Stamp(w)
    BY <1>1, <2>5, DataLastCalls, DataStep
  <2> QED
    BY <1>6, <2>1, <2>2, <2>3, <2>4, <2>5 DEF Proceed
<1>7. CASE Crash
  BY <1>7, DataCrash
<1>8. CASE \/ Tick \/ GitHubActivity
           \/ \E r \in Repos, o \in Owners : GitHubMove(r, o)
           \/ UNCHANGED vars
  BY <1>8, DataOutside
<1> QED
  BY <1>3, <1>4, <1>5, <1>6, <1>7, <1>8 DEF Next

LEMMA DataCorrect == Spec => []DataInv
BY DataInit, DataNext, PTL DEF Spec

----------------------------------------------------------------------------
(* What follows.                                                           *)

LEMMA YearsGoBack ==
  ASSUME DataInv, [Next]_vars, NEW u \in Users, NEW y \in Years,
         Older(contributions'[u][y], contributions[u][y])
  PROVE  \E w \in crossed : user[w] = u /\ pc[w] = "saveYears"
<1> USE DataTypes DEF DataInv
<1>1. contributions'[u][y] # contributions[u][y]
  BY DEF Older, Maybe
<1> PICK w \in Workers : SaveYear(w)
  BY <1>1, YearsSavedBy
<1>2. pc[w] = "saveYears" /\ user[w] \in Users
  BY BusyHasUser DEF SaveYear
<1> PICK v \in Users : v = user[w]
  BY <1>2
<1> DEFINE z == Latest(work[w].toSave)
<1>3. contributions' = [contributions EXCEPT ![v][z] = work[w].fetched[z]]
  BY DEF SaveYear, UpsertYear
<1> HIDE DEF z
<1>4. u = v /\ y = z
  BY <1>1, <1>3 DEF TypeOK, StoreTypeOK, YearData
<1>5. contributions'[u][y] = work[w].fetched[y]
  BY <1>3, <1>4 DEF TypeOK, StoreTypeOK, YearData
<1>6. ~(contributions[u][y] <= work[w].fetched[y]) /\ work[w].fetched[y] # None
  BY <1>5 DEF Older, Maybe
<1>7. w \in crossed
  BY <1>2, <1>4, <1>6, NoneIsNothing DEF Uncrossed, Ahead, Older
<1> QED
  BY <1>2, <1>4, <1>7

LEMMA ReposGoBack ==
  ASSUME DataInv, [Next]_vars, NEW r \in Repos, repositories[r] # None,
         repositories'[r].stats < repositories[r].stats
  PROVE  \E w \in crossed : pc[w] = "saveRepos" /\ work[w].repos[r] # None
<1> USE DataTypes DEF DataInv
<1>1. repositories[r].stats \in Nat
  OBVIOUS
<1>2. repositories'[r].stats # repositories[r].stats
  BY <1>1
<1>3. ASSUME NEW w \in Workers, ToggleRepo(w) PROVE FALSE
  <2>1. repositories[r] \in RepoRow
    BY DEF TypeOK, StoreTypeOK, Maybe
  <2>2. repositories'[r].stats = repositories[r].stats
    BY <1>3, <2>1, NoneIsNothing DEF ToggleRepo, TogglePublic, TypeOK, StoreTypeOK, RepoRow
  <2> QED
    BY <1>2, <2>2
<1> PICK w \in Workers, q \in Repos : SaveRepo(w, q)
  BY <1>2, <1>3, ReposSavedBy
<1>4. /\ work[w].repos[q] \in Nat /\ repositories'[q].stats = work[w].repos[q]
      /\ \A p \in Repos \ {q} : repositories'[p] = repositories[p]
  BY RowSaved
<1>5. q = r
  BY <1>2, <1>4
<1>6. work[w].repos[r] # None /\ ~(repositories[r].stats <= work[w].repos[r])
  BY <1>1, <1>4, <1>5
<1>7. w \in crossed
  BY <1>6 DEF Uncrossed, Ahead
<1> QED
  BY <1>6, <1>7 DEF SaveRepo

\* Of any number of jobs, whatever fails between: stored data goes back to an
\* older state of GitHub only in a save of a job that another one crossed.
THEOREM NoDataGoesBack == Spec => NoRollback
<1>1. DataInv /\ [Next]_vars =>
        [/\ \A u \in Users, y \in Years :
              Older(contributions'[u][y], contributions[u][y]) =>
                \E w \in crossed : user[w] = u /\ pc[w] = "saveYears"
         /\ \A r \in Repos :
              (repositories[r] # None /\ repositories'[r].stats < repositories[r].stats)
                => \E w \in crossed : pc[w] = "saveRepos" /\ work[w].repos[r] # None]_vars
  BY YearsGoBack, ReposGoBack
<1> QED
  BY <1>1, DataCorrect, PTL DEF Spec, NoRollback

LEMMA SyncComplete ==
  ASSUME DataInv
  PROVE  SyncIsComplete
<1> SUFFICES ASSUME NEW w \in Workers, w \notin crossed, kind[w] = "sync",
                    pc[w] \in {"rankUser", "rankUserWrite"}
             PROVE  /\ contributions[user[w]] = work[w].fetched
                    /\ streak_rankings[user[w]] = work[w].fetched
                    /\ \A r \in Repos : work[w].repos[r] # None =>
                         repositories[r] # None /\ repositories[r].stats = work[w].repos[r]
  BY DEF SyncIsComplete
<1>1. Saved(w) /\ TypeOK
  BY DEF DataInv, Uncrossed
<1>2. user[w] \in Users
  BY <1>1, BusyHasUser
<1>3. contributions[user[w]] \in YearData /\ work[w].fetched \in YearData
  BY <1>1, <1>2 DEF TypeOK, StoreTypeOK, Work
<1>4. \A y \in Years : contributions[user[w]][y] = work[w].fetched[y]
  BY <1>1 DEF Saved
<1>5. contributions[user[w]] = work[w].fetched
  BY <1>3, <1>4 DEF YearData
<1> QED
  BY <1>1, <1>5 DEF Saved, HasStats

\* Whatever fails and whatever else runs: a sync that no other job crossed
\* recalculates the rankings only when all it fetched is stored.
THEOREM SyncsAreWhole == Spec => []SyncIsComplete
BY DataCorrect, SyncComplete, PTL

----------------------------------------------------------------------------
(* Foreign keys.                                                           *)
(*                                                                         *)
(* No row is ever removed, so a parent, once there, stays.  What has to be *)
(* shown is that a job has a registered user, that the collector's list    *)
(* names only such, and that the INSERT of a recalculation has read rows   *)
(* that are there: then every new row finds its parent.                    *)

\* The user of a job is registered, and so are those the collector will visit.
AllRegistered ==
  /\ \A w \in Workers : user[w] # None => users[user[w]] # None
  /\ \A u \in Users : listed[u] # None => users[u] # None

\* What a recalculation is about to insert are rows of repositories.
InsertsRows == \A w \in Workers : pc[w] = "rankReposWrite" =>
  \A r \in Repos : read[w][r] # None => repositories[r] # None

ParentsInv == TypeOK /\ RowsHaveParents /\ AllRegistered /\ InsertsRows

LEMMA ParentsInit == Init => ParentsInv
BY TypeInit DEF Init, StoreInit, ParentsInv, RowsHaveParents, AllRegistered, InsertsRows, NoRepos

\* A row of a user is never removed.
LEMMA UsersRemain ==
  ASSUME TypeOK, [Next]_vars, NEW u \in Users, users[u] # None
  PROVE  users'[u] # None
BY UpdatedNow, NoneIsNothing DEF TypeOK

\* A worker gets a user from a request it lets through, or from the list.
LEMMA UserGivenBy ==
  ASSUME TypeOK, [Next]_vars
  PROVE  \/ \A w \in Workers : user'[w] \in {user[w], None}
         \/ \E w \in Handlers, u \in Users : LoginStart(w, u) \/ SyncStart(w, u)
         \/ \E w \in Handlers, r \in Repos, b \in BOOLEAN : ToggleStart(w, r, b)
         \/ \E u \in Users : CollectStart(u)
<1>1. ASSUME NEW w \in Workers, End(w) PROVE \A x \in Workers : user'[x] \in {user[x], None}
  BY <1>1 DEF End, TypeOK
<1>2. ASSUME NEW w \in Workers, Proceed(w) PROVE user' = user \/ End(w)
  BY <1>2 DEF Proceed, control, FetchYear, SaveYear, SaveStreak, FetchRepos, SaveRepo,
     ReposSaved, ToggleRepo, RankUserRead, RankUserWrite, DeleteRead, DeleteWrite,
     RankReposRead, RankReposWrite, Stamp
<1>3. ASSUME NEW w \in Workers, Stumble(w) PROVE user' = user \/ End(w)
  BY <1>3 DEF Stumble, Fail, PassOver
<1>4. CASE Crash
  BY <1>4 DEF Crash
<1>5. CASE \/ CollectorTick \/ CollectEnd \/ Tick \/ GitHubActivity \/ UNCHANGED vars
           \/ \E u \in Users : CollectSkip(u)
           \/ \E r \in Repos, o \in Owners : GitHubMove(r, o)
  BY <1>5 DEF CollectorTick, CollectEnd, CollectSkip, Tick, GitHubActivity, GitHubMove,
              control, vars
<1> QED
  BY <1>1, <1>2, <1>3, <1>4, <1>5 DEF Next, Loop

LEMMA RegisteredStep ==
  ASSUME ParentsInv, [Next]_vars
  PROVE  \A w \in Workers : user'[w] # None => users'[user'[w]] # None
<1> SUFFICES ASSUME NEW w \in Workers, NEW v, v = user'[w], v # None
             PROVE  users'[v] # None
  OBVIOUS
<1> USE DEF ParentsInv
<1>1. TypeOK' /\ v \in Users
  BY TypeNext DEF TypeOK, Maybe
<1>2. CASE users[v] # None
  BY <1>1, <1>2, UsersRemain
<1>3. CASE v = user[w]
  BY <1>2, <1>3 DEF AllRegistered
<1>4. Handlers \subseteq Workers /\ Collector \in Workers
  BY DEF Workers
<1>5. ASSUME NEW h \in Workers, NEW k, NEW u, NEW l, NEW locals, Start(h, k, u, l, locals)
      PROVE  v = user[w] \/ v = u
  BY <1>5 DEF Start, TypeOK
<1>6. ASSUME NEW h \in Handlers, NEW u \in Users, LoginStart(h, u), v # user[w]
      PROVE  users'[v] # None
  <2>1. v = u /\ users' = [users EXCEPT ![u] = now]
    BY <1>4, <1>5, <1>6 DEF LoginStart, UpsertUser
  <2> QED
    BY <2>1, NoneIsNothing DEF TypeOK, StoreTypeOK
<1>7. ASSUME NEW h \in Handlers, NEW u \in Users, SyncStart(h, u), v # user[w]
      PROVE  users[v] # None
  BY <1>4, <1>5, <1>7 DEF SyncStart
<1>8. ASSUME NEW h \in Handlers, NEW r \in Repos, NEW b \in BOOLEAN, ToggleStart(h, r, b),
             v # user[w]
      PROVE  users[v] # None
  BY <1>4, <1>5, <1>8 DEF ToggleStart, RowsHaveParents
<1>9. ASSUME NEW u \in Users, CollectStart(u), v # user[w]
      PROVE  users[v] # None
  BY <1>4, <1>5, <1>9 DEF CollectStart, IsNext, AllRegistered
<1> QED
  BY <1>2, <1>3, <1>6, <1>7, <1>8, <1>9, UserGivenBy

\* The list is made of the rows there are.
LEMMA ListedStep ==
  ASSUME ParentsInv, [Next]_vars, NEW u \in Users, listed'[u] # None
  PROVE  users'[u] # None
<1> USE DEF ParentsInv
<1>1. CASE CollectorTick
  BY <1>1 DEF CollectorTick, tables
<1>2. ASSUME listed[u] # None PROVE users'[u] # None
  BY <1>2, UsersRemain DEF AllRegistered
<1>3. ASSUME NEW v \in Users, listed' = [listed EXCEPT ![v] = None] PROVE listed[u] # None
  BY <1>3 DEF TypeOK
<1>4. ASSUME NEW w \in Workers, Proceed(w) \/ Stumble(w) PROVE listed' = listed
  BY <1>4 DEF Proceed, Stumble, FetchYear, SaveYear, SaveStreak, FetchRepos, SaveRepo,
     ReposSaved, ToggleRepo, RankUserRead, RankUserWrite, DeleteRead, DeleteWrite,
     RankReposRead, RankReposWrite, Stamp, Fail, PassOver, End
<1>5. \/ listed' = listed \/ CollectorTick \/ listed' = [v \in Users |-> None]
      \/ \E v \in Users : listed' = [listed EXCEPT ![v] = None]
  BY <1>4 DEF Next, Loop, LoginStart, SyncStart, ToggleStart, CollectStart, CollectSkip,
     CollectEnd, Crash, Tick, GitHubActivity, GitHubMove, vars
<1> QED
  BY <1>1, <1>2, <1>3, <1>5

\* A statement of a job gives a row only to the job's user, who is registered.
LEMMA UserRowsStep ==
  ASSUME ParentsInv, [Next]_vars, NEW u \in Users, users'[u] = None
  PROVE  /\ contributions'[u] = NoYears
         /\ streak_rankings'[u] = None /\ user_rankings'[u] = None
<1> USE DEF ParentsInv
<1>1. users[u] = None
  BY UsersRemain
<1>2. contributions[u] = NoYears /\ streak_rankings[u] = None /\ user_rankings[u] = None
  BY <1>1 DEF RowsHaveParents
<1>3. \A w \in Workers : user[w] # u
  BY <1>1, NoneIsNothing DEF AllRegistered
<1>4. ASSUME NEW w \in Workers, SaveYear(w) PROVE contributions'[u] = contributions[u]
  BY <1>3, <1>4 DEF SaveYear, UpsertYear, TypeOK, StoreTypeOK
<1>5. ASSUME NEW w \in Workers, SaveStreak(w) PROVE streak_rankings'[u] = streak_rankings[u]
  BY <1>3, <1>5 DEF SaveStreak, UpsertStreak, TypeOK, StoreTypeOK
<1>6. ASSUME NEW w \in Workers, RankUserWrite(w) PROVE user_rankings'[u] = user_rankings[u]
  BY <1>3, <1>6 DEF RankUserWrite, WriteUserRanking, TypeOK, StoreTypeOK
<1> QED
  BY <1>2, <1>4, <1>5, <1>6, YearsSavedBy, StreaksSavedBy, UsersRankedBy

\* A repository is inserted for the user of the job, and keeps its owner.
LEMMA OwnersStep ==
  ASSUME ParentsInv, [Next]_vars, NEW r \in Repos, repositories'[r] # None
  PROVE  users'[repositories'[r].owner] # None
<1> USE DEF ParentsInv
<1>1. CASE repositories[r] # None
  <2>1. repositories'[r].owner = repositories[r].owner
    BY <1>1, VisibilityStep
  <2>2. repositories[r].owner \in Users /\ users[repositories[r].owner] # None
    BY <1>1 DEF RowsHaveParents, TypeOK, StoreTypeOK, Maybe, RepoRow
  <2> QED
    BY <2>1, <2>2, UsersRemain
<1>2. CASE repositories[r] = None
  <2>1. ASSUME NEW w \in Workers, ToggleRepo(w) PROVE repositories'[r] = None
    BY <1>2, <2>1 DEF ToggleRepo, TogglePublic, TypeOK, StoreTypeOK
  <2> PICK w \in Workers, q \in Repos : SaveRepo(w, q)
    BY <1>2, <2>1, ReposSavedBy
  <2>2. user[w] \in Users /\ users[user[w]] # None
    BY BusyHasUser, NoneIsNothing DEF SaveRepo, AllRegistered
  <2>3. repositories'[r].owner = user[w]
    BY <1>2 DEF SaveRepo, UpsertRepo, TypeOK, StoreTypeOK
  <2> QED
    BY <2>2, <2>3, UsersRemain
<1> QED
  BY <1>1, <1>2

\* A repository is ranked only by an INSERT that has read its row.
LEMMA RankedRowsStep ==
  ASSUME ParentsInv, [Next]_vars, NEW r \in Repos, repo_rankings'[r] # None
  PROVE  repositories'[r] # None
<1> USE DEF ParentsInv
<1>1. CASE repositories[r] # None
  BY <1>1, VisibilityStep
<1>2. CASE repositories[r] = None
  <2>1. repo_rankings[r] = None
    BY <1>2 DEF RowsHaveParents
  <2>2. ASSUME NEW w \in Workers, DeleteWrite(w) PROVE repo_rankings'[r] = None
    BY <2>1, <2>2 DEF DeleteWrite, DeleteRepoRankings
  <2>3. ASSUME NEW w \in Workers, RankReposWrite(w) PROVE repo_rankings'[r] = None
    <3>1. read[w][r] = None
      BY <1>2, <2>3 DEF RankReposWrite, InsertsRows
    <3> QED
      BY <2>1, <2>3, <3>1 DEF RankReposWrite, InsertRepoRankings
  <2> QED
    BY <2>1, <2>2, <2>3, ReposRankedBy
<1> QED
  BY <1>1, <1>2

\* What is to be inserted has just been read, or was to be inserted before.
LEMMA InsertReadBy ==
  ASSUME TypeOK, [Next]_vars, NEW x \in Workers, pc'[x] = "rankReposWrite"
  PROVE  \/ pc[x] = "rankReposWrite" /\ read'[x] = read[x]
         \/ RankReposRead(x)
<1>1. CASE Still(x)
  BY <1>1 DEF Still
<1>2. ASSUME NEW k, NEW u, NEW l \in {"fetchYears", "togglePublic"}, NEW locals,
             Start(x, k, u, l, locals)
      PROVE  FALSE
  BY <1>2 DEF Start, Goto, TypeOK
<1>3. ~End(x)
  BY DEF End, Goto, TypeOK
<1>4. ASSUME Proceed(x) PROVE RankReposRead(x)
  BY <1>3, <1>4 DEF Proceed, Goto, TypeOK, FetchYear, SaveYear, SaveStreak, FetchRepos,
     SaveRepo, ReposSaved, ToggleRepo, RankUserRead, RankUserWrite, DeleteRead,
     DeleteWrite, RankReposWrite, Stamp, control
<1>5. ~Stumble(x)
  BY <1>3 DEF Stumble, Fail, PassOver, Goto, TypeOK
<1>6. CASE Crash
  BY <1>6 DEF Crash
<1>7. /\ \A u \in Users : ~LoginStart(x, u) /\ ~SyncStart(x, u)
      /\ \A r \in Repos, b \in BOOLEAN : ~ToggleStart(x, r, b)
  BY <1>2 DEF LoginStart, SyncStart, ToggleStart
<1>8. ASSUME x = Collector
      PROVE  ~CollectorTick /\ ~CollectEnd /\ \A u \in Users : ~CollectStart(u)
  BY <1>2, <1>8 DEF CollectStart, CollectorTick, CollectEnd, Goto, TypeOK
<1> QED
  BY <1>1, <1>4, <1>5, <1>6, <1>7, <1>8, MovesOrNot DEF Moves

LEMMA InsertsStep ==
  ASSUME ParentsInv, [Next]_vars, NEW w \in Workers, pc'[w] = "rankReposWrite",
         NEW r \in Repos, read'[w][r] # None
  PROVE  repositories'[r] # None
<1> USE DEF ParentsInv
<1>1. CASE RankReposRead(w)
  BY <1>1 DEF RankReposRead, PublicOf, Owned, tables, TypeOK
<1>2. CASE pc[w] = "rankReposWrite" /\ read'[w] = read[w]
  BY <1>2, VisibilityStep DEF InsertsRows
<1> QED
  BY <1>1, <1>2, InsertReadBy

LEMMA ParentsNext ==
  ASSUME ParentsInv, [Next]_vars
  PROVE  ParentsInv'
<1>1. TypeOK'
  BY TypeNext DEF ParentsInv
<1>2. AllRegistered'
  BY RegisteredStep, ListedStep DEF AllRegistered
<1>3. RowsHaveParents'
  BY UserRowsStep, OwnersStep, RankedRowsStep DEF RowsHaveParents
<1>4. InsertsRows'
  BY InsertsStep DEF InsertsRows
<1> QED
  BY <1>1, <1>2, <1>3, <1>4 DEF ParentsInv

\* Whatever fails and whatever interleaves, no statement of any job asks the
\* database for a row whose parent is missing.
THEOREM ForeignKeysHold == Spec => []RowsHaveParents
<1>1. ParentsInv => RowsHaveParents
  BY DEF ParentsInv
<1> QED
  BY <1>1, ParentsInit, ParentsNext, PTL DEF Spec
=============================================================================
