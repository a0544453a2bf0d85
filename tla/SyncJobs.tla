------------------------------ MODULE SyncJobs ------------------------------
(***************************************************************************)
(* The jobs that bring GitHub's data into the store and keep the rankings  *)
(* in step with it:                                                        *)
(*                                                                         *)
(*   login    AuthHandler.Login            POST  /api/auth/login           *)
(*   sync     UserHandler.Sync             POST  /api/users/:username/sync *)
(*   toggle   RepoHandler.ToggleVisibility PATCH /api/repos/../visibility  *)
(*   collect  Collector.collect            every six hours, in background  *)
(*                                                                         *)
(* Every request runs in a goroutine of its own and the collector in one   *)
(* more; nothing excludes two jobs of the same user.  A job is a sequence  *)
(* of GitHub calls and SQL statements, one step each (two for a computing  *)
(* statement, see Store), so jobs interleave between any two of them.  Any *)
(* call may fail, and the four jobs differ in which failures end them and  *)
(* which they log and pass over.  The process may crash at any point: the  *)
(* tables survive, the jobs do not.                                        *)
(***************************************************************************)
EXTENDS Store, FiniteSets

CONSTANTS Owners,      \* what GitHub may name as a repository's owner: Users or None
          Handlers,    \* request goroutines that can be in flight together
          Collector,   \* the background goroutine
          Requests,    \* the kinds of request clients make: "login", "sync", "toggle"
          PageSize,    \* repositories in an answer of GitHub: 100
          Faults,      \* what may go wrong: "error", "crash"
          Cooldown,    \* minutes between an update of the user row and a sync
          MaxNow,      \* bound on the clock (minutes)
          MaxVersion   \* bound on the changes of GitHub's data

Workers == Handlers \cup {Collector}

ASSUME SyncJobsAssumption ==
  /\ Owners \subseteq Maybe(Users)
  /\ Collector \notin Handlers
  /\ PageSize \in Nat \ {0}
  /\ Cooldown \in Nat /\ MaxNow \in Nat /\ MaxVersion \in Nat

VARIABLES
  now,         \* the clock, in minutes
  ghVersion,   \* version of the data GitHub answers with
  ghOwner,     \* the account each repository belongs to on GitHub, if any
  pc,          \* the call a worker is about to make
  kind,        \* which job it runs
  user,        \* for which user
  work,        \* its local variables
  read,        \* what its computing statement in flight has read
  listed,      \* the collector's list: updated_at of the users still to visit
  \* History variables: they record what happened and guard nothing.
  dirty,       \* workers that owe a RecalculateUser: they changed its sources or began one
  dirtyRepos,  \* the same for RecalculateUserRepos
  overlap,     \* workers whose RecalculateUser ran alongside another of the same user
  overlapRepos,\* the same for RecalculateUserRepos
  crossed,     \* workers whose user had data saved by another job since they started
  owed,        \* users for whom a RecalculateUser was lost or may have been outdated
  owedRepos    \* the same for RecalculateUserRepos

env     == <<now, ghVersion, ghOwner>>
control == <<pc, kind, user>>
flags   == <<dirty, dirtyRepos, overlap, overlapRepos, crossed>>
debts   == <<owed, owedRepos>>
vars    == <<tables, env, control, work, read, listed, flags, debts>>

Work == [toFetch : SUBSET Years, fetched : YearData, toSave : SUBSET Years,
         repos : RepoData, toUpsert : SUBSET Repos,
         repo : Maybe(Repos), is_public : BOOLEAN]

NoWork == [toFetch |-> {}, fetched |-> NoYears, toSave |-> {},
           repos |-> NoRepos, toUpsert |-> {},
           repo |-> None, is_public |-> FALSE]

\* The part of RecalculateUserRepos between its first read and its last write.
RepoWindow == {"deleteWrite", "rankRepos", "rankReposWrite"}

Labels == {"idle", "nextUser", "fetchYears", "saveYears", "saveStreak",
           "fetchRepos", "saveRepos", "togglePublic", "rankUser",
           "rankUserWrite", "delete", "stamp"} \cup RepoWindow

Latest(S) == CHOOSE y \in S : \A z \in S : z <= y

Init ==
  /\ StoreInit
  /\ now = 0 /\ ghVersion = 0
  /\ ghOwner \in [Repos -> Owners]
  /\ pc     = [w \in Workers |-> "idle"]
  /\ kind   = [w \in Workers |-> "none"]
  /\ user   = [w \in Workers |-> None]
  /\ work   = [w \in Workers |-> NoWork]
  /\ read   = [w \in Workers |-> None]
  /\ listed = [u \in Users |-> None]
  /\ dirty = {} /\ dirtyRepos = {} /\ overlap = {} /\ overlapRepos = {}
  /\ crossed = {} /\ owed = {} /\ owedRepos = {}

----------------------------------------------------------------------------
(* Helpers.                                                                *)

Goto(w, label) == pc' = [pc EXCEPT ![w] = label]

\* The other workers running a job for the user of w.
Rivals(w) == {x \in Workers \ {w} : user[x] = user[w]}

\* A job for user u enters its first call.
Start(w, k, u, label, locals) ==
  /\ Goto(w, label)
  /\ kind' = [kind EXCEPT ![w] = k]
  /\ user' = [user EXCEPT ![w] = u]
  /\ work' = [work EXCEPT ![w] = locals]

\* Faulty variant of FetchAllYears: the loop over the years is empty.
FetchNoYear == NoWork

FetchAllYears == [NoWork EXCEPT !.toFetch = Years]

\* The job of w is over: its goroutine ends, or the collector's loop goes on.
End(w) ==
  /\ Goto(w, IF w = Collector THEN "nextUser" ELSE "idle")
  /\ kind' = [kind EXCEPT ![w] = "none"]
  /\ user' = [user EXCEPT ![w] = None]
  /\ work' = [work EXCEPT ![w] = NoWork]
  /\ read' = [read EXCEPT ![w] = None]
  /\ dirty' = dirty \ {w}
  /\ dirtyRepos' = dirtyRepos \ {w}
  /\ overlap' = overlap \ {w}
  /\ overlapRepos' = overlapRepos \ {w}
  /\ crossed' = crossed \ {w}
  /\ UNCHANGED listed

----------------------------------------------------------------------------
(* How jobs start.                                                         *)

\* Faulty variant of LoginStart: the row of a new user is left to the end of
\* the collection.
LoginStartUnstored(w, u) ==
  /\ "login" \in Requests
  /\ w \in Handlers /\ pc[w] = "idle"
  /\ Start(w, "login", u, "fetchYears", FetchAllYears)
  /\ UNCHANGED <<tables, env, read, listed, flags, debts>>

\* Login: exchange the code, ask GitHub who it is, upsert the user row.  (An
\* error up to here changes nothing.)  The row's updated_at becomes now.
LoginStart(w, u) ==
  /\ "login" \in Requests
  /\ w \in Handlers /\ pc[w] = "idle"
  /\ UpsertUser(u, now)
  /\ Start(w, "login", u, "fetchYears", FetchAllYears)
  /\ UNCHANGED <<env, read, listed, flags, debts>>

\* Sync: the user's row exists and has not been updated for five minutes.
SyncStart(w, u) ==
  /\ "sync" \in Requests
  /\ w \in Handlers /\ pc[w] = "idle"
  /\ users[u] # None
  /\ now - users[u] >= Cooldown
  /\ Start(w, "sync", u, "fetchYears", FetchAllYears)
  /\ UNCHANGED <<tables, env, read, listed, flags, debts>>

\* Faulty variant of ToggleStart: the caller need not be the owner.
ToggleStartByAnyone(w, r, b) ==
  /\ "toggle" \in Requests
  /\ w \in Handlers /\ pc[w] = "idle"
  /\ repositories[r] # None
  /\ \E u \in Users : /\ users[u] # None
                     /\ Start(w, "toggle", u, "togglePublic",
                              [NoWork EXCEPT !.repo = r, !.is_public = b])
  /\ UNCHANGED <<tables, env, read, listed, flags, debts>>

\* ToggleVisibility: the repository exists and belongs to the caller.
ToggleStart(w, r, b) ==
  /\ "toggle" \in Requests
  /\ w \in Handlers /\ pc[w] = "idle"
  /\ repositories[r] # None
  /\ Start(w, "toggle", repositories[r].owner, "togglePublic",
           [NoWork EXCEPT !.repo = r, !.is_public = b])
  /\ UNCHANGED <<tables, env, read, listed, flags, debts>>

\* Faulty variant of CollectorTick: WHERE access_token IS NULL.
CollectorTickNobody ==
  /\ pc[Collector] = "idle"
  /\ listed' = [u \in Users |-> None]
  /\ Goto(Collector, "nextUser")
  /\ UNCHANGED <<tables, env, kind, user, work, read, flags, debts>>

\* The ticker fires and the loop lists the users with a token.
CollectorTick ==
  /\ pc[Collector] = "idle"
  /\ listed' = users
  /\ Goto(Collector, "nextUser")
  /\ UNCHANGED <<tables, env, kind, user, work, read, flags, debts>>

\* The head of the list: ORDER BY updated_at ASC, as it was when listed.
IsNext(u) ==
  /\ pc[Collector] = "nextUser"
  /\ listed[u] # None
  /\ \A v \in Users : listed[v] # None => listed[u] <= listed[v]

CollectStart(u) ==
  /\ IsNext(u)
  /\ listed' = [listed EXCEPT ![u] = None]
  /\ Start(Collector, "collect", u, "fetchYears", FetchAllYears)
  /\ UNCHANGED <<tables, env, read, flags, debts>>

\* The stored token cannot be decrypted: the loop continues with the next user.
CollectSkip(u) ==
  /\ "error" \in Faults
  /\ IsNext(u)
  /\ listed' = [listed EXCEPT ![u] = None]
  /\ UNCHANGED <<tables, env, control, work, read, flags, debts>>

CollectEnd ==
  /\ pc[Collector] = "nextUser"
  /\ \A u \in Users : listed[u] = None
  /\ Goto(Collector, "idle")
  /\ UNCHANGED <<tables, env, kind, user, work, read, listed, flags, debts>>

----------------------------------------------------------------------------
(* Fetching from GitHub and saving what came back.                         *)

\* GetContributionsByYear, newest year first.  Login saves each year before
\* it asks for the next; sync and the collector fetch all years first.
FetchYear(w) ==
  LET y    == Latest(work[w].toFetch)
      rest == work[w].toFetch \ {y} IN
  /\ pc[w] = "fetchYears"
  /\ work' = [work EXCEPT ![w].toFetch = rest,
                          ![w].fetched[y] = ghVersion,
                          ![w].toSave = @ \cup {y}]
  /\ \/ kind[w] = "login" /\ Goto(w, "saveYears")
     \/ kind[w] # "login" /\ rest # {} /\ Goto(w, "fetchYears")
     \/ kind[w] = "sync" /\ rest = {} /\ Goto(w, "fetchRepos")
     \/ kind[w] = "collect" /\ rest = {} /\ Goto(w, "saveYears")
  /\ UNCHANGED <<tables, env, kind, user, read, listed, flags, debts>>

\* One statement of ContributionRepository.UpsertMany.
SaveYear(w) ==
  LET y    == Latest(work[w].toSave)
      rest == work[w].toSave \ {y} IN
  /\ pc[w] = "saveYears"
  /\ UpsertYear(user[w], y, work[w].fetched[y])
  /\ work' = [work EXCEPT ![w].toSave = rest]
  /\ \/ rest # {} /\ Goto(w, "saveYears")
     \/ rest = {} /\ work[w].toFetch # {} /\ Goto(w, "fetchYears")
     \/ rest = {} /\ work[w].toFetch = {} /\ Goto(w, "saveStreak")
  /\ dirty' = dirty \cup {w}
  /\ crossed' = crossed \cup Rivals(w)
  /\ UNCHANGED <<env, kind, user, read, listed, dirtyRepos, overlap,
                 overlapRepos, debts>>

\* Faulty variant of SaveStreak: the repositories are forgotten.
SaveStreakOnly(w) ==
  /\ pc[w] = "saveStreak"
  /\ UpsertStreak(user[w], work[w].fetched)
  /\ Goto(w, "rankUser")
  /\ crossed' = crossed \cup Rivals(w)
  /\ UNCHANGED <<env, kind, user, work, read, listed, dirty, dirtyRepos,
                 overlap, overlapRepos, debts>>

\* StreakRepository.Upsert of the streaks of the days just fetched.
SaveStreak(w) ==
  /\ pc[w] = "saveStreak"
  /\ UpsertStreak(user[w], work[w].fetched)
  /\ Goto(w, IF kind[w] = "sync" THEN "saveRepos" ELSE "fetchRepos")
  /\ crossed' = crossed \cup Rivals(w)
  /\ UNCHANGED <<env, kind, user, work, read, listed, dirty, dirtyRepos,
                 overlap, overlapRepos, debts>>

\* The repositories the account owns on GitHub now; of more than a page holds,
\* those with the most stars, which can be any.
FirstPage(u) ==
  LET owned == {r \in Repos : ghOwner[r] = u} IN
  {S \in SUBSET owned : \/ Cardinality(S) = PageSize
                        \/ S = owned /\ Cardinality(S) < PageSize}

\* Faulty variant of FetchRepos: the collector is given a cached, old answer.
FetchCachedRepos(w) ==
  /\ pc[w] = "fetchRepos"
  /\ \E page \in FirstPage(user[w]) :
       work' = [work EXCEPT
         ![w].repos = [r \in Repos |-> IF r \notin page THEN None
                                     ELSE IF w = Collector THEN 0 ELSE ghVersion],
         ![w].toUpsert = page]
  /\ Goto(w, IF kind[w] = "sync" THEN "saveYears" ELSE "saveRepos")
  /\ UNCHANGED <<tables, env, kind, user, read, listed, flags, debts>>

\* GetRepositories.  Those that are not in the answer are not touched.
FetchRepos(w) ==
  /\ pc[w] = "fetchRepos"
  /\ \E page \in FirstPage(user[w]) :
       work' = [work EXCEPT
         ![w].repos = [r \in Repos |-> IF r \in page THEN ghVersion ELSE None],
         ![w].toUpsert = page]
  /\ Goto(w, IF kind[w] = "sync" THEN "saveYears" ELSE "saveRepos")
  /\ UNCHANGED <<tables, env, kind, user, read, listed, flags, debts>>

\* One statement of RepoRepository.UpsertMany.  A row inserted for another
\* user keeps its owner, so that owner's rankings lose touch with it.
SaveRepo(w, r) ==
  LET others == IF repositories[r] = None THEN {}
                ELSE {repositories[r].owner} \ {user[w]} IN
  /\ pc[w] = "saveRepos" /\ r \in work[w].toUpsert
  /\ UpsertRepo(r, user[w], work[w].repos[r])
  /\ work' = [work EXCEPT ![w].toUpsert = @ \ {r}]
  /\ dirty' = dirty \cup {w}
  /\ dirtyRepos' = dirtyRepos \cup {w}
  /\ crossed' = crossed \cup Rivals(w)
                \cup {x \in Workers \ {w} : work[x].repos[r] # None}
  /\ owed' = owed \cup others
  /\ owedRepos' = owedRepos \cup others
  /\ UNCHANGED <<env, control, read, listed, overlap, overlapRepos>>

ReposSaved(w) ==
  /\ pc[w] = "saveRepos" /\ work[w].toUpsert = {}
  /\ Goto(w, "rankUser")
  /\ UNCHANGED <<tables, env, kind, user, work, read, listed, flags, debts>>

\* Faulty variant of ToggleRepo: only the repository's ranking is recalculated.
ToggleRepoUnranked(w) ==
  /\ pc[w] = "togglePublic"
  /\ TogglePublic(work[w].repo, work[w].is_public)
  /\ Goto(w, "delete")
  /\ dirty' = dirty \cup {w}
  /\ dirtyRepos' = dirtyRepos \cup {w}
  /\ UNCHANGED <<env, kind, user, work, read, listed, overlap, overlapRepos,
                 crossed, debts>>

\* The UPDATE of ToggleVisibility.
ToggleRepo(w) ==
  /\ pc[w] = "togglePublic"
  /\ TogglePublic(work[w].repo, work[w].is_public)
  /\ Goto(w, "rankUser")
  /\ dirty' = dirty \cup {w}
  /\ dirtyRepos' = dirtyRepos \cup {w}
  /\ UNCHANGED <<env, kind, user, work, read, listed, overlap, overlapRepos,
                 crossed, debts>>

----------------------------------------------------------------------------
(* RankingService.                                                         *)

\* A worker that starts its recalculation while rivals are inside theirs:
\* from here on all of them are marked.
Mark(marked, w, rivals) ==
  IF rivals = {} THEN marked ELSE marked \cup rivals \cup {w}

\* RecalculateUser: the SELECT of its only statement.
RankUserRead(w) ==
  /\ pc[w] = "rankUser"
  /\ read' = [read EXCEPT ![w] = TotalsOf(user[w])]
  /\ Goto(w, "rankUserWrite")
  /\ overlap' = Mark(overlap, w, {x \in Rivals(w) : pc[x] = "rankUserWrite"})
  /\ dirty' = dirty \cup {w}
  /\ owed' = owed \ {user[w]}
  /\ UNCHANGED <<tables, env, kind, user, work, listed, dirtyRepos,
                 overlapRepos, crossed, owedRepos>>

\* RecalculateUser: its INSERT .. ON CONFLICT DO UPDATE commits.
RankUserWrite(w) ==
  /\ pc[w] = "rankUserWrite"
  /\ WriteUserRanking(user[w], read[w])
  /\ Goto(w, "delete")
  /\ work' = [work EXCEPT ![w] = NoWork]   \* its locals are not used again
  /\ read' = [read EXCEPT ![w] = None]
  /\ dirty' = dirty \ {w}
  /\ overlap' = overlap \ {w}
  /\ crossed' = crossed \ {w}
  /\ owed' = IF w \in overlap THEN owed \cup {user[w]} ELSE owed
  /\ UNCHANGED <<env, kind, user, listed, dirtyRepos, overlapRepos,
                 owedRepos>>

\* RecalculateUserRepos: what its DELETE will remove.
DeleteRead(w) ==
  /\ pc[w] = "delete"
  /\ read' = [read EXCEPT ![w] = PrivateOf(user[w])]
  /\ Goto(w, "deleteWrite")
  /\ overlapRepos' = Mark(overlapRepos, w,
                          {x \in Rivals(w) : pc[x] \in RepoWindow})
  /\ dirtyRepos' = dirtyRepos \cup {w}
  /\ owedRepos' = owedRepos \ {user[w]}
  /\ UNCHANGED <<tables, env, kind, user, work, listed, dirty, overlap,
                 crossed, owed>>

\* Faulty variant of DeleteWrite: the INSERT is not issued.
DeleteOnly(w) ==
  /\ pc[w] = "deleteWrite"
  /\ DeleteRepoRankings(read[w])
  /\ End(w)
  /\ UNCHANGED <<env, debts>>

DeleteWrite(w) ==
  /\ pc[w] = "deleteWrite"
  /\ DeleteRepoRankings(read[w])
  /\ Goto(w, "rankRepos")
  /\ read' = [read EXCEPT ![w] = None]
  /\ UNCHANGED <<env, kind, user, work, listed, flags, debts>>

\* RecalculateUserRepos: the SELECT of its INSERT.
RankReposRead(w) ==
  /\ pc[w] = "rankRepos"
  /\ read' = [read EXCEPT ![w] = PublicOf(user[w])]
  /\ Goto(w, "rankReposWrite")
  /\ UNCHANGED <<tables, env, kind, user, work, listed, flags, debts>>

\* .. and its commit.  A toggle answers here; the other jobs go on to stamp
\* the user row.
RankReposWrite(w) ==
  /\ pc[w] = "rankReposWrite"
  /\ InsertRepoRankings(read[w])
  /\ owedRepos' = IF w \in overlapRepos THEN owedRepos \cup {user[w]}
                                        ELSE owedRepos
  /\ \/ /\ kind[w] = "toggle"
        /\ End(w)
     \/ /\ kind[w] # "toggle"
        /\ Goto(w, "stamp")
        /\ read' = [read EXCEPT ![w] = None]
        /\ dirtyRepos' = dirtyRepos \ {w}
        /\ overlapRepos' = overlapRepos \ {w}
        /\ UNCHANGED <<kind, user, work, listed, dirty, overlap, crossed>>
  /\ UNCHANGED <<env, owed>>

\* Faulty variant of Stamp: the row is not stamped.
AnswerUnstamped(w) ==
  /\ pc[w] = "stamp"
  /\ End(w)
  /\ UNCHANGED <<tables, env, debts>>

\* UpdateSyncedAt, and the job is done.  A sync answers 200.
Stamp(w) ==
  /\ pc[w] = "stamp"
  /\ UpdateSyncedAt(user[w], now)
  /\ End(w)
  /\ UNCHANGED <<env, debts>>

----------------------------------------------------------------------------
(* Failures: a GitHub call or a statement returns an error (the network,   *)
(* GitHub, the database, a constraint, the request's context cancelled     *)
(* because the client went away).                                          *)

\* Faulty variant of Ends: a sync logs that repositories could not be saved,
\* as the collector does.
EndsButRepos(k, label) ==
  \/ k = "toggle"
  \/ k = "sync" /\ label # "saveRepos"
  \/ label \in {"fetchYears", "saveYears", "stamp"}
  \/ k = "login" /\ label \in {"fetchRepos", "saveRepos"}

\* Does an error at this call end the job?  The handlers return on each error
\* but Login, once its stream is open, only on those of fetching and saving
\* contributions and repositories; the collector continues with the next
\* user only when contributions cannot be fetched or saved.
Ends(k, label) ==
  \/ k \in {"sync", "toggle"}
  \/ label \in {"fetchYears", "saveYears", "stamp"}
  \/ k = "login" /\ label \in {"fetchRepos", "saveRepos"}

Debt(w, marked) == {user[x] : x \in {w} \cap marked}

Fail(w) ==
  /\ "error" \in Faults
  /\ pc[w] \notin {"idle", "nextUser"}
  /\ Ends(kind[w], pc[w])
  /\ End(w)
  /\ owed' = owed \cup Debt(w, dirty)
  /\ owedRepos' = owedRepos \cup Debt(w, dirtyRepos)
  /\ UNCHANGED <<tables, env>>

\* Faulty variant of PassOver: after a failed save of repositories the
\* recalculations are skipped too.
PassOverUnranked(w) ==
  /\ "error" \in Faults
  /\ pc[w] = "saveRepos"
  /\ ~Ends(kind[w], pc[w])
  /\ Goto(w, "stamp")
  /\ UNCHANGED <<tables, env, kind, user, work, read, listed, flags, debts>>

\* The error is logged (or dropped) and the job goes on after the call that
\* failed: a recalculation that failed is lost.
PassOver(w) ==
  /\ "error" \in Faults
  /\ pc[w] \notin {"idle", "nextUser"}
  /\ ~Ends(kind[w], pc[w])
  /\ read' = [read EXCEPT ![w] = None]
  /\ \/ /\ pc[w] = "saveStreak"
        /\ Goto(w, "fetchRepos")
        /\ UNCHANGED <<work, flags, debts>>
     \/ /\ pc[w] \in {"fetchRepos", "saveRepos"}
        /\ Goto(w, "rankUser")
        /\ work' = [work EXCEPT ![w].toUpsert = {}]
        /\ UNCHANGED <<flags, debts>>
     \/ /\ pc[w] \in {"rankUser", "rankUserWrite"}
        /\ Goto(w, "delete")
        /\ work' = [work EXCEPT ![w] = NoWork]
        /\ crossed' = crossed \ {w}
        /\ owed' = owed \cup Debt(w, dirty)
        /\ dirty' = dirty \ {w}
        /\ overlap' = overlap \ {w}
        /\ UNCHANGED <<dirtyRepos, overlapRepos, owedRepos>>
     \/ /\ pc[w] \in RepoWindow \cup {"delete"}
        /\ Goto(w, "stamp")
        /\ owedRepos' = owedRepos \cup Debt(w, dirtyRepos)
        /\ dirtyRepos' = dirtyRepos \ {w}
        /\ overlapRepos' = overlapRepos \ {w}
        /\ UNCHANGED <<work, dirty, overlap, crossed, owed>>
  /\ UNCHANGED <<tables, env, kind, user, listed>>

\* The process dies and is started again.
Crash ==
  /\ "crash" \in Faults
  /\ \E w \in Workers : pc[w] # "idle"
  /\ pc'     = [w \in Workers |-> "idle"]
  /\ kind'   = [w \in Workers |-> "none"]
  /\ user'   = [w \in Workers |-> None]
  /\ work'   = [w \in Workers |-> NoWork]
  /\ read'   = [w \in Workers |-> None]
  /\ listed' = [u \in Users |-> None]
  /\ dirty' = {} /\ dirtyRepos' = {} /\ overlap' = {} /\ overlapRepos' = {}
  /\ crossed' = {}
  /\ owed' = owed \cup {user[w] : w \in dirty}
  /\ owedRepos' = owedRepos \cup {user[w] : w \in dirtyRepos}
  /\ UNCHANGED <<tables, env>>

----------------------------------------------------------------------------
(* The world outside.                                                      *)

Tick ==
  /\ now < MaxNow
  /\ now' = now + 1
  /\ UNCHANGED <<tables, ghVersion, ghOwner, control, work, read, listed,
                 flags, debts>>

\* Commits, pull requests, stars: GitHub's answers change.
GitHubActivity ==
  /\ ghVersion < MaxVersion
  /\ ghVersion' = ghVersion + 1
  /\ UNCHANGED <<tables, now, ghOwner, control, work, read, listed, flags,
                 debts>>

\* A repository is created, transferred or deleted on GitHub.
GitHubMove(r, o) ==
  /\ ghOwner[r] # o
  /\ ghOwner' = [ghOwner EXCEPT ![r] = o]
  /\ UNCHANGED <<tables, now, ghVersion, control, work, read, listed, flags,
                 debts>>

----------------------------------------------------------------------------
Proceed(w) ==
  \/ FetchYear(w) \/ SaveYear(w) \/ SaveStreak(w)
  \/ FetchRepos(w) \/ (\E r \in Repos : SaveRepo(w, r)) \/ ReposSaved(w)
  \/ ToggleRepo(w)
  \/ RankUserRead(w) \/ RankUserWrite(w)
  \/ DeleteRead(w) \/ DeleteWrite(w) \/ RankReposRead(w) \/ RankReposWrite(w)
  \/ Stamp(w)

Stumble(w) == Fail(w) \/ PassOver(w)

Loop ==
  \/ CollectorTick
  \/ \E u \in Users : CollectStart(u)
  \/ \E u \in Users : CollectSkip(u)
  \/ CollectEnd

Next ==
  \/ \E w \in Handlers, u \in Users : LoginStart(w, u)
  \/ \E w \in Handlers, u \in Users : SyncStart(w, u)
  \/ \E w \in Handlers, r \in Repos, b \in BOOLEAN : ToggleStart(w, r, b)
  \/ Loop
  \/ \E w \in Workers : Proceed(w)
  \/ \E w \in Workers : Stumble(w)
  \/ Crash
  \/ Tick
  \/ GitHubActivity
  \/ \E r \in Repos, o \in Owners : GitHubMove(r, o)

Spec == Init /\ [][Next]_vars

----------------------------------------------------------------------------
(* Properties.                                                             *)

\* What the locals of a worker hold at each of its calls.
LocalsOK(w) ==
  /\ pc[w] \in {"idle", "nextUser"} <=> user[w] = None
  /\ user[w] = None => w \notin dirty \cup dirtyRepos
  /\ pc[w] = "fetchYears" => work[w].toFetch # {}
  /\ pc[w] = "saveYears" => work[w].toSave # {}
  /\ pc[w] = "fetchRepos" /\ kind[w] = "sync" => work[w].toSave # {}
  /\ \A y \in work[w].toSave : work[w].fetched[y] # None
  /\ \A r \in work[w].toUpsert : work[w].repos[r] # None
  /\ pc[w] = "togglePublic" =>
       /\ kind[w] = "toggle"
       /\ work[w].repo \in Repos /\ Owned(work[w].repo, user[w])
  /\ pc[w] = "rankUserWrite" => read[w] \in Totals
  /\ pc[w] = "deleteWrite" => read[w] \in SUBSET Repos
  /\ pc[w] = "rankReposWrite" => read[w] \in RepoData
  /\ pc[w] \notin {"rankUserWrite", "deleteWrite", "rankReposWrite"} => read[w] = None

\* The type invariant.
TypeOK ==
  /\ StoreTypeOK
  /\ now \in Nat /\ ghVersion \in Nat
  /\ ghOwner \in [Repos -> Owners]
  /\ pc \in [Workers -> Labels]
  /\ kind \in [Workers -> {"none", "login", "sync", "toggle", "collect"}]
  /\ user \in [Workers -> Maybe(Users)]
  /\ work \in [Workers -> Work]
  /\ read = [w \in Workers |-> read[w]]   \* typed by LocalsOK
  /\ listed \in [Users -> Maybe(Nat)]
  /\ dirty \subseteq Workers /\ dirtyRepos \subseteq Workers
  /\ overlap \subseteq Workers /\ overlapRepos \subseteq Workers
  /\ crossed \subseteq Workers
  /\ owed \subseteq Users /\ owedRepos \subseteq Users
  /\ \A w \in Workers : LocalsOK(w)

\* The ranking row is what RecalculateUser would write now.
Fresh(u) ==
  \/ user_rankings[u] = TotalsOf(u)
  \/ user_rankings[u] = None /\ TotalsOf(u) = [years |-> NoYears, repos |-> NoRepos]

\* A user's ranking row always agrees with the contributions and the public
\* repositories it is summed from, except while a job of the user stands
\* between its first change and its recalculation, or after a recalculation
\* was lost (a failure, a crash, a change by another user's job) or ran at
\* the same time as another of the same user.  In particular, every handler
\* recalculates after its last change, on all its paths.
RankingFollowsSources ==
  \A u \in Users :
    Fresh(u) \/ u \in owed \/ \E w \in dirty : user[w] = u

\* The repo_rankings rows of the user's repositories are what
\* RecalculateUserRepos would leave: a row with the current score for each
\* public one, none for a private one.
Listed(u) ==
  \A r \in Repos : Owned(r, u) =>
    repo_rankings[r] = IF repositories[r].is_public
                       THEN repositories[r].stats ELSE None

\* The same for the repository ranking: no private repository stays in it and
\* no public one is missing or scored by old numbers, but for those reasons.
RepoRankingFollowsSources ==
  \A u \in Users :
    Listed(u) \/ u \in owedRepos \/ \E w \in dirtyRepos : user[w] = u

\* The foreign keys of migrations/ never refuse a statement: at whatever call a
\* job stops, and although users, rows and rankings are written by statements
\* of their own, every row has the row it refers to.
RowsHaveParents ==
  /\ \A u \in Users : users[u] = None =>
       /\ contributions[u] = NoYears
       /\ streak_rankings[u] = None /\ user_rankings[u] = None
  /\ \A r \in Repos :
       /\ repositories[r] # None => users[repositories[r].owner] # None
       /\ repo_rankings[r] # None => repositories[r] # None

\* A repository is visible because its owner made it so: once stored it keeps
\* its owner, and only the UPDATE of a toggle by that owner changes whether
\* it is public; no sync, login or collection resets the choice.
VisibilityIsTheOwners ==
  [][\A r \in Repos : repositories[r] # None =>
       /\ repositories'[r] # None
       /\ repositories'[r].owner = repositories[r].owner
       /\ repositories'[r].is_public # repositories[r].is_public =>
            \E w \in Workers : /\ kind[w] = "toggle" /\ pc[w] = "togglePublic"
                               /\ work[w].repo = r
                               /\ user[w] = repositories[r].owner]_vars

Older(a, b) == a # None /\ b # None /\ a < b

\* Stored data goes back to an older state of GitHub only in a save of a job
\* during which another job of the user (or one that holds the same repository)
\* has saved: a job that runs alone never undoes what an earlier one stored.
\* (The other may have saved before this one fetched; that much is excused too.)
NoRollback ==
  [][/\ \A u \in Users, y \in Years :
          Older(contributions'[u][y], contributions[u][y]) =>
            \E w \in crossed : user[w] = u /\ pc[w] = "saveYears"
     /\ \A r \in Repos :
          (repositories[r] # None /\ repositories'[r].stats < repositories[r].stats)
            => \E w \in crossed : pc[w] = "saveRepos" /\ work[w].repos[r] # None]_vars

\* When a sync recalculates the rankings, the store holds everything it
\* fetched (unless another job saved over it): it never ranks a user, or
\* answers 200, on a part, although each row was committed on its own.
SyncIsComplete ==
  \A w \in Workers \ crossed :
    (kind[w] = "sync" /\ pc[w] \in {"rankUser", "rankUserWrite"}) =>
      /\ contributions[user[w]] = work[w].fetched
      /\ streak_rankings[user[w]] = work[w].fetched
      /\ \A r \in Repos : work[w].repos[r] # None =>
           repositories[r] # None /\ repositories[r].stats = work[w].repos[r]
=============================================================================
