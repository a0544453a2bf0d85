----------------------------- MODULE Identities -----------------------------
(***************************************************************************)
(* Names and ids.  The store keys its rows by GitHub's numeric ids, but    *)
(* fetches data by login name.  On GitHub names change hands: an account   *)
(* is renamed and another takes the old login; a repository is renamed,    *)
(* transferred, or deleted and created anew.  The store learns of a new    *)
(* login only when its user logs in, and of a new full name only when a    *)
(* job upserts the repository; both columns are UNIQUE.                    *)
(*                                                                         *)
(* Data abstraction.  A user's contributions are represented by the        *)
(* account they were fetched from; the years of a job, which all go by one *)
(* captured login, count as one.  Streaks, rankings and the cooldown hang  *)
(* on no name and are left to SyncJobs.                                    *)
(***************************************************************************)
EXTENDS Naturals, FiniteSets

CONSTANTS Users,      \* GitHub accounts: users.id
          Repos,      \* GitHub repositories: repositories.id
          Logins,     \* login names
          Names,      \* repository names, without the owner's login
          None,       \* an absent row or value
          Handlers,   \* request goroutines
          Collector,  \* the collector's goroutine
          PageSize,   \* repositories in an answer of GitHub: 100
          SignedUpAs, \* the login each account began with
          Worlds      \* bounds: what repositories there are at first, and how
                      \* often accounts and repositories change names

Workers   == Handlers \cup {Collector}
Maybe(S)  == S \cup {None}
FullNames == Logins \X Names

RepoRow == [owner_id : Users, full_name : FullNames]

Steps == {"register", "years", "save_years", "repos", "save_repos"}

\* A job: its caller, the login it goes by, the accounts its contributions
\* and its repositories came from, and the rows it is still to write.
Job == [kind : {"login", "sync", "collect"}, at : Steps,
        user : Users, name : Logins, years : Maybe(Users),
        repos : Maybe(Users), todo : SUBSET (Repos \X FullNames)]

ASSUME IdentitiesAssumption ==
  /\ Collector \notin Handlers
  /\ PageSize \in Nat \ {0}
  /\ None \notin Users \cup Logins \cup RepoRow \cup Job \cup (Users \X Names)
  /\ SignedUpAs \in [Users -> Logins]
  /\ \A u, v \in Users : SignedUpAs[u] = SignedUpAs[v] => u = v
  /\ Worlds \subseteq [repos : [Repos -> Maybe(Users \X Names)],
                        renames : Nat, moves : Nat]
  /\ \A o \in Worlds : \A q, r \in Repos :
       q # r /\ o.repos[q] = o.repos[r] => o.repos[r] = None

VARIABLES
  ghLogin,        \* GitHub: the login of each account
  ghRepo,         \* GitHub: owner and name of each repository, None if it has none
  renames,        \* how often accounts may still change their login
  moves,          \* how often repositories may still change name or owner
  calm,           \* nothing goes wrong, and no name changes, from now on
  login,          \* users.login of each row
  contributions,  \* the account whose contributions are stored for each user
  repositories,   \* repositories
  round,          \* the collector's list: the logins of users still to visit
  job,            \* each worker's job
  stale           \* history: accounts renamed since they last logged in

github == <<ghLogin, ghRepo, renames, moves>>
store  == <<login, contributions, repositories>>
vars   == <<github, calm, store, round, job, stale>>

NoRound == [u \in Users |-> None]

Init ==
  /\ ghLogin = SignedUpAs
  /\ \E o \in Worlds :
       ghRepo = o.repos /\ renames = o.renames /\ moves = o.moves
  /\ calm = FALSE
  /\ login = [u \in Users |-> None]
  /\ contributions = [u \in Users |-> None]
  /\ repositories = [r \in Repos |-> None]
  /\ round = NoRound
  /\ job = [w \in Workers |-> None]
  /\ stale = {}

----------------------------------------------------------------------------
(* Names.                                                                  *)

\* Faulty variant of FullName: the query asks for name, not nameWithOwner.
BareName(r) == ghRepo[r][2]

FullName(r) == <<ghLogin[ghRepo[r][1]], ghRepo[r][2]>>

\* Who answers to a login on GitHub now.
Holders(n) == {v \in Users : ghLogin[v] = n}

\* The repositories of account v, by their full names.
ReposOf(v) == {<<r, FullName(r)>> : r \in {q \in Repos : /\ ghRepo[q] # None
                                                         /\ ghRepo[q][1] = v}}

\* What GetRepositories is told of account v: of more than a page holds, those
\* with the most stars, which can be any.
FirstPage(v) ==
  {S \in SUBSET ReposOf(v) : \/ Cardinality(S) = PageSize
                             \/ S = ReposOf(v) /\ Cardinality(S) < PageSize}

\* Faulty variant of the next two: the column is not UNIQUE.
NotUnique(id, name) == FALSE

\* The UNIQUE constraints: another row has the name.
LoginTaken(u, n)    == \E v \in Users \ {u} : login[v] = n
FullNameTaken(r, f) == \E q \in Repos \ {r} : /\ repositories[q] # None
                                              /\ repositories[q].full_name = f

NewJob(k, l, u, n) ==
  [kind |-> k, at |-> l, user |-> u, name |-> n,
   years |-> None, repos |-> None, todo |-> {}]

At(w, l) == job[w] # None /\ job[w].at = l

End(w) == job' = [job EXCEPT ![w] = None]

----------------------------------------------------------------------------
(* Login.                                                                  *)

\* GetUser tells the id and the login of the account that signs in.
LoginStart(w, u) ==
  /\ job[w] = None
  /\ job' = [job EXCEPT ![w] = NewJob("login", "register", u, ghLogin[u])]
  /\ UNCHANGED <<github, calm, store, round, stale>>

\* Nothing else is under way for the user of job w under an older login.
UpToDate(w) ==
  LET u == job[w].user IN
  /\ job[w].name = ghLogin[u]
  /\ round[u] \in {None, ghLogin[u]}
  /\ \A x \in Workers \ {w} : job[x] = None \/ job[x].user # u

\* Faulty variant of Stored: the conflict clause does not set login.
FirstLogin(u, n) == IF login[u] = None THEN n ELSE login[u]

\* login = EXCLUDED.login
Stored(u, n) == n

\* The upsert of the user row.
Register(w) ==
  LET u == job[w].user IN
  /\ At(w, "register")
  /\ ~LoginTaken(u, job[w].name)
  /\ login' = [login EXCEPT ![u] = Stored(u, job[w].name)]
  /\ stale' = IF UpToDate(w) THEN stale \ {u} ELSE stale
  /\ job' = [job EXCEPT ![w].at = "years"]
  /\ UNCHANGED <<github, calm, contributions, repositories, round>>

\* The upsert violates UNIQUE (login): the login ends with an error.
RegisterFails(w) ==
  /\ At(w, "register")
  /\ LoginTaken(job[w].user, job[w].name)
  /\ End(w)
  /\ UNCHANGED <<github, calm, store, round, stale>>

----------------------------------------------------------------------------
(* Sync and the collector.                                                 *)

\* The row is found by the token's id, and the job goes by the login in it.
\* (The path must repeat the login in the token, which may be older.)
SyncStart(w, u) ==
  /\ job[w] = None
  /\ login[u] # None
  /\ job' = [job EXCEPT ![w] = NewJob("sync", "years", u, login[u])]
  /\ UNCHANGED <<github, calm, store, round, stale>>

\* ListAllWithToken: every row, as it is now, for the whole round.
CollectorTick ==
  /\ job[Collector] = None /\ round = NoRound
  /\ round' = login
  /\ UNCHANGED <<github, calm, store, job, stale>>

CollectStart(u) ==
  /\ job[Collector] = None /\ round[u] # None
  /\ job' = [job EXCEPT ![Collector] = NewJob("collect", "years", u, round[u])]
  /\ round' = [round EXCEPT ![u] = None]
  /\ UNCHANGED <<github, calm, store, stale>>

----------------------------------------------------------------------------
(* The calls that the jobs share.                                          *)

\* Faulty variant of RoundAfterError: the collector returns.
RoundGivenUp(w) == IF w = Collector THEN NoRound ELSE round

\* The collector goes on with the next user of its list.
RoundAfterError(w) == round

\* An error ends the job (the collector logs it and passes on: what is left
\* of its job then, the recalculations, touches no name).
Fail(w) ==
  /\ job[w] # None
  /\ End(w)
  /\ round' = RoundAfterError(w)
  /\ UNCHANGED <<github, calm, store, stale>>

\* GetContributions by login: whoever has the name now.
FetchYears(w) ==
  /\ At(w, "years")
  /\ \E v \in Holders(job[w].name) :
       job' = [job EXCEPT ![w].years = v,
                          ![w].at = IF job[w].kind = "sync" THEN "repos" ELSE "save_years"]
  /\ UNCHANGED <<github, calm, store, round, stale>>

\* contribRepo.UpsertMany, by the id of the user.
SaveYears(w) ==
  /\ At(w, "save_years")
  /\ contributions' = [contributions EXCEPT ![job[w].user] = job[w].years]
  /\ job' = [job EXCEPT ![w].years = None,
                        ![w].at = IF job[w].kind = "sync" THEN "save_repos" ELSE "repos"]
  /\ UNCHANGED <<github, calm, login, repositories, round, stale>>

\* GetRepositories by login.
FetchRepos(w) ==
  /\ At(w, "repos")
  /\ \E v \in Holders(job[w].name) : \E page \in FirstPage(v) :
       job' = [job EXCEPT ![w].repos = v, ![w].todo = page,
                          ![w].at = IF job[w].kind = "sync" THEN "save_years" ELSE "save_repos"]
  /\ UNCHANGED <<github, calm, store, round, stale>>

\* Nobody has the login any more: GitHub answers with an error.
NotFound(w) ==
  /\ At(w, "years") \/ At(w, "repos")
  /\ Holders(job[w].name) = {}
  /\ Fail(w)

\* Faulty variant of NameAfter: the conflict clause does not set full_name.
FirstName(old, f) == old

\* full_name = EXCLUDED.full_name
NameAfter(old, f) == f

\* One turn of repoRepo.UpsertMany: ON CONFLICT (id) keeps owner_id.
SaveRepo(w) ==
  /\ At(w, "save_repos")
  /\ \E t \in job[w].todo :
       /\ ~FullNameTaken(t[1], t[2])
       /\ repositories' = [repositories EXCEPT ![t[1]] =
            IF @ = None
            THEN [owner_id |-> job[w].user, full_name |-> t[2]]
            ELSE [@ EXCEPT !.full_name = NameAfter(@, t[2])]]
       /\ job' = [job EXCEPT ![w].todo = @ \ {t}]
  /\ UNCHANGED <<github, calm, login, contributions, round, stale>>

\* A turn that violates UNIQUE (full_name) ends the loop with an error.
SaveRepoFails(w) ==
  /\ At(w, "save_repos")
  /\ \E t \in job[w].todo : FullNameTaken(t[1], t[2])
  /\ Fail(w)

\* All repositories are saved, and the job succeeds.
Done(w) ==
  /\ At(w, "save_repos") /\ job[w].todo = {}
  /\ End(w)
  /\ UNCHANGED <<github, calm, store, round, stale>>

Crash ==
  /\ job' = [w \in Workers |-> None]
  /\ round' = NoRound
  /\ UNCHANGED <<github, calm, store, stale>>

----------------------------------------------------------------------------
(* GitHub.                                                                 *)

\* An account takes a login that is free.
Rename(u, n) ==
  /\ renames > 0
  /\ Holders(n) = {}
  /\ ghLogin' = [ghLogin EXCEPT ![u] = n]
  /\ renames' = renames - 1
  /\ stale' = stale \cup {u}
  /\ UNCHANGED <<ghRepo, moves, calm, store, round, job>>

\* A repository is created, renamed, transferred or (None) deleted or hidden.
RepoChange(r, place) ==
  /\ moves > 0
  /\ ghRepo[r] # place
  /\ \A q \in Repos \ {r} : place = None \/ ghRepo[q] # place
  /\ ghRepo' = [ghRepo EXCEPT ![r] = place]
  /\ moves' = moves - 1
  /\ UNCHANGED <<ghLogin, renames, calm, store, round, job, stale>>

----------------------------------------------------------------------------
Proceed(w) == \/ Register(w) \/ RegisterFails(w)
              \/ FetchYears(w) \/ SaveYears(w) \/ FetchRepos(w) \/ NotFound(w)
              \/ SaveRepo(w) \/ SaveRepoFails(w) \/ Done(w)

Loop == CollectorTick \/ \E u \in Users : CollectStart(u)

Disturbance ==
  \/ \E w \in Workers : Fail(w)
  \/ Crash
  \/ \E u \in Users, n \in Logins : Rename(u, n)
  \/ \E r \in Repos, place \in Maybe(Users \X Names) : RepoChange(r, place)

Next ==
  \/ \E w \in Handlers, u \in Users : LoginStart(w, u) \/ SyncStart(w, u)
  \/ Loop
  \/ \E w \in Workers : Proceed(w)
  \/ ~calm /\ Disturbance
  \/ ~calm /\ calm' = TRUE /\ UNCHANGED <<github, store, round, job, stale>>

\* Once the world is calm, Go runs every goroutine that can run, GitHub and
\* the database answer, and the ticker keeps firing.
Fairness ==
  /\ \A w \in Workers : WF_vars(calm /\ Proceed(w))
  /\ WF_vars(calm /\ Loop)

Spec == Init /\ [][Next]_vars /\ Fairness

----------------------------------------------------------------------------
TypeOK ==
  /\ ghLogin \in [Users -> Logins]
  /\ ghRepo \in [Repos -> Maybe(Users \X Names)]
  /\ renames \in Nat /\ moves \in Nat /\ calm \in BOOLEAN
  /\ login \in [Users -> Maybe(Logins)]
  /\ contributions \in [Users -> Maybe(Users)]
  /\ repositories \in [Repos -> Maybe(RepoRow)]
  /\ round \in [Users -> Maybe(Logins)]
  /\ job \in [Workers -> Maybe(Job)]
  /\ stale \subseteq Users

\* A job holds the data of another account than its user's only if that user
\* was renamed and has not logged in since (or a job with the older login is
\* still under way): although jobs go by names, and names change hands.
ForeignDataMeansRenamed ==
  \A w \in Workers : job[w] # None /\ job[w].user \notin stale =>
    {job[w].years, job[w].repos} \subseteq {None, job[w].user}

\* The names settle, and the stored login of a user is the one on GitHub.
Known(u) == calm /\ login[u] = ghLogin[u]

\* Once a user's stored login is right for good, so are the contributions
\* stored for that user in the end, whatever a job with an older login had
\* saved: the collector comes round, past users it cannot fetch.
OwnDataSettles ==
  \A u \in Users : <>[]Known(u) => <>[](contributions[u] = u)

\* All of a user's repositories are stored under the names they have.
AllNamed(u) == \A r \in Repos : ghRepo[r] # None /\ ghRepo[r][1] = u =>
  repositories[r] # None /\ repositories[r].full_name = FullName(r)

\* By UNIQUE (full_name), one of them can not be stored.
OneBlocked(u) == \E r \in Repos : /\ ghRepo[r] # None /\ ghRepo[r][1] = u
                                  /\ FullNameTaken(r, FullName(r))

\* GitHub's answer tells all repositories of the account.
OnePage(u) == Cardinality(ReposOf(u)) <= PageSize

\* Once a user's stored login is right for good, so are the names of the
\* user's repositories in the end, unless the row of another repository keeps
\* a name that one of them has now, or there are more than a page of them.
NamesSettle ==
  \A u \in Users : <>[]Known(u) => <>[](OnePage(u) => AllNamed(u) \/ OneBlocked(u))

\* A set of users each of whose logins is stored for another of them: by
\* UNIQUE (login), none of them can log in.
Deadlocked(S) ==
  \A u \in S : \E v \in S \ {u} : login[v] = ghLogin[u]

\* Such a set, and none of them is signing in by an older login, either.
Stuck(S) == Deadlocked(S) /\ \A w \in Workers :
  At(w, "register") /\ job[w].user \in S => job[w].name = ghLogin[job[w].user]

\* Accounts that have swapped their logins stay locked out, whoever tries to
\* log in and in which order, until GitHub renames one of them again: a login
\* upserts one row, and the row in its way is another user's.
CirclesStay ==
  [][\A S \in SUBSET Users : Stuck(S) =>
       \/ \E u \in S : ghLogin'[u] # ghLogin[u]
       \/ Stuck(S)' /\ \A u \in S : login'[u] = login[u]]_vars

\* The row of repository q, which is gone from GitHub, has the name that r has
\* there now, and no job under way still knows q.
Blocks(q, r) ==
  /\ repositories[q] # None /\ ghRepo[q] = None /\ ghRepo[r] # None
  /\ repositories[q].full_name = FullName(r)
  /\ \A w \in Workers : job[w] # None => \A t \in job[w].todo : t[1] # q

\* Such a row is in the way for good, since no job deletes rows or writes one
\* that GitHub does not list: as long as GitHub leaves the two and the login of
\* r's owner alone, r is never stored under its name.
BlocksStay ==
  [][\A q, r \in Repos : Blocks(q, r) =>
       \/ ghRepo'[q] # ghRepo[q] \/ ghRepo'[r] # ghRepo[r]
       \/ ghLogin'[ghRepo[r][1]] # ghLogin[ghRepo[r][1]]
       \/ /\ Blocks(q, r)'
          /\ repositories'[r] # None => repositories'[r].full_name # FullName(r)]_vars

\* If everybody keeps logging in after names have settled, every stored login
\* comes right in the end, but those in a circle of swapped names.
LoginsSettle ==
  (<>calm /\ \A u \in Users : []<><<\E w \in Handlers : LoginStart(w, u)>>_vars) =>
    \A u \in Users :
      <>[](login[u] = ghLogin[u] \/ \E S \in SUBSET Users : u \in S /\ Deadlocked(S))

\* A user who keeps synchronising is served, when names have settled.
SyncsSucceed ==
  \A u \in Users :
    (<>[]Known(u) /\ []<><<\E w \in Handlers : SyncStart(w, u)>>_vars) =>
    []<><<\E w \in Handlers : job[w] # None /\ job[w].kind = "sync"
                                /\ job[w].user = u /\ Done(w)>>_vars
=============================================================================
