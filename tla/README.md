# gitrank-api in TLA+

A verification project for the GitRank API server: TLA+ models of its jobs, its
tables, the names and ids they go by, its ranking lists, its browser sessions,
its rate limiter and its streak computation, checked with TLC on small instances
and, where that is possible, proved with TLAPS for every value of the constants.
Paths are relative to the repository.

## 1. The system

The server (`cmd/server/main.go`) is one Go process with a PostgreSQL database.
Users log in with GitHub; the server fetches their contributions and
repositories and ranks users and repositories by score.

| Component | Code | State | Operations |
|---|---|---|---|
| Store | `migrations/`, `internal/repository/` | tables `users`, `contributions`, `streak_rankings`, `repositories`, `user_rankings`, `repo_rankings` | one autocommit statement per method; nothing opens a transaction |
| RankingService | `internal/service/ranking.go` | none (writes the two ranking tables) | `RecalculateUser`, `RecalculateUserRepos` |
| GitHubService | `internal/service/github.go` | none | OAuth exchange, `GetUser`, `GetContributions(ByYear)`, `GetRepositories`, `CalcStreaks` |
| Login | `internal/handler/auth.go` | a goroutine's locals | upserts the user, then collects year by year while it streams events |
| Sync | `internal/handler/user.go` | a goroutine's locals | the same on demand, with a cooldown; ends at the first error |
| ToggleVisibility | `internal/handler/repo.go` | a goroutine's locals | `is_public`, then both recalculations |
| Collector | `internal/worker/collector.go` | list of the round, locals | every six hours, for every user with a token; passes over most errors |
| Ranking lists | `Ranking` in `handler/user.go` and `handler/repo.go`, `ListRanking` | none; the cursor is with the client | key-set pagination |
| Rate limiter | `internal/middleware/ratelimit.go` | map of buckets under a mutex | `allow`, `cleanup` |
| Names and ids | `migrations/000001`, the upserts, the queries of `service/github.go` | `users.login`, `repositories.full_name`, both UNIQUE; captured logins | rows are keyed by id, data is fetched by name |
| Sessions | `handler/auth.go`, `service/auth.go`, `middleware/auth.go` | none on the server; cookies and signed tokens at the browser | `State`, `Login`, `Refresh`, `Logout`, `JWTMiddleware` |
| Detail pages, wiring | the rest | none | read and format; start-up |

How they interact. Every request runs in its own goroutine, the collector in one
more. They share only the database (and the rate limiter's map): no lock, queue
or transaction keeps two jobs of the same user apart. The rankings are derived
tables, kept in step by calling RankingService after the sources have changed.

What is hard here: two jobs of a user interleaved at any call; a snapshot that
is written late; a job that stops half-way through its statements (an error, a
client that disconnects and cancels the request's context, a crash), each with
its own rule for which errors end it; check-then-act on `updated_at`; lists read
page by page while they change, with ranks counted over rows they do not show;
names that change hands on GitHub while jobs go by the ones they captured, under
UNIQUE constraints; answers that overtake each other at the browser; lazily
filled buckets and their removal; dates at the edge of a day. `PROJECT.json` lists these hazards line by line.

What makes each component correct:

* jobs and rankings: derived tables follow their sources, but for recalculations
  that were lost or crossed, and those the collector makes up for; no job resets
  a user's choice of visibility; a sync never ranks a part of what it fetched;
  old data overwrites new only in a race;
* sync: the cooldown;
* ranking lists: a walk repeats and loses no row that stood still, and descends;
  a rank number fits the rows above it;
* names and ids: no user gets another's data but by a rename, and once names
  settle the store comes right, past rows and users that cannot be saved;
* sessions: a browser is signed in as its last login says, with both tokens;
  nobody who comes back in time is asked again; a state serves one login;
* rate limiter: it is a token bucket per address, whatever the map forgets;
* streaks: they are what their definition says.

## 2. Modules

| Module | Models |
|---|---|
| `Store` | the tables and the statements against them |
| `SyncJobs` | Login, Sync, ToggleVisibility and the collector as workers over `Store`, failures and crashes, GitHub's own changes |
| `SyncCooldown` | `SyncJobs` with the history the cooldown is about |
| `SyncHealing` | `SyncJobs` in a world that calms down, with fairness |
| `RankingPages` | a client's walk through a ranking while rows change |
| `RankNumbers` | `RankingPages` with the rank of each row, and the rows that are counted but not listed |
| `Identities` | login, sync and the collector by what they do with names, and GitHub's renames |
| `Sessions` | a browser's cookies, its tabs' calls, and the endpoints that set and read tokens |
| `TokenBucket` | what a rate limiter promises (abstract) |
| `RateLimiter` | the middleware; implements `TokenBucket` by a refinement mapping |
| `Streaks` | `CalcStreaks` |
| `MC*` | the same modules as TLC instantiates them |
| `*Proofs` | theorems and their proofs |

Operators whose comment starts with "Faulty variant of" are plausible mistakes.
No specification uses them; they exist so that every property can be seen to
fail when one replaces the operator it is a variant of (`PROJECT.json`,
`mutants`).

### Store

One variable per table. A statement that carries its values (`INSERT .. VALUES
.. ON CONFLICT`, `UPDATE .. WHERE id`) is one atomic step. A statement that
computes what it writes from other tables (`INSERT .. SELECT`, `DELETE .. IN
(SELECT ..)`) sees a snapshot taken when it starts and writes when it commits,
as READ COMMITTED has it; the model has an operator for each half, and other
steps come in between.

What GitHub says is represented by the *version* of GitHub's data at the moment
of the call. A contribution row holds the version it was fetched at, a ranking
row holds what its sums were taken over. So "the total is right" is "it was
computed from the rows that are there", independent of the weights in the sums.
The columns other than `updated_at` of a user row are left out; the token is
always set, as `Upsert` sets it.

### SyncJobs

A worker is a request goroutine or the collector; `pc` names the call it is
about to make, `kind` its job, `work` its locals, `read` the snapshot of a
statement in flight.

| Actions | Code |
|---|---|
| `LoginStart` | `auth.go:80-154`, up to the upsert; earlier errors change nothing |
| `SyncStart` | `user.go:211-237`, the checks before the first GitHub call |
| `ToggleStart` | `repo.go:131-156`; the owner's user row exists by the foreign key |
| `CollectorTick`, `CollectStart`, `CollectSkip`, `CollectEnd` | `collector.go:43-73`, `:125` |
| `FetchYear`, `FetchRepos` | `github.go:136-219`, `:272-327` |
| `SaveYear`, `SaveStreak`, `SaveRepo`, `ReposSaved` | the `UpsertMany` loops and the streak upsert, in the order of each job: login saves each year before it fetches the next, sync fetches everything first, the collector fetches repositories after saving the years |
| `ToggleRepo` | `repo.go:158` |
| `RankUserRead/Write`, `DeleteRead/Write`, `RankReposRead/Write` | `ranking.go` |
| `Stamp` | `UpdateSyncedAt` |
| `Fail`, `PassOver` | an error at any call that ends the job, or that the job logs and passes over; `Ends` says which |
| `Crash` | the process dies; tables survive |
| `Tick`, `GitHubActivity`, `GitHubMove` | the clock and GitHub |

A statement that commits although its client sees an error needs no action of
its own: the success followed by `Fail`, or by `PassOver` of the next call,
reaches the same tables, and a `PassOver` of a repeated recalculation leaves the
same debts. An error of `ListAllWithToken` leaves the collector idle and is a
stuttering step. `RankUserWrite` forgets a worker's fetched data, which no later
call uses. Repositories are upserted in any order, years newest first.

`GetRepositories` asks for the first 100 repositories by stars and no second
page. `FirstPage` is what it may answer: all repositories of the account if there
are no more than `PageSize`, and any `PageSize` of them otherwise, since stars are
not modelled. Rows outside the answer are not touched.

History variables record who owes a recalculation (`dirty`, `dirtyRepos`), whose
recalculations ran side by side (`overlap*`), whose data was overtaken
(`crossed`) and for which users a recalculation was lost (`owed*`). No guard
reads them; the properties use them to say *only* those reasons excuse a ranking
that disagrees with its sources.

The model has no statement that fails on a foreign key. It needs none:
`RowsHaveParents` says that every row refers to a row that is there
(`migrations/000001_init.up.sql:17,31,43,56`, `000004_streak_rankings.up.sql:2`)
and that every statement about to insert does so for a row that is there.

### SyncCooldown

Follows every step of `SyncJobs` and records when a sync was let through and
when one completed. `CooldownAfterSync` is what the code keeps;
`SyncEveryCooldown` is what the documentation says, and the code does not keep
it (section 4). A sync counts as let through when it reads the row of its user
(`user.go:219`); the comparison (`:224`) is the same step. So `CooldownAfterSync`
says nothing of a sync that had read the row before the other's stamp was
committed and compares it after: that one is let through by the row as it was.

### SyncHealing

At some moment the world calms down: from then on no call fails, nothing
crashes, nobody toggles or moves a repository, while logins, syncs and the
collector go on. `CollectorHeals` says that every registered user is then caught
up for good; of an account with more than `PageSize` repositories, those beyond
the page are excepted, as the code never asks for them. It also says that a user
whose rows a round can all reach (`InReach`: no more repositories than a page, and
none stored as the user's that is another account's on GitHub) is *settled* in the
end: everything stored is what GitHub says, and no job holds anything older,
fetched or read. The moment is a variable of the model, not a hypothesis about
infinitely many steps, because a failure that is passed over in a steady state
can leave every variable as a success would.

`HealedStays` is the other half, and it needs neither calm nor fairness: no job
unsettles a settled user, whatever fails and wherever the process crashes; only
GitHub does, or a toggle of the user's own. So what the collector has once brought
about, later rounds need not repeat. `Settled` is more than `CaughtUp`: a user can
be caught up while a job still holds older data, and be thrown back when it saves.

Fairness: weak fairness of each worker's next call (the Go scheduler runs every
runnable goroutine, and calls return, with a result or an error) and of the
collector's loop (the ticker keeps firing). Clients owe nothing, so nothing is
assumed of requests. Weak fairness is enough since a worker's call stays enabled
until it is made.

`MCSyncHealing` splits the behaviours in two: those in which clients only log in
while GitHub's data changes, and those in which they make every request while it
rests. Together they are too many states for a liveness check. The choice only
leaves out steps of clients and of GitHub, of which fairness assumes nothing.

### RankingPages

One page is one `SELECT`, so one snapshot; `Change` is what any job may do to
the ranking in between. A row that the query filters out (private, or another
language) is absent. `rose` and `fell` record which rows moved during a walk. A
cursor that does not decode counts as no cursor and starts a new walk.

### RankNumbers

Each row of a page carries `COUNT(*)+1` of the rows of a whole table whose column
is greater than its own (`repository/user.go:76-113`, `repository/repo.go:57`,
`repository/streak.go:31`). The list shows only a part of that table: users
without a ranking row yet are missing from the list by streak, private
repositories and those in other languages from that of repositories. `unlisted`
holds those rows; `Move` takes a row out of the list, into it, or changes it.
Users are ranked by the column the list is sorted by (`rankExprs`), repositories
by score whatever the sort: `RankColumn` says which. The number is computed in the
same statement as the page, so it belongs to the same snapshot, but a reader
compares it with pages seen earlier, and what those showed may have changed since.
`shown` keeps the value each row had on the last page that showed it, and
`RanksCountTheRowsAbove` compares a rank with the number of rows the reader was
*shown* with a better value (`SeenAbove`). The two agree but for two kinds of rows:
those that fell or left after they were shown (`Sunk`: they were above, the count
of the later moment need not include them), and those that count without having
been shown so (`UnseenAbove`: they rose past the reader, or are not listed). The property is
about lists ranked by the column they are sorted by, that is, those of users and
that of repositories by score; in the lists of repositories by stars or forks the
ranks are by score and need not fit the order, so nothing is said of them.

### Identities

The rows of `users` and `repositories` are found by GitHub's ids, but
contributions and repositories are asked for by login, and `login` and
`full_name` are UNIQUE. GitHub's side (`ghLogin`, `ghRepo`) changes by `Rename`
and `RepoChange`: accounts take free logins, repositories are created, renamed,
transferred, deleted. A job is a record of what it captured.

| Actions | Code |
|---|---|
| `LoginStart`, `Register`, `RegisterFails` | `GetUser` tells id and login; the upsert sets `login`, or violates UNIQUE and ends the login (`auth.go:101-125`, `repository/user.go:20`) |
| `SyncStart` | the row is found by the id in the token, the job goes by the login in the row (`user.go:211-239`) |
| `CollectorTick`, `CollectStart` | the list with the logins of that moment serves the whole round (`collector.go:57-75`) |
| `FetchYears`, `FetchRepos`, `NotFound` | GitHub answers for whoever has the login now; an error if nobody has |
| `SaveYears`, `SaveRepo`, `SaveRepoFails`, `Done` | upserts by id; the loop over repositories ends at the first row that violates UNIQUE |
| `Fail`, `Crash` | any call fails; the process dies |

The years of a job go by one captured login, so they are one fetch here.
`GetRepositories` answers with one page, as in `SyncJobs`: `FirstPage` may be any
`PageSize` repositories of an account that has more.
Rankings, streaks and the cooldown hang on no name and are not in this module; so
a sync may start at any time. A toggle changes no name and is left to `SyncJobs`.
`stale` is history: accounts renamed since they last logged in.

`ForeignDataMeansRenamed` bounds whose data a job may hold. The other properties
say what becomes of the store once names have settled (`calm`): contributions are
one's own (`OwnDataSettles`), repositories have their names unless the row of
another repository keeps one of them or the account has more than a page of them
(`NamesSettle`: what GitHub does not answer with is never saved, so its name stays
what it was), logins come right for those
who keep logging in, but for a circle of accounts that have swapped theirs
(`LoginsSettle`). The exceptions are what the code does: see section 4. Two action
properties say that they are no accidents of a moment: a circle stays until GitHub
renames one of its accounts (`CirclesStay`), and a row whose repository is gone
keeps its name from any other for good (`BlocksStay`).

Fairness: once calm, each worker proceeds and the collector's loop goes on, as in
`SyncHealing`. `LoginsSettle` and `SyncsSucceed` assume of clients what they say
in their hypothesis: that they keep asking.

### Sessions

The server stores nothing of a session. A call of a tab has three moments: `Send`
takes the cookies of the jar along, the action of an endpoint reads them and the
clock and says which cookies the answer sets or clears, and `Arrive` applies that
to the jar as it is by then. Tabs share the jar; calls overlap, overtake each
other, are lost (`Lose`) or refused by the rate limiter (`Refuse`). Cookies die by
their MaxAge and tokens by their claim `exp` (`Tick`).

| Actions | Code |
|---|---|
| `State` | `auth.go:60-78` |
| `LoginRefused`, `LoginFails`, `Login` | `auth.go:80-154`: the state is compared and cleared, then the exchange may fail, then both cookies are set |
| `Logout`, `Refresh` | `auth.go:251-298` |
| `Act` | any endpoint behind `JWTMiddleware` (`middleware/auth.go`) |

A token is its claims, since only the server can sign; random states are
numbered. `AccessAge = AccessTime` and `RefreshAge = RefreshTime` is an
assumption that the code satisfies in two files (3600 seconds and an hour,
604800 seconds and seven days).
History variables record the account of the last login or logout that arrived
(`session`), whether a call older than that had the last word since (`late`), when
the tokens in the jar were made (`issued`) and the states of answered logins
(`spent`).

### RateLimiter and TokenBucket

Time is counted in ticks and tokens in what one tick refills, so all arithmetic
is on integers; the float64 of the code is taken as exact. `allow` reads the
clock twice (`Refill`, `Decide`), and the clock may run on between them, though
the mutex is held. The refinement mapping gives every address a level: a full
bucket if the map has forgotten it, the stored tokens plus the time since
`lastSeen` otherwise. It needs `Burst <= Idle`, which the code satisfies: a
bucket fills in 60 seconds (10 tokens at 10/60 per second, `main.go:70`), and
180 idle seconds pass before it is forgotten.

### Streaks

The days of the sorted slice are consecutive dates, so a day is its index. The
clock of the server may be a day off GitHub's calendar, in either direction. Each
iteration of both loops is a step. The behaviour ends when the function returns,
which is why this configuration does not check for deadlock.

## 3. Runs

| Run | Question | Bounds |
|---|---|---|
| `sync_races` | do the rankings follow, is a sync complete, does data go back, under interleavings alone? | 1 user, 2 repositories and pages of 1, 1 year, 1 handler and the collector, 1 change of GitHub's data |
| `sync_transfers` | what if a repository changes hands on GitHub? | 2 users, 1 repository, logins and toggles, no change of numbers |
| `sync_faults` | what if any call fails and the process crashes? does a statement ever meet a foreign key that refuses it? | 2 years, 1 repository that may appear and vanish, cooldown and clock of 1 |
| `sync_heals` | does the collector repair all that, against endless requests? can a job undo it? | 1 user, 1 repository, 1 change of GitHub's data |
| `sync_cooldown` | is a completed sync followed by a cooldown? | cooldown 2, clock to 4, failing calls |
| `sync_cooldown_promise` | is any sync? (no) | 2 handlers |
| `ranking_pages` | is a walk exact, does it descend, do rank numbers fit? | 3 rows, 2 columns, 2 values (so ties), pages of 1 or 2, one row at a time that is not listed |
| `rate_limiter` | is it a token bucket? is it generous enough? | 2 addresses, tokens of 2 units, buckets of 2 tokens, clock to 7 |
| `streaks` | are both streaks right? | all calendars up to 9 days |
| `identities` | whose data can a job hold, what does the store come to, and which obstacles stay? | 2 accounts, 3 logins, 2 repositories, pages of 1, 1 handler and the collector, in four worlds: 3 renames; 1 rename and 1 move of a repository; 2 moves; an account with 2 repositories and 1 move |
| `identities_syncs` | is a user who keeps asking for a sync served? (no) | the third world |
| `sessions` | whose session, how long, and how often does a state serve? | 2 accounts, 2 tabs, access tokens of 1 tick and refresh tokens of 2, clock to 3, 2 states |

Why these bounds are enough. Races of two jobs of a user need two workers: one
handler and the collector. A second user matters only through a repository that
moves, hence two users there. Partial failure needs two statements of a kind:
two years. A page that leaves something out needs two repositories and a page of
one; in the runs with one repository it fits. `sync_transfers` is about who owns a
row and who sees it, so the numbers rest there (`MaxVersion = 0`): that a save by
the new owner puts the old owner's ranking out of step is one of the exceptions of
`RankingFollowsSources` (`owed`), not something it could find. `sync_heals` has one user
and one repository, so the collector's way to the next user is left to
`identities`, where a round passes over users it cannot fetch, and `InReach` is
the only case there; `OnceHealedForEver` is proved for any number of users. Going back in time needs two
versions. The key comparison needs a tie, a row on each side of a page boundary
and one that moves: three rows. Forgetting an address needs a clock past `Idle`:
seven ticks, of which five make an address idle and two more pay for its next
token. Swapping two logins takes three renames by way of a third name; a name that
passes from one repository to another takes two moves; a repository that moves
while its owner is renamed takes one of each; an account with more than a page of
repositories needs two of them, under two names, and a move of one brings it back
to a page. (Repositories take the first of the two names only: a bound, `MCNext`.) For two tokens that
expire at different times, renewed once in between, three ticks; two states tell a
spent one from a new one; two tabs make any two calls overtake each other, and the
proof of `OneSession` covers any number.

The clock and GitHub's version are bounded by `MaxNow` and `MaxVersion`, renames
and moves by the worlds, states by `MaxStates`. The cooldown stands still
(`Cooldown = 0`) in `sync_races`, `sync_transfers` and `sync_heals`, so that every
sync is let through. Faults are `{}` in runs about interleavings alone, which then
show that interleavings alone explain what they find. Symmetry (addresses of the
rate limiter; tabs and accounts of sessions) is used for safety only.

## 4. What the code does not keep

`sync_cooldown_promise`: the API table (`README.md:43`) promises a cooldown of
five minutes and the refusal (`user.go:225`) says "sync available every 5
minutes". `updated_at` is compared at the start of a sync and written at its end,
so a second sync that arrives while the first is running, or after one that
failed, is let through at once. What does hold, and is checked, is that no sync
is let through within five minutes after one has *completed*.

`identities_syncs`: the same line of the table offers the synchronisation itself.
Repositories are found by id (`repository/repo.go:25`), `full_name` is UNIQUE
(`migrations/000001_init.up.sql:18`), and no row is ever removed. If a repository
leaves its name on GitHub, by deletion or by a move to somebody who is not
registered, and a new one is created under it, the upsert of the new one fails in
every sync: it answers `db_error` (`user.go:272`) before it has recalculated any
ranking, and will do so for ever. (A login ends there too. The collector goes on
and recalculates, so rankings wait for its next round; the repositories later
in the loop are not saved.)

`LoginsSettle` holds only with an exception that users would not expect, though no
line of the repository promises otherwise: two accounts that have swapped their
logins on GitHub each find their new one in the other's row (UNIQUE,
`migrations/000001_init.up.sql:3`), and `auth.go:123` refuses both, for ever
(`CirclesStay`).

## 5. Proofs

| Theorem | Module | Says |
|---|---|---|
| `TypeCorrect` | `SyncJobsProofs` | `TypeOK` of `SyncJobs` |
| `RankingIsDerived` | `SyncRankingProofs` | `RankingFollowsSources` |
| `RepoRankingIsDerived` | `SyncRankingProofs` | `RepoRankingFollowsSources` |
| `VisibilityIsKept` | `SyncDataProofs` | `VisibilityIsTheOwners` |
| `CooldownIsKept` | `SyncDataProofs` | `CooldownAfterSync` |
| `NoDataGoesBack` | `SyncDataProofs` | `NoRollback` |
| `SyncsAreWhole` | `SyncDataProofs` | `SyncIsComplete` |
| `ForeignKeysHold` | `SyncDataProofs` | `RowsHaveParents` |
| `HealedForGood` | `SyncRankingProofs` | `HealedStays` |
| `OnceHealedForEver` | `SyncRankingProofs` | in a calm world where GitHub's data rests, who is settled once is caught up for ever |
| `HealingIsOrdinary` | `SyncRankingProofs` | every behaviour of `SyncHealing` is one of `SyncJobs` |
| `WalksAreExact` | `RankingPagesProofs` | `TypeOK`, `NoRowTwice`, `NoRowMissed` |
| `WalksDescend` | `RankingPagesProofs` | `WalkDescends` |
| `RankedWalksAreWalks` | `RankingPagesProofs` | `RankNumbers` implements `RankingPages` |
| `RanksAreRight` | `RankingPagesProofs` | `RanksCountTheRowsAbove` |
| `LimiterIsATokenBucket` | `RateLimiterProofs` | `RateLimiter` implements `TokenBucket` |
| `WindowsArePaid` | `RateLimiterProofs` | `TypeOK`, `NoMoreThanPaid` |
| `PatienceIsRewarded` | `RateLimiterProofs` | `PatientIsAllowed` |
| `StreaksAreRight` | `StreaksProofs` | all properties of `Streaks` |
| `DataIsOnesOwn` | `IdentitiesProofs` | `TypeOK`, `ForeignDataMeansRenamed` |
| `CirclesAreForGood` | `IdentitiesProofs` | `CirclesStay` |
| `BlockadesAreForGood` | `IdentitiesProofs` | `BlocksStay` |
| `RightIsKept` | `IdentitiesProofs` | a right login and one's own contributions are not overwritten |
| `OneSession` | `SessionsProofs` | `TypeOK`, `OneUserPerJar`, `LastWordCounts` |
| `SessionsLast` | `SessionsProofs` | `StaysSignedIn` |
| `StatesServeOnce` | `SessionsProofs` | `StateIsSpent` |

Assumptions are the named ASSUMEs of the modules: constants have the sets their
comments say, `None` is none of the values it stands beside, ids are finite in
number, accounts begin with different logins, cookies live as long as their
tokens, and for the rate limiter `Cost <= Burst <= Idle`. No fairness is used.

The arguments:

* `TypeCorrect`: the part that is not obvious is `LocalsOK`, what a worker's
  locals hold at each call; without it `FetchYear` could look for the newest of
  no years. It is inductive as it stands.
* `RankingIsDerived`: a ranking row may be written from a snapshot that is no
  longer true, so the invariant says of each worker about to write what its
  snapshot is: current, or the worker is marked as overtaken (`overlap`) and its
  write leaves a debt, or someone else of the same user is still to recalculate.
  A change of the sources makes its worker `dirty`, and only the end of its
  recalculation clears that.
* `RepoRankingIsDerived`: a recalculation takes four steps, a read and a write of
  each of its statements, so the invariant (`InFlight`) says of a worker between
  them what it has read and done: what it is about to delete is what is private
  now; no private repository is ranked any more; what it is about to insert is
  what is public now. This holds unless the worker is marked as overtaken or
  another has the same user still to recalculate. Jobs of other users cannot
  disturb it, since a row has one owner (`OwnRows`, `Inside`), and a job of the
  same user that starts its recalculation meanwhile marks it (`Alone`).
* `VisibilityIsKept`: an action property; only `UpsertRepo` and `TogglePublic`
  touch `repositories`, and `LocalsOK` says that a toggle holds a row of its user.
* `CooldownIsKept`: the invariant (`CooldownInv`) is that the last completed sync
  of a user is no later than the stamp of the user's row, nor than now. Rows are
  only stamped with the present time (`UpdatedNow`), and a sync is let through only
  by the guard that compares the stamp (`AdmittedByGuard`).
* `NoDataGoesBack`: what a job has fetched is no older than what is stored for its
  user (`Ahead`) unless it is marked as crossed, since data is fetched as new as
  GitHub has it (`NothingNewer`) and any other job that saves marks it. So a save
  that turns anything back is one of a marked job. Each action shows that it leaves
  the others' comparisons alone or marks them (`Spares`), and its own in order.
* `SyncsAreWhole`: in the same invariant, `Saved` says at every call of a sync what
  is still to fetch and to save, and that the rest is stored as it was fetched.
* `ForeignKeysHold`: `RowsHaveParents` is not inductive, since the user a row is
  written for is a local of a job. The invariant (`ParentsInv`) adds that jobs, and
  the collector's list, name registered users, and that what a recalculation is
  about to insert was read from stored rows. No statement removes a row of `users`
  or `repositories` (`UsersRemain`).
* `HealedForGood`: every statement about a settled user writes what is there.
  Locals and snapshots are right by `Settled`; for the rest it needs two
  invariants: what a job has still to make of its years is what `Settled` speaks
  about (`FetchedInv`), and the recalculation of another user does not touch the
  rows of this one (`OwnRows`, of `RepoRankInv`).
* `OnceHealedForEver`: in a calm world no step lets a toggle through
  (`OrdinaryTogglesNothing`) or moves a repository, and GitHub's version is at its
  bound, so by the lemma under `HealedForGood` being settled is inductive
  (`RestStep`), and a settled user is caught up (`SettledIsCaughtUp`). That the
  moment comes at all is `CollectorHeals`.
* `WalksAreExact`: the invariant divides the rows by the cursor: above it every
  row has been returned or has risen; below it none has been returned but those
  that fell.
* `RanksAreRight`: an invariant of its own (`ShownInv`) says of every row that was
  returned that it still has the value it was shown with, or has risen, fallen or
  left since. By the invariant of `WalksAreExact`, a better row has been returned
  or has risen; so a row that counts above a new row of the page was shown above it,
  or has risen, or is not listed, and a row shown above it counts unless it has
  sunk. Each step with ranks is one of
  `RankingPages` (`RankedWalksAreWalks`), so the invariant carries over.
* `LimiterIsATokenBucket`: `allow` maps to a stutter (`Refill`) and to `Admit` or
  a stutter (`Decide`), `Cleanup` to a stutter, since an idle bucket is full by
  then: this is where `Burst <= Idle` is used. `WindowsArePaid` adds the
  accounting invariant: what was admitted plus what is left is at most what was
  there and what was refilled.
* `StreaksAreRight`: the loop invariants of the two loops.
* `DataIsOnesOwn`: logins on GitHub are different at any moment, and of a user who
  is not `stale` every name in flight (in a job, in the collector's round) and the
  stored one is the user's own; so whoever answers to it is the user. `UpToDate`
  is why a login clears the mark only if nothing older is under way.
* `CirclesAreForGood`, `BlockadesAreForGood`: a login changes one row, and in a
  circle the row in its way is not its own; a job writes only repositories that
  GitHub listed, and a blockade ends only with a write of one that it does not list.
  While the row has the name no other has it (`FullNamesApart`: the UNIQUE column).
* `RightIsKept`: by the same invariant, no name in flight of a user who is not stale is
  a wrong one, and what a job holds to be saved it has fetched (`YearsHeld`). It is
  the safety half of `OwnDataSettles`.
* `OneSession`: the invariant follows a token on its way, from the jar into a call,
  by a refresh into the cookies of an answer, and back into the jar. Everywhere
  both tokens go together (`BothOrNone`), and what is carried by a call that is not
  older than the last login or logout is of the account it left (`UpToDate`).
* `SessionsLast`: a token expires at the time it was made plus its lifetime, a
  cookie at the time it *arrived* plus the same, which is later; the invariant
  (`LastingInv`) says so of the jar, and of an answer under way that its tokens
  were made when its call was answered.
* `StatesServeOnce`: states are numbered as they are made, so one that an answer
  under way brings is new (`OfferIsNew`), one that is spent was seen before, and
  the answer that spends a state clears the cookie (`SpendingClears`).

Only model-checked: `CollectorHeals`, `OwnDataSettles`, `NamesSettle` and
`LoginsSettle`. They are liveness under fairness, which is out of the prover's
reach; `HealedForGood` with `OnceHealedForEver`, and `RightIsKept`, are the parts
of the first two that are not: that what has come right does not go wrong again.

## 6. Not modelled

* The numbers themselves: weights, sums, parsing of GitHub's answers. The OAuth
  exchange is a call that succeeds or fails.
* Cryptography (`service/auth.go`): signing, AES-GCM, hex. Tokens are taken as
  unforgeable; a failure is an error of the call that uses it.
* Attributes of cookies that no property turns on. `Logout` and `Login` clear
  cookies without `SameSite=None; Secure` while they were set with both; the model
  takes such an answer as accepted, as it is for a front end on the same site as
  the API, which is how `README.md` deploys the two.
* `RequireAuth` (`middleware/auth.go`): no route uses it.
* The event stream of a login. Writing to it cannot change what the job does,
  except that a disconnected client cancels the context, which is an error of the
  next call.
* Names in `SyncJobs`: there an account keeps its login and names are never used
  again, so every upsert can succeed. `CollectorHeals` holds under that
  restriction; `Identities` says what happens without it. A toggle, which finds its
  repository by name, is in `SyncJobs` only.
* Detail pages (`Me`, `MyRepos`, `Detail`): they read one statement after the other
  and format; their ranks are `RankOf` of `RankNumbers`.
* Calls that never return: the GraphQL clients have no timeout, and fairness
  assumes that calls end.
* Start-up, configuration, record types, deployment.

## 7. Plan

Done: all modules of section 2 and the theorems of section 5; every safety and
action property that a passing run checks is proved. Left:

1. The safety half of `NamesSettle`: that a stored name that is right stays right
   while names rest and nothing older is under way.
2. That a job takes a bounded number of steps, by a measure of what it has still
   to do that every call decreases: the step under `CollectorHeals` that needs no
   fairness.
3. `SyncIsComplete` for logins and for the collector, which pass over some errors.
4. Detail pages: the ranks of one page come from several statements, and could be
   compared with each other.
