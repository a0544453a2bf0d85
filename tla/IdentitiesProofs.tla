-------------------------- MODULE IdentitiesProofs --------------------------
(***************************************************************************)
(* Whose data a job can hold, for any number of accounts, repositories,    *)
(* names, handlers and renames.                                            *)
(*                                                                         *)
(* A job fetches by a login that it read somewhere: from GitHub, from the  *)
(* row of its user, from the collector's list.  Hence the invariant says   *)
(* of a user who is not stale that every place a job could take the login  *)
(* from has the right one, and that nobody else answers to it.             *)
(*                                                                         *)
(* The last sections are about what stays: obstacles under the UNIQUE      *)
(* columns, which no job removes, and right rows, which no job spoils.     *)
(***************************************************************************)
EXTENDS Identities, TLAPS

\* No two accounts share a login on GitHub.
LoginsApart == \A u, v \in Users : ghLogin[u] = ghLogin[v] => u = v

\* A login that has not registered its user has fetched nothing.
NothingYet == \A w \in Workers :
  At(w, "register") => job[w].years = None /\ job[w].repos = None

\* Where the login of a user is known, it is known right.
KnownRight(u) ==
  /\ login[u] \in {None, ghLogin[u]}
  /\ round[u] \in {None, ghLogin[u]}

\* A job of user u goes by the right login, and has fetched the right data.
RightJob(w, u) ==
  job[w] # None /\ job[w].user = u =>
    /\ job[w].name = ghLogin[u]
    /\ {job[w].years, job[w].repos} \subseteq {None, u}

NamesInv ==
  /\ TypeOK /\ LoginsApart /\ NothingYet
  /\ \A u \in Users \ stale :
       KnownRight(u) /\ \A w \in Workers : RightJob(w, u)

----------------------------------------------------------------------------
(* Types.                                                                  *)

\* What is not absent is a job, or a row.
LEMMA Present ==
  ASSUME TypeOK
  PROVE  /\ \A w \in Workers : job[w] # None => job[w] \in Job
         /\ \A r \in Repos : repositories[r] # None => repositories[r] \in RepoRow
         /\ \A r \in Repos : ghRepo[r] # None => ghRepo[r] \in Users \X Names
         /\ \A u \in Users : login[u] # None => login[u] \in Logins
         /\ \A u \in Users : round[u] # None => round[u] \in Logins
BY DEF TypeOK, Maybe

\* A worker's job may become another, or end.
LEMMA JobChanges ==
  ASSUME TypeOK, NEW w \in Workers, NEW j \in Maybe(Job), job' = [job EXCEPT ![w] = j]
  PROVE  /\ job' \in [Workers -> Maybe(Job)]
         /\ job'[w] = j
         /\ \A x \in Workers \ {w} : job'[x] = job[x]
BY DEF TypeOK

\* A new job is a job.
LEMMA NewJobIsAJob ==
  ASSUME NEW k \in {"login", "sync", "collect"}, NEW l \in Steps,
         NEW u \in Users, NEW n \in Logins
  PROVE  /\ NewJob(k, l, u, n) \in Job
         /\ NewJob(k, l, u, n) # None
BY IdentitiesAssumption DEF NewJob, Job, Maybe

\* What FetchRepos brings are repositories and full names.
LEMMA ReposAreNamed ==
  ASSUME TypeOK, NEW v \in Users
  PROVE  \A page \in FirstPage(v) : page \subseteq Repos \X FullNames
<1> SUFFICES ASSUME NEW r \in Repos, ghRepo[r] # None
             PROVE  FullName(r) \in FullNames
  BY DEF FirstPage, ReposOf
<1>1. ghRepo[r] \in Users \X Names
  BY Present
<1>2. ghRepo[r][1] \in Users /\ ghRepo[r][2] \in Names
  BY <1>1
<1>3. ghLogin[ghRepo[r][1]] \in Logins
  BY <1>2 DEF TypeOK
<1> QED BY <1>2, <1>3 DEF FullName, FullNames

\* How each call of a job changes it: what it holds stays of its type, and it
\* keeps its user and its login.
LEMMA JobProceeds ==
  ASSUME TypeOK, NEW w \in Workers, job[w] # None,
         Register(w) \/ FetchYears(w) \/ SaveYears(w) \/ FetchRepos(w) \/ SaveRepo(w)
  PROVE  \E j \in Job :
           /\ job' = [job EXCEPT ![w] = j]
           /\ j # None /\ j.at # "register"
           /\ j.user = job[w].user /\ j.name = job[w].name
           /\ j.years \in {None, job[w].years} \cup Holders(job[w].name)
           /\ j.repos \in {None, job[w].repos} \cup Holders(job[w].name)
<1> DEFINE J == job[w]
<1>1. J \in Job
  BY Present
<1>2. \A l \in Steps : [J EXCEPT !.at = l] \in Job
  BY <1>1 DEF Job
<1>3. Holders(J.name) \subseteq Users
  BY DEF Holders
<1>4. \A j \in Job : j # None
  BY IdentitiesAssumption
<1>5. CASE Register(w)
  <2> DEFINE j == [J EXCEPT !.at = "years"]
  <2>1. j \in Job
    BY <1>2 DEF Steps
  <2>2. job' = [job EXCEPT ![w] = j]
    BY <1>5 DEF Register
  <2>3. /\ j.user = J.user /\ j.name = J.name /\ j.at = "years"
        /\ j.years = J.years /\ j.repos = J.repos
    BY <1>1 DEF Job
  <2> HIDE DEF j
  <2> QED BY <1>4, <2>1, <2>2, <2>3
<1>6. CASE FetchYears(w)
  <2> DEFINE l == IF J.kind = "sync" THEN "repos" ELSE "save_years"
  <2>1. PICK v \in Holders(J.name) :
          job' = [job EXCEPT ![w].years = v, ![w].at = l]
    BY <1>6 DEF FetchYears
  <2> DEFINE j == [J EXCEPT !.years = v, !.at = l]
  <2>2. j \in Job
    BY <1>1, <1>3 DEF Job, Maybe, Steps
  <2>3. job' = [job EXCEPT ![w] = j]
    BY <2>1 DEF TypeOK
  <2>4. /\ j.user = J.user /\ j.name = J.name /\ j.at = l
        /\ j.years = v /\ j.repos = J.repos
    BY <1>1 DEF Job
  <2>5. l # "register"
    OBVIOUS
  <2> HIDE DEF j, l
  <2> QED BY <1>4, <2>2, <2>3, <2>4, <2>5
<1>7. CASE SaveYears(w)
  <2> DEFINE l == IF J.kind = "sync" THEN "save_repos" ELSE "repos"
             j == [J EXCEPT !.years = None, !.at = l]
  <2>1. job' = [job EXCEPT ![w].years = None, ![w].at = l]
    BY <1>7 DEF SaveYears
  <2>2. j \in Job
    BY <1>1 DEF Job, Maybe, Steps
  <2>3. job' = [job EXCEPT ![w] = j]
    BY <2>1 DEF TypeOK
  <2>4. /\ j.user = J.user /\ j.name = J.name /\ j.at = l
        /\ j.years = None /\ j.repos = J.repos
    BY <1>1 DEF Job
  <2>5. l # "register"
    OBVIOUS
  <2> HIDE DEF j, l
  <2> QED BY <1>4, <2>2, <2>3, <2>4, <2>5
<1>8. CASE FetchRepos(w)
  <2> DEFINE l == IF J.kind = "sync" THEN "save_years" ELSE "save_repos"
  <2>0. PICK v \in Holders(J.name) : \E page \in FirstPage(v) :
          job' = [job EXCEPT ![w].repos = v, ![w].todo = page, ![w].at = l]
    BY <1>8 DEF FetchRepos
  <2>1. PICK page \in FirstPage(v) :
          job' = [job EXCEPT ![w].repos = v, ![w].todo = page, ![w].at = l]
    BY <2>0
  <2> DEFINE j == [J EXCEPT !.repos = v, !.todo = page, !.at = l]
  <2>2. j \in Job
    BY <1>1, <1>3, ReposAreNamed DEF Job, Maybe, Steps
  <2>3. job' = [job EXCEPT ![w] = j]
    BY <2>1 DEF TypeOK
  <2>4. /\ j.user = J.user /\ j.name = J.name /\ j.at = l
        /\ j.years = J.years /\ j.repos = v
    BY <1>1 DEF Job
  <2>5. l # "register"
    OBVIOUS
  <2> HIDE DEF j, l
  <2> QED BY <1>4, <2>2, <2>3, <2>4, <2>5
<1>9. CASE SaveRepo(w)
  <2>1. PICK t \in J.todo : job' = [job EXCEPT ![w].todo = @ \ {t}]
    BY <1>9 DEF SaveRepo
  <2> DEFINE j == [J EXCEPT !.todo = @ \ {t}]
  <2>2. j \in Job
    BY <1>1 DEF Job
  <2>3. job' = [job EXCEPT ![w] = j]
    BY <2>1 DEF TypeOK
  <2>4. /\ j.user = J.user /\ j.name = J.name /\ j.at = J.at
        /\ j.years = J.years /\ j.repos = J.repos
    BY <1>1 DEF Job
  <2>5. J.at # "register"
    BY <1>9 DEF SaveRepo, At
  <2> HIDE DEF j
  <2> QED BY <1>4, <2>2, <2>3, <2>4, <2>5
<1> QED BY <1>5, <1>6, <1>7, <1>8, <1>9

\* A step in which worker w's job ends, and nothing else happens.
LEMMA JobEnds ==
  ASSUME TypeOK, NEW w \in Workers,
         RegisterFails(w) \/ Fail(w) \/ NotFound(w) \/ SaveRepoFails(w) \/ Done(w)
  PROVE  /\ job' = [job EXCEPT ![w] = None]
         /\ UNCHANGED <<github, calm, store, round, stale>>
BY DEF RegisterFails, Fail, NotFound, SaveRepoFails, Done, End, RoundAfterError

\* A step in which worker w begins a job of user u.
LEMMA JobBegins ==
  ASSUME TypeOK, NEW w \in Workers, NEW u \in Users,
         \/ LoginStart(w, u)
         \/ SyncStart(w, u)
         \/ w = Collector /\ CollectStart(u)
  PROVE  /\ \E k \in {"login", "sync", "collect"}, l \in Steps, n \in Logins :
              /\ n \in {ghLogin[u], login[u], round[u]}
              /\ job' = [job EXCEPT ![w] = NewJob(k, l, u, n)]
         /\ round' = round \/ round' = [round EXCEPT ![u] = None]
         /\ UNCHANGED <<github, calm, store, stale>>
<1>1. ghLogin[u] \in Logins
  BY DEF TypeOK
<1>2. CASE LoginStart(w, u)
  BY <1>1, <1>2 DEF LoginStart, Steps
<1>3. CASE SyncStart(w, u)
  BY <1>3, Present DEF SyncStart, Steps
<1>4. CASE w = Collector /\ CollectStart(u)
  BY <1>4, Present DEF CollectStart, Steps
<1> QED BY <1>2, <1>3, <1>4

LEMMA TypeInit ==
  ASSUME Init
  PROVE  TypeOK
<1>1. PICK o \in Worlds : ghRepo = o.repos /\ renames = o.renames /\ moves = o.moves
  BY DEF Init
<1>2. /\ o.repos \in [Repos -> Maybe(Users \X Names)]
      /\ o.renames \in Nat /\ o.moves \in Nat
  BY IdentitiesAssumption
<1> QED BY <1>1, <1>2, IdentitiesAssumption DEF Init, TypeOK, Maybe, NoRound

LEMMA TypeNext ==
  ASSUME TypeOK, [Next]_vars
  PROVE  TypeOK'
<1> USE DEF github, store
<1>1. ASSUME NEW w \in Workers, NEW u \in Users,
             LoginStart(w, u) \/ SyncStart(w, u) \/ (w = Collector /\ CollectStart(u))
      PROVE  TypeOK'
  <2>1. /\ \E k \in {"login", "sync", "collect"}, l \in Steps, n \in Logins :
             job' = [job EXCEPT ![w] = NewJob(k, l, u, n)]
        /\ round' = round \/ round' = [round EXCEPT ![u] = None]
        /\ UNCHANGED <<github, calm, store, stale>>
    BY <1>1, JobBegins
  <2>2. job' \in [Workers -> Maybe(Job)]
    BY <2>1, NewJobIsAJob, JobChanges DEF Maybe
  <2>3. round' \in [Users -> Maybe(Logins)]
    BY <2>1 DEF TypeOK, Maybe
  <2> QED BY <2>1, <2>2, <2>3 DEF TypeOK
<1>2. ASSUME NEW w \in Workers,
             RegisterFails(w) \/ Fail(w) \/ NotFound(w) \/ SaveRepoFails(w) \/ Done(w)
      PROVE  TypeOK'
  <2>1. /\ job' = [job EXCEPT ![w] = None]
        /\ UNCHANGED <<github, calm, store, round, stale>>
    BY <1>2, JobEnds
  <2>2. job' \in [Workers -> Maybe(Job)]
    BY <2>1 DEF TypeOK, Maybe
  <2> QED BY <2>1, <2>2 DEF TypeOK
<1>3. ASSUME NEW w \in Workers,
             Register(w) \/ FetchYears(w) \/ SaveYears(w) \/ FetchRepos(w) \/ SaveRepo(w)
      PROVE  TypeOK'
  <2>1. job[w] # None
    BY <1>3 DEF Register, FetchYears, SaveYears, FetchRepos, SaveRepo, At
  <2>2. job[w] \in Job
    BY <2>1, Present
  <2>3. job' \in [Workers -> Maybe(Job)]
    <3>1. PICK j \in Job : job' = [job EXCEPT ![w] = j]
      BY <1>3, <2>1, JobProceeds
    <3> QED BY <3>1, JobChanges DEF Maybe
  <2>4. CASE Register(w)
    <3>1. login' \in [Users -> Maybe(Logins)]
      BY <2>2, <2>4 DEF Register, Stored, TypeOK, Maybe, Job
    <3>2. stale' \subseteq Users
      BY <2>4 DEF Register, TypeOK
    <3> QED BY <2>3, <2>4, <3>1, <3>2 DEF Register, TypeOK
  <2>5. CASE FetchYears(w) \/ FetchRepos(w)
    BY <2>3, <2>5 DEF FetchYears, FetchRepos, TypeOK
  <2>6. CASE SaveYears(w)
    <3>1. contributions' \in [Users -> Maybe(Users)]
      BY <2>2, <2>6 DEF SaveYears, TypeOK, Job
    <3> QED BY <2>3, <2>6, <3>1 DEF SaveYears, TypeOK
  <2>7. CASE SaveRepo(w)
    <3>1. PICK t \in job[w].todo :
            repositories' = [repositories EXCEPT ![t[1]] =
              IF @ = None
              THEN [owner_id |-> job[w].user, full_name |-> t[2]]
              ELSE [@ EXCEPT !.full_name = NameAfter(@, t[2])]]
      BY <2>7 DEF SaveRepo
    <3>2. t[1] \in Repos /\ t[2] \in FullNames /\ job[w].user \in Users
      BY <2>2 DEF Job
    <3> DEFINE old == repositories[t[1]]
               new == IF old = None
                      THEN [owner_id |-> job[w].user, full_name |-> t[2]]
                      ELSE [old EXCEPT !.full_name = t[2]]
    <3>3. old = None \/ old \in RepoRow
      BY <3>2, Present
    <3>4. new \in RepoRow
      BY <3>2, <3>3 DEF RepoRow
    <3>5. repositories' = [repositories EXCEPT ![t[1]] = new]
      BY <3>1 DEF NameAfter
    <3> HIDE DEF new
    <3>6. repositories' \in [Repos -> Maybe(RepoRow)]
      BY <3>2, <3>4, <3>5 DEF TypeOK, Maybe
    <3> QED BY <2>3, <2>7, <3>6 DEF SaveRepo, TypeOK
  <2> QED BY <1>3, <2>4, <2>5, <2>6, <2>7
<1>4. CASE CollectorTick
  BY <1>4 DEF CollectorTick, TypeOK
<1>5. CASE Crash
  BY <1>5 DEF Crash, TypeOK, NoRound, Maybe
<1>6. ASSUME NEW u \in Users, NEW n \in Logins, Rename(u, n)
      PROVE  TypeOK'
  <2>1. ghLogin' \in [Users -> Logins] /\ stale' \subseteq Users
    BY <1>6 DEF Rename, TypeOK
  <2>2. renames' \in Nat
    BY <1>6 DEF Rename, TypeOK
  <2> QED BY <1>6, <2>1, <2>2 DEF Rename, TypeOK
<1>7. ASSUME NEW r \in Repos, NEW place \in Maybe(Users \X Names), RepoChange(r, place)
      PROVE  TypeOK'
  <2>1. ghRepo' \in [Repos -> Maybe(Users \X Names)]
    BY <1>7 DEF RepoChange, TypeOK
  <2>2. moves' \in Nat
    BY <1>7 DEF RepoChange, TypeOK
  <2> QED BY <1>7, <2>1, <2>2 DEF RepoChange, TypeOK
<1>8. CASE calm' = TRUE /\ UNCHANGED <<github, store, round, job, stale>>
  BY <1>8 DEF TypeOK
<1>9. CASE UNCHANGED vars
  BY <1>9 DEF TypeOK, vars
<1>10. Handlers \subseteq Workers /\ Collector \in Workers
  BY DEF Workers
<1> QED
  BY <1>1, <1>2, <1>3, <1>4, <1>5, <1>6, <1>7, <1>8, <1>9, <1>10
     DEF Next, Loop, Proceed, Disturbance

----------------------------------------------------------------------------
(* The invariant.                                                          *)

\* What the invariant says of the users who are not stale.
AllRight == \A u \in Users \ stale :
  KnownRight(u) /\ \A w \in Workers : RightJob(w, u)

LEMMA NamesInit ==
  ASSUME Init
  PROVE  NamesInv
<1>1. LoginsApart
  BY IdentitiesAssumption DEF Init, LoginsApart
<1>2. NothingYet
  BY DEF Init, NothingYet, At
<1>3. \A u \in Users : KnownRight(u) /\ \A w \in Workers : RightJob(w, u)
  BY DEF Init, KnownRight, RightJob, NoRound
<1> QED BY <1>1, <1>2, <1>3, TypeInit DEF NamesInv

\* A new job goes by a login that is known.
LEMMA BeginsRight ==
  ASSUME NamesInv, NEW w \in Workers, NEW u \in Users,
         LoginStart(w, u) \/ SyncStart(w, u) \/ (w = Collector /\ CollectStart(u))
  PROVE  LoginsApart' /\ NothingYet' /\ AllRight'
<1> USE DEF github, store
<1>1. PICK k \in {"login", "sync", "collect"}, l \in Steps, n \in Logins :
        /\ n \in {ghLogin[u], login[u], round[u]}
        /\ job' = [job EXCEPT ![w] = NewJob(k, l, u, n)]
  BY JobBegins DEF NamesInv
<1>2. /\ round' = round \/ round' = [round EXCEPT ![u] = None]
      /\ UNCHANGED <<github, calm, store, stale>>
  BY JobBegins DEF NamesInv
<1> DEFINE new == NewJob(k, l, u, n)
<1>3. /\ new.user = u /\ new.name = n /\ new.at = l
      /\ new.years = None /\ new.repos = None
  BY DEF NewJob
<1>4. job'[w] = new /\ \A x \in Workers \ {w} : job'[x] = job[x]
  <2>1. new \in Maybe(Job)
    BY NewJobIsAJob DEF Maybe
  <2> QED BY <1>1, <2>1, JobChanges DEF NamesInv
<1> HIDE DEF new
<1>5. LoginsApart'
  BY <1>2 DEF LoginsApart, NamesInv
<1>6. NothingYet'
  BY <1>3, <1>4 DEF NothingYet, At, NamesInv
<1>7. ASSUME NEW v \in Users \ stale
      PROVE  KnownRight(v)' /\ \A x \in Workers : RightJob(x, v)'
  <2>1. KnownRight(v) /\ \A x \in Workers : RightJob(x, v)
    BY DEF NamesInv
  <2>2. KnownRight(v)'
    BY <1>2, <2>1 DEF KnownRight, NamesInv, TypeOK
  <2>3. ASSUME v = u
        PROVE  n = ghLogin[v]
    BY <1>1, <2>1, <2>3, IdentitiesAssumption DEF KnownRight
  <2>4. RightJob(w, v)'
    BY <1>2, <1>3, <1>4, <2>3 DEF RightJob
  <2>5. \A x \in Workers \ {w} : RightJob(x, v)'
    BY <1>2, <1>4, <2>1 DEF RightJob
  <2> QED BY <2>2, <2>4, <2>5
<1> QED BY <1>2, <1>5, <1>6, <1>7 DEF AllRight

\* A job that ends leaves the others as they were.
LEMMA EndsRight ==
  ASSUME NamesInv, NEW w \in Workers,
         RegisterFails(w) \/ Fail(w) \/ NotFound(w) \/ SaveRepoFails(w) \/ Done(w)
  PROVE  LoginsApart' /\ NothingYet' /\ AllRight'
<1> USE DEF github, store
<1>1. /\ job' = [job EXCEPT ![w] = None]
      /\ UNCHANGED <<github, calm, store, round, stale>>
  BY JobEnds DEF NamesInv
<1>2. \A x \in Workers : job'[x] = job[x] \/ job'[x] = None
  BY <1>1 DEF NamesInv, TypeOK
<1>3. LoginsApart' /\ NothingYet'
  BY <1>1, <1>2 DEF LoginsApart, NothingYet, At, NamesInv
<1>4. AllRight'
  BY <1>1, <1>2 DEF AllRight, KnownRight, RightJob, NamesInv
<1> QED BY <1>3, <1>4

\* A call of a job under the right login brings the right data.
LEMMA ProceedsRight ==
  ASSUME NamesInv, NEW w \in Workers, job[w] # None,
         Register(w) \/ FetchYears(w) \/ SaveYears(w) \/ FetchRepos(w) \/ SaveRepo(w)
  PROVE  LoginsApart' /\ NothingYet' /\ AllRight'
<1> USE DEF github, store
<1>1. PICK j \in Job :
           /\ job' = [job EXCEPT ![w] = j]
           /\ j # None /\ j.at # "register"
           /\ j.user = job[w].user /\ j.name = job[w].name
           /\ j.years \in {None, job[w].years} \cup Holders(job[w].name)
           /\ j.repos \in {None, job[w].repos} \cup Holders(job[w].name)
  BY JobProceeds DEF NamesInv
<1>2. UNCHANGED <<github, calm, round>>
  BY DEF Register, FetchYears, SaveYears, FetchRepos, SaveRepo
<1>3. job'[w] = j /\ \A x \in Workers \ {w} : job'[x] = job[x]
  BY <1>1, JobChanges DEF NamesInv, Maybe
<1>4. LoginsApart'
  BY <1>2 DEF LoginsApart, NamesInv
<1>5. NothingYet'
  BY <1>1, <1>3 DEF NothingYet, At, NamesInv
<1>6. ASSUME NEW v \in Users, j.user = v, j.name = ghLogin[v],
             {job[w].years, job[w].repos} \subseteq {None, v}
      PROVE  RightJob(w, v)'
  <2>1. Holders(j.name) \subseteq {v}
    BY <1>6 DEF Holders, NamesInv, LoginsApart
  <2> QED BY <1>1, <1>2, <1>3, <1>6, <2>1 DEF RightJob
<1>7. ASSUME NEW v \in Users \ stale,
             login'[v] = login[v] \/ login'[v] = ghLogin[v]
      PROVE  KnownRight(v)' /\ \A x \in Workers : RightJob(x, v)'
  <2>1. KnownRight(v) /\ \A x \in Workers : RightJob(x, v)
    BY DEF NamesInv
  <2>2. KnownRight(v)'
    BY <1>2, <1>7, <2>1 DEF KnownRight
  <2>3. RightJob(w, v)'
    <3>1. CASE j.user = v
      BY <1>1, <1>6, <2>1, <3>1 DEF RightJob
    <3>2. CASE j.user # v
      BY <1>3, <3>2 DEF RightJob
    <3> QED BY <3>1, <3>2
  <2>4. \A x \in Workers \ {w} : RightJob(x, v)'
    BY <1>2, <1>3, <2>1 DEF RightJob
  <2> QED BY <2>2, <2>3, <2>4
<1>8. CASE FetchYears(w) \/ SaveYears(w) \/ FetchRepos(w) \/ SaveRepo(w)
  <2>1. login' = login /\ stale' = stale
    BY <1>8 DEF FetchYears, SaveYears, FetchRepos, SaveRepo
  <2> QED BY <1>4, <1>5, <1>7, <2>1 DEF AllRight
<1>9. CASE Register(w)
  <2>1. job[w] \in Job /\ At(w, "register")
    BY <1>9, Present DEF Register, NamesInv
  <2>2. PICK me \in Users, n \in Logins : job[w].user = me /\ job[w].name = n
    BY <2>1 DEF Job
  <2>3. /\ login'[me] = n /\ \A v \in Users \ {me} : login'[v] = login[v]
        /\ stale' = IF UpToDate(w) THEN stale \ {me} ELSE stale
    BY <1>9, <2>2 DEF Register, Stored, NamesInv, TypeOK
  <2>4. ASSUME NEW v \in Users \ stale
        PROVE  login'[v] = login[v] \/ login'[v] = ghLogin[v]
    <3>1. CASE v = me
      <4>1. RightJob(w, v)
        BY DEF NamesInv
      <4>2. n = ghLogin[v]
        BY <2>2, <3>1, <4>1 DEF RightJob
      <4> QED BY <2>3, <3>1, <4>2
    <3>2. CASE v # me
      BY <2>3, <3>2
    <3> QED BY <3>1, <3>2
  <2>5. \A v \in Users \ stale :
          KnownRight(v)' /\ \A x \in Workers : RightJob(x, v)'
    BY <1>7, <2>4
  <2>6. ASSUME UpToDate(w)
        PROVE  KnownRight(me)' /\ \A x \in Workers : RightJob(x, me)'
    <3>1. /\ n = ghLogin[me] /\ round[me] \in {None, ghLogin[me]}
          /\ \A x \in Workers \ {w} : job[x] = None \/ job[x].user # me
      BY <2>2, <2>6 DEF UpToDate
    <3>2. KnownRight(me)'
      BY <1>2, <2>3, <3>1 DEF KnownRight
    <3>3. job[w].years = None /\ job[w].repos = None
      BY <2>1 DEF NamesInv, NothingYet
    <3>4. RightJob(w, me)'
      BY <1>1, <1>6, <2>2, <3>1, <3>3
    <3>5. \A x \in Workers \ {w} : RightJob(x, me)'
      BY <1>3, <3>1 DEF RightJob
    <3> QED BY <3>2, <3>4, <3>5
  <2>7. AllRight'
    BY <2>3, <2>5, <2>6 DEF AllRight
  <2> QED BY <1>4, <1>5, <2>7
<1> QED BY <1>8, <1>9

\* GitHub, the collector's list and a crash.
LEMMA WorldRight ==
  ASSUME NamesInv,
         \/ CollectorTick \/ Crash
         \/ \E u \in Users, n \in Logins : Rename(u, n)
         \/ \E r \in Repos, place \in Maybe(Users \X Names) : RepoChange(r, place)
         \/ calm' = TRUE /\ UNCHANGED <<github, store, round, job, stale>>
         \/ UNCHANGED vars
  PROVE  LoginsApart' /\ NothingYet' /\ AllRight'
<1> USE DEF github, store
<1>1. CASE CollectorTick
  BY <1>1 DEF CollectorTick, NamesInv, LoginsApart, NothingYet, At, AllRight,
     KnownRight, RightJob
<1>2. CASE Crash
  BY <1>2 DEF Crash, NoRound, NamesInv, LoginsApart, NothingYet, At, AllRight,
     KnownRight, RightJob
<1>3. ASSUME NEW u \in Users, NEW n \in Logins, Rename(u, n)
      PROVE  LoginsApart' /\ NothingYet' /\ AllRight'
  <2>1. /\ ghLogin' = [ghLogin EXCEPT ![u] = n]
        /\ \A v \in Users : ghLogin[v] # n
        /\ stale' = stale \cup {u}
        /\ UNCHANGED <<store, round, job>>
    BY <1>3 DEF Rename, Holders
  <2>2. ghLogin'[u] = n /\ \A v \in Users \ {u} : ghLogin'[v] = ghLogin[v]
    BY <2>1 DEF NamesInv, TypeOK
  <2>3. LoginsApart'
    BY <2>1, <2>2 DEF NamesInv, LoginsApart
  <2>4. NothingYet'
    BY <2>1 DEF NamesInv, NothingYet, At
  <2>5. AllRight'
    BY <2>1, <2>2 DEF NamesInv, AllRight, KnownRight, RightJob
  <2> QED BY <2>3, <2>4, <2>5
<1>4. CASE \E r \in Repos, place \in Maybe(Users \X Names) : RepoChange(r, place)
  BY <1>4 DEF RepoChange, NamesInv, LoginsApart, NothingYet, At, AllRight,
     KnownRight, RightJob
<1>5. CASE calm' = TRUE /\ UNCHANGED <<github, store, round, job, stale>>
  BY <1>5 DEF NamesInv, LoginsApart, NothingYet, At, AllRight, KnownRight, RightJob
<1>6. CASE UNCHANGED vars
  BY <1>6 DEF vars, NamesInv, LoginsApart, NothingYet, At, AllRight, KnownRight, RightJob
<1> QED BY <1>1, <1>2, <1>3, <1>4, <1>5, <1>6

LEMMA NamesNext ==
  ASSUME NamesInv, [Next]_vars
  PROVE  NamesInv'
<1>1. TypeOK'
  BY TypeNext DEF NamesInv
<1>2. Handlers \subseteq Workers /\ Collector \in Workers
  BY DEF Workers
<1>3. ASSUME NEW w \in Workers,
             Register(w) \/ FetchYears(w) \/ SaveYears(w) \/ FetchRepos(w) \/ SaveRepo(w)
      PROVE  job[w] # None
  BY <1>3 DEF Register, FetchYears, SaveYears, FetchRepos, SaveRepo, At
<1>4. LoginsApart' /\ NothingYet' /\ AllRight'
  BY <1>2, <1>3, BeginsRight, EndsRight, ProceedsRight, WorldRight
     DEF Next, Loop, Proceed, Disturbance
<1> QED BY <1>1, <1>4 DEF NamesInv, AllRight

\* However often accounts swap names, and whatever jobs are under way, a job
\* holds the data of another account than its user's only while that user has
\* not logged in since being renamed, or an older job is not done.
THEOREM DataIsOnesOwn == Spec => [](TypeOK /\ ForeignDataMeansRenamed)
<1>1. Init => NamesInv
  BY NamesInit
<1>2. NamesInv /\ [Next]_vars => NamesInv'
  BY NamesNext
<1>3. NamesInv => TypeOK /\ ForeignDataMeansRenamed
  <2>1. ASSUME NamesInv, NEW w \in Workers, job[w] # None, job[w].user \notin stale
        PROVE  {job[w].years, job[w].repos} \subseteq {None, job[w].user}
    <3>1. job[w].user \in Users
      BY <2>1, Present DEF NamesInv, Job
    <3> QED BY <2>1, <3>1 DEF NamesInv, RightJob
  <2> QED BY <2>1 DEF NamesInv, ForeignDataMeansRenamed
<1> QED BY <1>1, <1>2, <1>3, PTL DEF Spec

----------------------------------------------------------------------------
(* What the UNIQUE columns put in each other's way.                        *)

\* A login that registers is under way already, or starts with the right name.
Registering(w) ==
  \/ job'[w] = job[w]
  \/ \E u \in Users : /\ job'[w].user = u /\ job'[w].name = ghLogin[u]
                      /\ ghLogin' = ghLogin

LEMMA RegisteringJobs ==
  ASSUME TypeOK, [Next]_vars, NEW w \in Workers, At(w, "register")'
  PROVE  Registering(w)
<1> USE DEF github, store
<1>0. job'[w] # None /\ job'[w].at = "register"
  BY DEF At
<1>1. ASSUME NEW x \in Workers, NEW u \in Users, LoginStart(x, u)
      PROVE  Registering(w)
  <2> DEFINE j == NewJob("login", "register", u, ghLogin[u])
  <2>1. job' = [job EXCEPT ![x] = j] /\ ghLogin' = ghLogin
    BY <1>1 DEF LoginStart
  <2>2. j.user = u /\ j.name = ghLogin[u]
    BY DEF NewJob
  <2> HIDE DEF j
  <2>3. job'[w] = j \/ job'[w] = job[w]
    BY <2>1 DEF TypeOK
  <2> QED BY <2>1, <2>2, <2>3 DEF Registering
<1>2. ASSUME NEW x \in Workers, NEW u \in Users,
             SyncStart(x, u) \/ (x = Collector /\ CollectStart(u))
      PROVE  Registering(w)
  <2>1. PICK k \in {"sync", "collect"}, n \in {login[u], round[u]} :
          job' = [job EXCEPT ![x] = NewJob(k, "years", u, n)]
    BY <1>2 DEF SyncStart, CollectStart
  <2> DEFINE j == NewJob(k, "years", u, n)
  <2>2. j.at = "years"
    BY DEF NewJob
  <2>3. job' = [job EXCEPT ![x] = j]
    BY <2>1
  <2> HIDE DEF j
  <2>4. job'[w] = j \/ job'[w] = job[w]
    BY <2>3 DEF TypeOK
  <2> QED BY <1>0, <2>2, <2>4 DEF Registering
<1>3. ASSUME NEW x \in Workers,
             Register(x) \/ FetchYears(x) \/ SaveYears(x) \/ FetchRepos(x) \/ SaveRepo(x)
      PROVE  Registering(w)
  <2>1. job[x] # None
    BY <1>3 DEF Register, FetchYears, SaveYears, FetchRepos, SaveRepo, At
  <2>2. PICK j \in Job : job' = [job EXCEPT ![x] = j] /\ j.at # "register"
    BY <1>3, <2>1, JobProceeds
  <2>3. job'[w] = j \/ job'[w] = job[w]
    BY <2>2 DEF TypeOK
  <2> QED BY <1>0, <2>2, <2>3 DEF Registering
<1>4. ASSUME NEW x \in Workers,
             RegisterFails(x) \/ Fail(x) \/ NotFound(x) \/ SaveRepoFails(x) \/ Done(x)
      PROVE  Registering(w)
  <2>1. job' = [job EXCEPT ![x] = None]
    BY <1>4, JobEnds
  <2>2. job'[w] = None \/ job'[w] = job[w]
    BY <2>1 DEF TypeOK
  <2> QED BY <1>0, <2>2 DEF Registering
<1>5. CASE Crash
  BY <1>0, <1>5 DEF Crash, Registering
<1>6. CASE \/ CollectorTick
           \/ \E u \in Users, n \in Logins : Rename(u, n)
           \/ \E r \in Repos, place \in Maybe(Users \X Names) : RepoChange(r, place)
           \/ calm' = TRUE /\ UNCHANGED <<github, store, round, job, stale>>
           \/ UNCHANGED vars
  BY <1>6 DEF CollectorTick, Rename, RepoChange, vars, Registering
<1>7. Handlers \subseteq Workers /\ Collector \in Workers
  BY DEF Workers
<1>8. ASSUME NEW x \in Workers, Proceed(x) PROVE Registering(w)
  BY <1>3, <1>4, <1>8 DEF Proceed
<1>9. CASE Loop
  BY <1>2, <1>6, <1>7, <1>9 DEF Loop
<1>10. CASE Disturbance
  BY <1>4, <1>5, <1>6, <1>10 DEF Disturbance
<1> QED
  BY <1>1, <1>2, <1>6, <1>7, <1>8, <1>9, <1>10 DEF Next

\* Only the upsert of a login writes users.login.
LEMMA LoginsWritten ==
  ASSUME TypeOK, [Next]_vars, login' # login
  PROVE  \E w \in Workers : Register(w)
<1> USE DEF github, store
<1>1. ASSUME NEW w \in Workers,
             RegisterFails(w) \/ Fail(w) \/ NotFound(w) \/ SaveRepoFails(w) \/ Done(w)
      PROVE  login' = login
  BY <1>1, JobEnds
<1>2. Handlers \subseteq Workers /\ Collector \in Workers
  BY DEF Workers
<1> QED
  BY <1>1, <1>2 DEF Next, Loop, Proceed, Disturbance, LoginStart, SyncStart, CollectorTick,
     CollectStart, FetchYears, SaveYears, FetchRepos, SaveRepo, Crash, Rename, RepoChange, vars

LEMMA CirclesStep ==
  ASSUME TypeOK, [Next]_vars, NEW S \in SUBSET Users, Stuck(S),
         \A u \in S : ghLogin'[u] = ghLogin[u]
  PROVE  Stuck(S)' /\ \A u \in S : login'[u] = login[u]
<1>1. \A u \in S : \E v \in S \ {u} : login[v] = ghLogin[u]
  BY DEF Stuck, Deadlocked
<1>2. ASSUME NEW w \in Workers, Register(w), NEW u \in S
      PROVE  login'[u] = login[u]
  <2>1. job[w] \in Job /\ At(w, "register") /\ ~LoginTaken(job[w].user, job[w].name)
    BY <1>2, Present DEF Register, At
  <2>2. PICK me \in Users, n \in Logins : job[w].user = me /\ job[w].name = n
    BY <2>1 DEF Job
  <2>3. me \notin S
    <3>1. SUFFICES ASSUME me \in S PROVE FALSE
      OBVIOUS
    <3>2. n = ghLogin[me]
      BY <2>1, <2>2, <3>1 DEF Stuck
    <3>3. PICK v \in S \ {me} : login[v] = n
      BY <1>1, <3>1, <3>2
    <3> QED BY <2>1, <2>2, <3>3 DEF LoginTaken
  <2>4. \A v \in Users \ {me} : login'[v] = login[v]
    BY <1>2, <2>2 DEF Register, TypeOK
  <2> QED BY <2>3, <2>4
<1>3. \A u \in S : login'[u] = login[u]
  BY <1>2, LoginsWritten
<1>4. Deadlocked(S)'
  BY <1>1, <1>3 DEF Deadlocked
<1>5. ASSUME NEW w \in Workers, At(w, "register")', job'[w].user \in S
      PROVE  job'[w].name = ghLogin'[job'[w].user]
  <2>1. CASE job'[w] = job[w]
    BY <1>5, <2>1 DEF Stuck, At
  <2>2. CASE \E u \in Users : /\ job'[w].user = u /\ job'[w].name = ghLogin[u]
                              /\ ghLogin' = ghLogin
    BY <2>2
  <2> QED BY <1>5, <2>1, <2>2, RegisteringJobs DEF Registering
<1> QED BY <1>3, <1>4, <1>5 DEF Stuck

\* Any number of accounts that have taken each other's logins stay locked out
\* until GitHub renames one of them (CirclesStay).
THEOREM CirclesAreForGood == Spec => CirclesStay
<1>1. TypeOK /\ [Next]_vars =>
        [\A S \in SUBSET Users : Stuck(S) =>
           \/ \E u \in S : ghLogin'[u] # ghLogin[u]
           \/ Stuck(S)' /\ \A u \in S : login'[u] = login[u]]_vars
  BY CirclesStep
<1>2. Init => TypeOK
  BY TypeInit
<1>3. TypeOK /\ [Next]_vars => TypeOK'
  BY TypeNext
<1> QED BY <1>1, <1>2, <1>3, PTL DEF Spec, CirclesStay

\* Only a turn of repoRepo.UpsertMany writes repositories.
LEMMA RowsWritten ==
  ASSUME TypeOK, [Next]_vars, repositories' # repositories
  PROVE  \E w \in Workers : SaveRepo(w)
<1> USE DEF github, store
<1>1. ASSUME NEW w \in Workers,
             RegisterFails(w) \/ Fail(w) \/ NotFound(w) \/ SaveRepoFails(w) \/ Done(w)
      PROVE  repositories' = repositories
  BY <1>1, JobEnds
<1>2. Handlers \subseteq Workers /\ Collector \in Workers
  BY DEF Workers
<1> QED
  BY <1>1, <1>2 DEF Next, Loop, Proceed, Disturbance, LoginStart, SyncStart, CollectorTick,
     CollectStart, Register, FetchYears, SaveYears, FetchRepos, Crash, Rename, RepoChange, vars

\* It writes one row, with a name that no other row has.
LEMMA RowWritten ==
  ASSUME TypeOK, NEW w \in Workers, SaveRepo(w)
  PROVE  \E t \in Repos \X FullNames :
           /\ job[w] # None /\ t \in job[w].todo /\ ~FullNameTaken(t[1], t[2])
           /\ repositories'[t[1]] # None /\ repositories'[t[1]].full_name = t[2]
           /\ \A q \in Repos \ {t[1]} : repositories'[q] = repositories[q]
<1>1. job[w] # None /\ job[w] \in Job
  BY Present DEF SaveRepo, At
<1>2. PICK t \in job[w].todo :
        /\ ~FullNameTaken(t[1], t[2])
        /\ repositories' = [repositories EXCEPT ![t[1]] =
              IF @ = None
              THEN [owner_id |-> job[w].user, full_name |-> t[2]]
              ELSE [@ EXCEPT !.full_name = NameAfter(@, t[2])]]
  BY DEF SaveRepo
<1>3. /\ t \in Repos \X FullNames /\ t[1] \in Repos /\ t[2] \in FullNames
      /\ job[w].user \in Users
  BY <1>1 DEF Job
<1> DEFINE old == repositories[t[1]]
           new == IF old = None
                  THEN [owner_id |-> job[w].user, full_name |-> t[2]]
                  ELSE [old EXCEPT !.full_name = t[2]]
<1>4. old = None \/ old \in RepoRow
  BY <1>3, Present
<1>5. new \in RepoRow /\ new.full_name = t[2]
  BY <1>3, <1>4 DEF RepoRow
<1>6. repositories' = [repositories EXCEPT ![t[1]] = new]
  BY <1>2 DEF NameAfter
<1>7. new # None
  BY <1>5, IdentitiesAssumption
<1> HIDE DEF new
<1>8. repositories'[t[1]] = new /\ \A q \in Repos \ {t[1]} : repositories'[q] = repositories[q]
  BY <1>3, <1>6 DEF TypeOK
<1> QED BY <1>1, <1>2, <1>3, <1>5, <1>7, <1>8

\* What a job is to write it had to write before, or GitHub has just listed.
Listing(w) ==
  job'[w] # None => \A t \in job'[w].todo :
    \/ job[w] # None /\ t \in job[w].todo
    \/ ghRepo[t[1]] # None

LEMMA TodoStep ==
  ASSUME TypeOK, [Next]_vars, NEW w \in Workers
  PROVE  Listing(w)
<1> USE DEF github, store
<1>0. ASSUME job'[w] = job[w] \/ job'[w] = None PROVE Listing(w)
  BY <1>0 DEF Listing
<1>1. ASSUME NEW x \in Workers, NEW u \in Users,
             LoginStart(x, u) \/ SyncStart(x, u) \/ (x = Collector /\ CollectStart(u))
      PROVE  Listing(w)
  <2>1. PICK k \in {"login", "sync", "collect"}, l \in Steps, n \in Logins :
          job' = [job EXCEPT ![x] = NewJob(k, l, u, n)]
    BY <1>1, JobBegins
  <2> DEFINE j == NewJob(k, l, u, n)
  <2>2. j.todo = {}
    BY DEF NewJob
  <2>3. job' = [job EXCEPT ![x] = j]
    BY <2>1
  <2> HIDE DEF j
  <2>4. job'[w] = j \/ job'[w] = job[w]
    BY <2>3 DEF TypeOK
  <2> QED BY <2>2, <2>4 DEF Listing
<1>2. ASSUME NEW x \in Workers,
             RegisterFails(x) \/ Fail(x) \/ NotFound(x) \/ SaveRepoFails(x) \/ Done(x)
      PROVE  Listing(w)
  <2>1. job' = [job EXCEPT ![x] = None]
    BY <1>2, JobEnds
  <2>2. job'[w] = None \/ job'[w] = job[w]
    BY <2>1 DEF TypeOK
  <2> QED BY <1>0, <2>2
<1>3. ASSUME NEW x \in Workers, x # w,
             Register(x) \/ FetchYears(x) \/ SaveYears(x) \/ FetchRepos(x) \/ SaveRepo(x)
      PROVE  Listing(w)
  <2>1. job[x] # None
    BY <1>3 DEF Register, FetchYears, SaveYears, FetchRepos, SaveRepo, At
  <2>2. PICK j \in Job : job' = [job EXCEPT ![x] = j]
    BY <1>3, <2>1, JobProceeds
  <2>3. job'[w] = job[w]
    BY <1>3, <2>2 DEF TypeOK
  <2> QED BY <1>0, <2>3
<1>4. ASSUME Register(w) \/ FetchYears(w) \/ SaveYears(w)
      PROVE  Listing(w)
  <2>1. job[w] # None /\ job[w] \in Job
    BY <1>4, Present DEF Register, FetchYears, SaveYears, At
  <2>2. CASE Register(w)
    BY <2>1, <2>2 DEF Register, TypeOK, Job, Listing
  <2>3. CASE FetchYears(w)
    BY <2>1, <2>3 DEF FetchYears, TypeOK, Job, Listing
  <2>4. CASE SaveYears(w)
    BY <2>1, <2>4 DEF SaveYears, TypeOK, Job, Listing
  <2> QED BY <1>4, <2>2, <2>3, <2>4
<1>5. ASSUME FetchRepos(w) PROVE Listing(w)
  <2>1. job[w] # None /\ job[w] \in Job
    BY <1>5, Present DEF FetchRepos, At
  <2>2. PICK v \in Users : \E page \in FirstPage(v) : job'[w].todo = page
    BY <1>5, <2>1 DEF FetchRepos, Holders, TypeOK, Job
  <2>3. PICK page \in FirstPage(v) : job'[w].todo = page
    BY <2>2
  <2>4. \A t \in page : ghRepo[t[1]] # None
    BY DEF FirstPage, ReposOf
  <2> QED BY <2>3, <2>4 DEF Listing
<1>6. ASSUME SaveRepo(w) PROVE Listing(w)
  <2>1. job[w] # None /\ job[w] \in Job
    BY <1>6, Present DEF SaveRepo, At
  <2>2. PICK t \in job[w].todo : job' = [job EXCEPT ![w].todo = @ \ {t}]
    BY <1>6 DEF SaveRepo
  <2>3. job'[w].todo = job[w].todo \ {t}
    BY <2>1, <2>2 DEF TypeOK, Job
  <2> QED BY <2>1, <2>3 DEF Listing
<1>7. CASE \/ CollectorTick \/ Crash
           \/ \E u \in Users, n \in Logins : Rename(u, n)
           \/ \E r \in Repos, place \in Maybe(Users \X Names) : RepoChange(r, place)
           \/ calm' = TRUE /\ UNCHANGED <<github, store, round, job, stale>>
           \/ UNCHANGED vars
  <2>1. job'[w] = job[w] \/ job'[w] = None
    BY <1>7 DEF CollectorTick, Crash, Rename, RepoChange, vars
  <2> QED BY <1>0, <2>1
<1>8. Handlers \subseteq Workers /\ Collector \in Workers
  BY DEF Workers
<1>9. ASSUME NEW x \in Workers, Proceed(x) PROVE Listing(w)
  BY <1>2, <1>3, <1>4, <1>5, <1>6, <1>9 DEF Proceed
<1>10. CASE Loop
  BY <1>1, <1>7, <1>8, <1>10 DEF Loop
<1>11. CASE Disturbance
  BY <1>2, <1>7, <1>11 DEF Disturbance
<1> QED
  BY <1>1, <1>7, <1>8, <1>9, <1>10, <1>11 DEF Next

\* UNIQUE (full_name): no two rows have the same name.
FullNamesApart == \A q, r \in Repos :
  q # r /\ repositories[q] # None /\ repositories[r] # None =>
    repositories[q].full_name # repositories[r].full_name

LEMMA FullNamesStep ==
  ASSUME TypeOK, FullNamesApart, [Next]_vars
  PROVE  FullNamesApart'
<1>1. CASE repositories' = repositories
  BY <1>1 DEF FullNamesApart
<1>2. ASSUME NEW w \in Workers, SaveRepo(w)
      PROVE  FullNamesApart'
  <2>1. PICK t \in Repos \X FullNames :
           /\ ~FullNameTaken(t[1], t[2])
           /\ repositories'[t[1]] # None /\ repositories'[t[1]].full_name = t[2]
           /\ \A q \in Repos \ {t[1]} : repositories'[q] = repositories[q]
    BY <1>2, RowWritten
  <2>2. \A q \in Repos \ {t[1]} : repositories[q] # None => repositories[q].full_name # t[2]
    BY <2>1 DEF FullNameTaken
  <2> QED BY <2>1, <2>2 DEF FullNamesApart
<1> QED BY <1>1, <1>2, RowsWritten

\* What GitHub leaves alone in a step that does not lift a blockade.
LeftAlone(q, r) ==
  /\ ghRepo'[q] = ghRepo[q] /\ ghRepo'[r] = ghRepo[r]
  /\ ghLogin'[ghRepo[r][1]] = ghLogin[ghRepo[r][1]]

LEMMA BlocksStep ==
  ASSUME TypeOK, FullNamesApart, [Next]_vars, NEW q \in Repos, NEW r \in Repos,
         Blocks(q, r), LeftAlone(q, r)
  PROVE  /\ Blocks(q, r)'
         /\ repositories'[r] # None => repositories'[r].full_name # FullName(r)
<1>1. FullName(r)' = FullName(r) /\ q # r
  BY DEF FullName, LeftAlone, Blocks
<1>2. repositories'[q] = repositories[q]
  <2>1. ASSUME NEW w \in Workers, SaveRepo(w)
        PROVE  repositories'[q] = repositories[q]
    <3>1. PICK t \in Repos \X FullNames :
            /\ job[w] # None /\ t \in job[w].todo
            /\ \A p \in Repos \ {t[1]} : repositories'[p] = repositories[p]
      BY <2>1, RowWritten
    <3> QED BY <3>1 DEF Blocks
  <2> QED BY <2>1, RowsWritten
<1>3. ASSUME NEW w \in Workers, job'[w] # None, NEW t \in job'[w].todo
      PROVE  t[1] # q
  BY <1>3, TodoStep DEF Blocks, Listing
<1>4. Blocks(q, r)'
  BY <1>1, <1>2, <1>3 DEF Blocks, LeftAlone
<1>5. FullNamesApart'
  BY FullNamesStep
<1> QED BY <1>1, <1>2, <1>4, <1>5 DEF Blocks, FullNamesApart

\* A repository whose name is kept by the row of one that is gone can not be
\* stored under it, with any number of repositories and jobs, until GitHub
\* changes one of the two (BlocksStay).
THEOREM BlockadesAreForGood == Spec => BlocksStay
<1>1. TypeOK /\ FullNamesApart /\ [Next]_vars =>
        [\A q, r \in Repos : Blocks(q, r) =>
           \/ ghRepo'[q] # ghRepo[q] \/ ghRepo'[r] # ghRepo[r]
           \/ ghLogin'[ghRepo[r][1]] # ghLogin[ghRepo[r][1]]
           \/ /\ Blocks(q, r)'
              /\ repositories'[r] # None => repositories'[r].full_name # FullName(r)]_vars
  BY BlocksStep DEF LeftAlone
<1>2. Init => TypeOK /\ FullNamesApart
  BY TypeInit DEF Init, FullNamesApart
<1>3. TypeOK /\ FullNamesApart /\ [Next]_vars => TypeOK' /\ FullNamesApart'
  BY TypeNext, FullNamesStep
<1> QED BY <1>1, <1>2, <1>3, PTL DEF Spec, BlocksStay

----------------------------------------------------------------------------
(* What is right stays right.                                              *)

\* A job that is about to save contributions has fetched some.
YearsHeld(w) ==
  (/\ job[w] # None
   /\ job[w].at = "save_years" \/ (job[w].at = "repos" /\ job[w].kind = "sync")) =>
    job[w].years # None

LEMMA YearsHeldStep ==
  ASSUME TypeOK, [Next]_vars, NEW w \in Workers, YearsHeld(w)
  PROVE  YearsHeld(w)'
<1> USE DEF github, store
<1>0. ASSUME job'[w] = job[w] \/ job'[w] = None PROVE YearsHeld(w)'
  BY <1>0 DEF YearsHeld
<1>1. ASSUME NEW x \in Workers, NEW u \in Users, NEW k \in {"login", "sync", "collect"},
             NEW l \in {"register", "years"}, NEW n,
             job' = [job EXCEPT ![x] = NewJob(k, l, u, n)]
      PROVE  YearsHeld(w)'
  <2> DEFINE j == NewJob(k, l, u, n)
  <2>1. j.at \in {"register", "years"}
    BY DEF NewJob
  <2> HIDE DEF j
  <2>2. job'[w] = j \/ job'[w] = job[w]
    BY <1>1 DEF TypeOK, j
  <2> QED BY <1>0, <2>1, <2>2 DEF YearsHeld
<1>2. ASSUME NEW x \in Workers, NEW u \in Users,
             LoginStart(x, u) \/ SyncStart(x, u) \/ (x = Collector /\ CollectStart(u))
      PROVE  YearsHeld(w)'
  <2>1. \E k \in {"login", "sync", "collect"}, l \in {"register", "years"}, n \in {ghLogin[u], login[u], round[u]} :
          job' = [job EXCEPT ![x] = NewJob(k, l, u, n)]
    BY <1>2 DEF LoginStart, SyncStart, CollectStart
  <2> QED BY <1>1, <2>1
<1>3. ASSUME NEW x \in Workers,
             RegisterFails(x) \/ Fail(x) \/ NotFound(x) \/ SaveRepoFails(x) \/ Done(x)
      PROVE  YearsHeld(w)'
  <2>1. job' = [job EXCEPT ![x] = None]
    BY <1>3, JobEnds
  <2>2. job'[w] = None \/ job'[w] = job[w]
    BY <2>1 DEF TypeOK
  <2> QED BY <1>0, <2>2
<1>4. ASSUME NEW x \in Workers, x # w,
             Register(x) \/ FetchYears(x) \/ SaveYears(x) \/ FetchRepos(x) \/ SaveRepo(x)
      PROVE  YearsHeld(w)'
  <2>1. job[x] # None
    BY <1>4 DEF Register, FetchYears, SaveYears, FetchRepos, SaveRepo, At
  <2>2. PICK j \in Job : job' = [job EXCEPT ![x] = j]
    BY <1>4, <2>1, JobProceeds
  <2>3. job'[w] = job[w]
    BY <1>4, <2>2 DEF TypeOK
  <2> QED BY <1>0, <2>3
<1>5. ASSUME Register(w) \/ FetchYears(w) \/ SaveYears(w) \/ FetchRepos(w) \/ SaveRepo(w)
      PROVE  YearsHeld(w)'
  <2>1. job[w] # None /\ job[w] \in Job
    BY <1>5, Present DEF Register, FetchYears, SaveYears, FetchRepos, SaveRepo, At
  <2>2. CASE Register(w)
    <3>1. job'[w].at = "years"
      BY <2>1, <2>2 DEF Register, TypeOK, Job
    <3> QED BY <3>1 DEF YearsHeld
  <2>3. CASE FetchYears(w)
    <3>1. PICK v \in Users : job'[w].years = v
      BY <2>1, <2>3 DEF FetchYears, Holders, TypeOK, Job
    <3> QED BY <3>1, IdentitiesAssumption DEF YearsHeld
  <2>4. CASE SaveYears(w)
    <3> DEFINE l == IF job[w].kind = "sync" THEN "save_repos" ELSE "repos"
    <3>1. job'[w].at = l /\ job'[w].kind = job[w].kind
      BY <2>1, <2>4 DEF SaveYears, TypeOK, Job
    <3> QED BY <3>1 DEF YearsHeld
  <2>5. CASE FetchRepos(w)
    <3> DEFINE l == IF job[w].kind = "sync" THEN "save_years" ELSE "save_repos"
    <3>1. /\ job'[w].at = l /\ job'[w].kind = job[w].kind
          /\ job'[w].years = job[w].years
      BY <2>1, <2>5 DEF FetchRepos, TypeOK, Job
    <3>2. job[w].at = "repos"
      BY <2>5 DEF FetchRepos, At
    <3> QED BY <2>1, <3>1, <3>2 DEF YearsHeld
  <2>6. CASE SaveRepo(w)
    <3>1. PICK t \in job[w].todo : job' = [job EXCEPT ![w].todo = @ \ {t}]
      BY <2>6 DEF SaveRepo
    <3>2. job'[w].at = job[w].at
      BY <2>1, <3>1 DEF TypeOK, Job
    <3>3. job[w].at = "save_repos"
      BY <2>6 DEF SaveRepo, At
    <3> QED BY <3>2, <3>3 DEF YearsHeld
  <2> QED BY <1>5, <2>2, <2>3, <2>4, <2>5, <2>6
<1>6. CASE \/ CollectorTick \/ Crash
           \/ \E u \in Users, n \in Logins : Rename(u, n)
           \/ \E r \in Repos, place \in Maybe(Users \X Names) : RepoChange(r, place)
           \/ calm' = TRUE /\ UNCHANGED <<github, store, round, job, stale>>
           \/ UNCHANGED vars
  <2>1. job'[w] = job[w] \/ job'[w] = None
    BY <1>6 DEF CollectorTick, Crash, Rename, RepoChange, vars
  <2> QED BY <1>0, <2>1
<1>7. Handlers \subseteq Workers /\ Collector \in Workers
  BY DEF Workers
<1>8. ASSUME NEW x \in Workers, Proceed(x) PROVE YearsHeld(w)'
  BY <1>3, <1>4, <1>5, <1>8 DEF Proceed
<1>9. CASE Loop
  BY <1>2, <1>6, <1>7, <1>9 DEF Loop
<1>10. CASE Disturbance
  BY <1>3, <1>6, <1>10 DEF Disturbance
<1> QED
  BY <1>2, <1>6, <1>7, <1>8, <1>9, <1>10 DEF Next

\* Only SaveYears writes contributions.
LEMMA YearsWritten ==
  ASSUME TypeOK, [Next]_vars, contributions' # contributions
  PROVE  \E w \in Workers : SaveYears(w)
<1> USE DEF github, store
<1>1. ASSUME NEW w \in Workers,
             RegisterFails(w) \/ Fail(w) \/ NotFound(w) \/ SaveRepoFails(w) \/ Done(w)
      PROVE  contributions' = contributions
  BY <1>1, JobEnds
<1>2. Handlers \subseteq Workers /\ Collector \in Workers
  BY DEF Workers
<1> QED
  BY <1>1, <1>2 DEF Next, Loop, Proceed, Disturbance, LoginStart, SyncStart, CollectorTick,
     CollectStart, Register, FetchYears, SaveRepo, FetchRepos, Crash, Rename, RepoChange, vars

\* What the store has right of a user who is not stale, it keeps: the login,
\* and contributions that are the user's own.
RightStays ==
  [][\A u \in Users \ stale :
       /\ login[u] = ghLogin[u] => login'[u] = ghLogin[u]
       /\ contributions[u] = u => contributions'[u] = u]_vars

LEMMA RightStep ==
  ASSUME NamesInv, \A w \in Workers : YearsHeld(w), [Next]_vars, NEW u \in Users \ stale
  PROVE  /\ login[u] = ghLogin[u] => login'[u] = ghLogin[u]
         /\ contributions[u] = u => contributions'[u] = u
<1>1. \A w \in Workers : RightJob(w, u)
  BY DEF NamesInv
<1>2. TypeOK
  BY DEF NamesInv
<1>3. ASSUME NEW w \in Workers, Register(w), login[u] = ghLogin[u]
      PROVE  login'[u] = ghLogin[u]
  <2>1. job[w] \in Job /\ job[w] # None
    BY <1>2, <1>3, Present DEF Register, At
  <2>2. PICK me \in Users, n \in Logins : job[w].user = me /\ job[w].name = n
    BY <2>1 DEF Job
  <2>3. login'[me] = n /\ \A v \in Users \ {me} : login'[v] = login[v]
    BY <1>2, <1>3, <2>2 DEF Register, Stored, TypeOK
  <2>4. me = u => n = ghLogin[u]
    BY <1>1, <2>1, <2>2 DEF RightJob
  <2> QED BY <1>3, <2>3, <2>4
<1>4. ASSUME NEW w \in Workers, SaveYears(w), contributions[u] = u
      PROVE  contributions'[u] = u
  <2>1. job[w] \in Job /\ job[w] # None /\ job[w].at = "save_years"
    BY <1>2, <1>4, Present DEF SaveYears, At
  <2>2. PICK me \in Users : job[w].user = me
    BY <2>1 DEF Job
  <2>3. /\ contributions'[me] = job[w].years
        /\ \A v \in Users \ {me} : contributions'[v] = contributions[v]
    BY <1>2, <1>4, <2>2 DEF SaveYears, TypeOK
  <2>4. job[w].years # None
    BY <2>1 DEF YearsHeld
  <2>5. me = u => job[w].years = u
    BY <1>1, <2>1, <2>2, <2>4 DEF RightJob
  <2> QED BY <1>4, <2>3, <2>5
<1> QED BY <1>2, <1>3, <1>4, LoginsWritten, YearsWritten

\* No job that is still under way, and no other account's, takes away what the
\* store has right of a user who has logged in since being renamed: the safety
\* that OwnDataSettles rests on.
THEOREM RightIsKept == Spec => RightStays
<1> DEFINE Inv == NamesInv /\ \A w \in Workers : YearsHeld(w)
<1>1. Init => Inv
  BY NamesInit DEF Init, YearsHeld
<1>2. Inv /\ [Next]_vars => Inv'
  BY NamesNext, YearsHeldStep DEF NamesInv
<1>3. Inv /\ [Next]_vars =>
        [\A u \in Users \ stale :
           /\ login[u] = ghLogin[u] => login'[u] = ghLogin[u]
           /\ contributions[u] = u => contributions'[u] = u]_vars
  BY RightStep
<1> HIDE DEF Inv
<1> QED BY <1>1, <1>2, <1>3, PTL DEF Spec, RightStays
=============================================================================
