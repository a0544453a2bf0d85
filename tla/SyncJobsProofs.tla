--------------------------- MODULE SyncJobsProofs ---------------------------
(***************************************************************************)
(* What holds of SyncJobs for every number of users, repositories, years   *)
(* and request goroutines.                                                 *)
(***************************************************************************)
EXTENDS SyncJobs, TLAPS

LEMMA LatestIn ==
  ASSUME NEW S \in SUBSET Years, S # {}
  PROVE  Latest(S) \in S
BY StoreAssumption DEF Latest

LEMMA NoneIsNothing ==
  None \notin Nat /\ None \notin Users /\ None \notin Repos /\ None \notin RepoRow
BY StoreAssumption

LEMMA TypeInit == Init => TypeOK
<1> SUFFICES ASSUME Init PROVE TypeOK
  OBVIOUS
<1> USE DEF Init, StoreInit
<1>1. StoreTypeOK
  BY DEF StoreTypeOK, NoYears, NoRepos, YearData, RepoData, Maybe
<1>2. work \in [Workers -> Work]
  BY DEF Work, NoWork, NoYears, NoRepos, YearData, RepoData, Maybe
<1>3. \A w \in Workers : LocalsOK(w)
  BY DEF LocalsOK, NoWork
<1>4. /\ now \in Nat /\ ghVersion \in Nat
      /\ ghOwner \in [Repos -> Owners]
      /\ pc \in [Workers -> Labels]
      /\ kind \in [Workers -> {"none", "login", "sync", "toggle", "collect"}]
      /\ user \in [Workers -> Maybe(Users)]
      /\ listed \in [Users -> Maybe(Nat)]
  BY DEF Labels, Maybe
<1> QED
  BY <1>1, <1>2, <1>3, <1>4 DEF TypeOK


(***************************************************************************)
(* Type correctness.  A statement keeps the types of the tables and, since *)
(* rows are never deleted nor change hands, who owns what.                 *)
(***************************************************************************)
StoreStays ==
  /\ StoreTypeOK'
  /\ \A r \in Repos, u \in Users : Owned(r, u) => Owned(r, u)'

LEMMA UnchangedStore ==
  ASSUME StoreTypeOK, UNCHANGED tables
  PROVE  StoreStays
BY DEF StoreTypeOK, tables, StoreStays, Owned

LEMMA UpsertUserStays ==
  ASSUME StoreTypeOK, NEW u \in Users, NEW t \in Nat, UpsertUser(u, t)
  PROVE  StoreStays
BY DEF StoreTypeOK, UpsertUser, Maybe, StoreStays, Owned

LEMMA UpdateSyncedAtStays ==
  ASSUME StoreTypeOK, NEW u \in Users, NEW t \in Nat, UpdateSyncedAt(u, t)
  PROVE  StoreStays
BY DEF StoreTypeOK, UpdateSyncedAt, Maybe, StoreStays, Owned

LEMMA UpsertYearStays ==
  ASSUME StoreTypeOK, NEW u \in Users, NEW y \in Years, NEW v \in Nat, UpsertYear(u, y, v)
  PROVE  StoreStays
BY DEF StoreTypeOK, UpsertYear, Maybe, YearData, StoreStays, Owned

LEMMA UpsertStreakStays ==
  ASSUME StoreTypeOK, NEW u \in Users, NEW d \in YearData, UpsertStreak(u, d)
  PROVE  StoreStays
BY DEF StoreTypeOK, UpsertStreak, Maybe, StoreStays, Owned

LEMMA UpsertRepoStays ==
  ASSUME StoreTypeOK, NEW r \in Repos, NEW u \in Users, NEW v \in Nat, UpsertRepo(r, u, v)
  PROVE  StoreStays
BY NoneIsNothing DEF StoreTypeOK, UpsertRepo, Maybe, RepoRow, StoreStays, Owned

LEMMA TogglePublicStays ==
  ASSUME StoreTypeOK, NEW r \in Repos, NEW b \in BOOLEAN, TogglePublic(r, b)
  PROVE  StoreStays
BY NoneIsNothing DEF StoreTypeOK, TogglePublic, Maybe, RepoRow, StoreStays, Owned

LEMMA WriteUserRankingStays ==
  ASSUME StoreTypeOK, NEW u \in Users, NEW t \in Totals, WriteUserRanking(u, t)
  PROVE  StoreStays
BY DEF StoreTypeOK, WriteUserRanking, Maybe, StoreStays, Owned

LEMMA DeleteRepoRankingsStays ==
  ASSUME StoreTypeOK, NEW ids \in SUBSET Repos, DeleteRepoRankings(ids)
  PROVE  StoreStays
BY DEF StoreTypeOK, DeleteRepoRankings, Maybe, RepoData, StoreStays, Owned

LEMMA InsertRepoRankingsStays ==
  ASSUME StoreTypeOK, NEW d \in RepoData, InsertRepoRankings(d)
  PROVE  StoreStays
BY DEF StoreTypeOK, InsertRepoRankings, Maybe, RepoData, StoreStays, Owned

LEMMA ReadsTyped ==
  ASSUME StoreTypeOK, NEW u \in Users
  PROVE  /\ TotalsOf(u) \in Totals
         /\ PublicOf(u) \in RepoData
         /\ PrivateOf(u) \in SUBSET Repos
BY NoneIsNothing DEF StoreTypeOK, TotalsOf, PublicOf, PrivateOf, Totals, RepoData, Owned, Maybe, RepoRow

\* A worker that does not move keeps its locals.
Still(x) ==
  /\ pc'[x] = pc[x] /\ kind'[x] = kind[x] /\ user'[x] = user[x]
  /\ work'[x] = work[x] /\ read'[x] = read[x]
  /\ x \in dirty' <=> x \in dirty
  /\ x \in dirtyRepos' <=> x \in dirtyRepos

LEMMA StillLocals ==
  ASSUME TypeOK, NEW x \in Workers, Still(x), StoreStays
  PROVE  LocalsOK(x)'
BY NoneIsNothing DEF TypeOK, LocalsOK, Still, StoreStays, Maybe, Owned

LEMMA WorkIsTyped ==
  /\ NoWork \in Work
  /\ FetchAllYears \in Work
  /\ \A r \in Repos, b \in BOOLEAN : [NoWork EXCEPT !.repo = r, !.is_public = b] \in Work
BY DEF Work, NoWork, FetchAllYears, NoYears, NoRepos, YearData, RepoData, Maybe

LEMMA StartTyped ==
  ASSUME TypeOK, NEW w \in Workers, NEW k \in {"login", "sync", "toggle", "collect"},
         NEW u \in Users, NEW l \in Labels, NEW locals \in Work, Start(w, k, u, l, locals)
  PROVE  /\ (pc \in [Workers -> Labels])'
         /\ (kind \in [Workers -> {"none", "login", "sync", "toggle", "collect"}])'
         /\ (user \in [Workers -> Maybe(Users)])'
         /\ (work \in [Workers -> Work])'
BY DEF Start, Goto, TypeOK, Maybe

\* TypeOK', from what each action shows of its worker and of the rest.
Typed(w) ==
  /\ StoreStays
  /\ (pc \in [Workers -> Labels])'
  /\ (kind \in [Workers -> {"none", "login", "sync", "toggle", "collect"}])'
  /\ (user \in [Workers -> Maybe(Users)])'
  /\ (work \in [Workers -> Work])'
  /\ (read = [x \in Workers |-> read[x]])'
  /\ (listed \in [Users -> Maybe(Nat)])'
  /\ LocalsOK(w)'
  /\ \A x \in Workers \ {w} : Still(x)
  /\ dirty' \subseteq Workers /\ dirtyRepos' \subseteq Workers
  /\ overlap' \subseteq Workers /\ overlapRepos' \subseteq Workers
  /\ crossed' \subseteq Workers
  /\ owed' \subseteq Users /\ owedRepos' \subseteq Users

LEMMA TypedStep ==
  ASSUME TypeOK, NEW w \in Workers, Typed(w), UNCHANGED env
  PROVE  TypeOK'
<1>1. \A x \in Workers : LocalsOK(x)'
  BY StillLocals DEF Typed
<1> QED
  BY <1>1 DEF Typed, TypeOK, env, StoreStays

LEMMA TypeLoginStart ==
  ASSUME TypeOK, NEW w \in Handlers, NEW u \in Users, LoginStart(w, u)
  PROVE  Typed(w)
<1> USE NoneIsNothing DEF LoginStart
<1>1. StoreStays
  BY UpsertUserStays DEF TypeOK
<1>2. LocalsOK(w)'
  BY StoreAssumption DEF Start, Goto, TypeOK, LocalsOK, FetchAllYears, NoWork, Workers, flags
<1>3. \A x \in Workers \ {w} : Still(x)
  BY DEF Start, Goto, TypeOK, Still, Workers, flags
<1>4. w \in Workers /\ "fetchYears" \in Labels
  BY DEF Workers, Labels
<1>5. UNCHANGED <<flags, debts, listed>>
  OBVIOUS
<1> QED
  BY <1>1, <1>2, <1>3, <1>4, <1>5, WorkIsTyped, StartTyped DEF Typed, TypeOK, flags, debts

LEMMA TypeSyncStart ==
  ASSUME TypeOK, NEW w \in Handlers, NEW u \in Users, SyncStart(w, u)
  PROVE  Typed(w)
<1> USE NoneIsNothing DEF SyncStart
<1>1. StoreStays
  BY UnchangedStore DEF TypeOK
<1>2. LocalsOK(w)'
  BY StoreAssumption DEF Start, Goto, TypeOK, LocalsOK, FetchAllYears, NoWork, Workers, flags
<1>3. \A x \in Workers \ {w} : Still(x)
  BY DEF Start, Goto, TypeOK, Still, Workers, flags
<1>4. w \in Workers /\ "fetchYears" \in Labels
  BY DEF Workers, Labels
<1>5. UNCHANGED <<flags, debts, listed>>
  OBVIOUS
<1> QED
  BY <1>1, <1>2, <1>3, <1>4, <1>5, WorkIsTyped, StartTyped DEF Typed, TypeOK, flags, debts

LEMMA TypeToggleStart ==
  ASSUME TypeOK, NEW w \in Handlers, NEW r \in Repos, NEW b \in BOOLEAN, ToggleStart(w, r, b)
  PROVE  Typed(w)
<1> USE NoneIsNothing DEF ToggleStart
<1>1. StoreStays
  BY UnchangedStore DEF TypeOK
<1>2. repositories[r].owner \in Users
  BY DEF TypeOK, StoreTypeOK, Maybe, RepoRow
<1>3. LocalsOK(w)'
  BY <1>1, <1>2 DEF Start, Goto, TypeOK, LocalsOK, NoWork, Workers, Owned, tables, StoreStays, flags
<1>4. \A x \in Workers \ {w} : Still(x)
  BY DEF Start, Goto, TypeOK, Still, Workers, flags
<1>5. w \in Workers /\ "togglePublic" \in Labels
  BY DEF Workers, Labels
<1>6. UNCHANGED <<flags, debts, listed>>
  OBVIOUS
<1> QED
  BY <1>1, <1>2, <1>3, <1>4, <1>5, <1>6, WorkIsTyped, StartTyped DEF Typed, TypeOK, flags, debts

LEMMA TypeCollectorTick ==
  ASSUME TypeOK, CollectorTick
  PROVE  Typed(Collector)
<1> USE NoneIsNothing DEF CollectorTick
<1>1. StoreStays
  BY UnchangedStore DEF TypeOK
<1>2. LocalsOK(Collector)'
  BY DEF Goto, TypeOK, LocalsOK, Workers, flags
<1>3. \A x \in Workers \ {Collector} : Still(x)
  BY DEF Goto, TypeOK, Still, flags
<1>4. (pc \in [Workers -> Labels])'
  BY DEF Goto, TypeOK, Labels
<1>5. (listed \in [Users -> Maybe(Nat)])'
  BY DEF TypeOK, StoreTypeOK
<1> QED
  BY <1>1, <1>2, <1>3, <1>4, <1>5 DEF Typed, TypeOK, flags, debts

LEMMA TypeCollectStart ==
  ASSUME TypeOK, NEW u \in Users, CollectStart(u)
  PROVE  Typed(Collector)
<1> USE NoneIsNothing DEF CollectStart
<1>1. StoreStays
  BY UnchangedStore DEF TypeOK
<1>2. LocalsOK(Collector)'
  BY StoreAssumption DEF IsNext, Start, Goto, TypeOK, LocalsOK, FetchAllYears, NoWork, Workers, flags
<1>3. \A x \in Workers \ {Collector} : Still(x)
  BY DEF Start, Goto, TypeOK, Still, flags
<1>4. Collector \in Workers /\ "fetchYears" \in Labels
  BY DEF Workers, Labels
<1>5. (listed \in [Users -> Maybe(Nat)])'
  BY DEF TypeOK, Maybe
<1>6. UNCHANGED <<flags, debts>>
  OBVIOUS
<1> QED
  BY <1>1, <1>2, <1>3, <1>4, <1>5, <1>6, WorkIsTyped, StartTyped DEF Typed, TypeOK, flags, debts

LEMMA TypeCollectSkip ==
  ASSUME TypeOK, NEW u \in Users, CollectSkip(u)
  PROVE  Typed(Collector)
<1> USE DEF CollectSkip
<1>1. StoreStays
  BY UnchangedStore DEF TypeOK
<1>2. \A x \in Workers : Still(x)
  BY DEF Still, control, flags
<1>3. LocalsOK(Collector)'
  BY <1>1, <1>2, StillLocals DEF Workers, flags
<1>4. (listed \in [Users -> Maybe(Nat)])'
  BY DEF TypeOK, Maybe
<1> QED
  BY <1>1, <1>2, <1>3, <1>4 DEF Typed, TypeOK, flags, debts, control

LEMMA TypeCollectEnd ==
  ASSUME TypeOK, CollectEnd
  PROVE  Typed(Collector)
<1> USE NoneIsNothing DEF CollectEnd
<1>1. StoreStays
  BY UnchangedStore DEF TypeOK
<1>2. LocalsOK(Collector)'
  BY DEF Goto, TypeOK, LocalsOK, Workers, flags
<1>3. \A x \in Workers \ {Collector} : Still(x)
  BY DEF Goto, TypeOK, Still, flags
<1>4. (pc \in [Workers -> Labels])'
  BY DEF Goto, TypeOK, Labels
<1> QED
  BY <1>1, <1>2, <1>3, <1>4 DEF Typed, TypeOK, flags, debts

LEMMA BusyHasUser ==
  ASSUME TypeOK, NEW w \in Workers, pc[w] \notin {"idle", "nextUser"}
  PROVE  user[w] \in Users
BY DEF TypeOK, LocalsOK, Maybe

(***************************************************************************)
(* What a worker's locals become, field by field.                          *)
(***************************************************************************)

\* A year is fetched ..
GetsYear(w, y) ==
  work' = [work EXCEPT ![w].toFetch = work[w].toFetch \ {y}, ![w].fetched[y] = ghVersion,
                       ![w].toSave = @ \cup {y}]

LEMMA YearFetched ==
  ASSUME TypeOK, NEW w \in Workers, NEW y \in Years, GetsYear(w, y)
  PROVE  /\ work'[w].toFetch = work[w].toFetch \ {y}
         /\ work'[w].fetched = [work[w].fetched EXCEPT ![y] = ghVersion]
         /\ work'[w].toSave = work[w].toSave \cup {y}
         /\ work'[w].repos = work[w].repos /\ work'[w].toUpsert = work[w].toUpsert
         /\ work'[w].repo = work[w].repo /\ work'[w].is_public = work[w].is_public
         /\ (work \in [Workers -> Work])'
<1> DEFINE r1 == [work[w] EXCEPT !.toFetch = work[w].toFetch \ {y}]
           r2 == [r1 EXCEPT !.fetched = [r1.fetched EXCEPT ![y] = ghVersion]]
           r3 == [r2 EXCEPT !.toSave = r2.toSave \cup {y}]
<1>0. work[w] \in Work
  BY DEF TypeOK
<1>1. /\ r1 \in Work /\ r1.toFetch = work[w].toFetch \ {y} /\ r1.fetched = work[w].fetched
      /\ r1.toSave = work[w].toSave /\ r1.repos = work[w].repos
      /\ r1.toUpsert = work[w].toUpsert /\ r1.repo = work[w].repo
      /\ r1.is_public = work[w].is_public
  BY <1>0 DEF Work
<1>2. /\ r2 \in Work /\ r2.fetched = [r1.fetched EXCEPT ![y] = ghVersion]
      /\ r2.toFetch = r1.toFetch /\ r2.toSave = r1.toSave /\ r2.repos = r1.repos
      /\ r2.toUpsert = r1.toUpsert /\ r2.repo = r1.repo /\ r2.is_public = r1.is_public
  BY <1>1 DEF Work, YearData, Maybe, TypeOK
<1>3. /\ r3 \in Work /\ r3.toSave = r2.toSave \cup {y}
      /\ r3.toFetch = r2.toFetch /\ r3.fetched = r2.fetched /\ r3.repos = r2.repos
      /\ r3.toUpsert = r2.toUpsert /\ r3.repo = r2.repo /\ r3.is_public = r2.is_public
  BY <1>2 DEF Work
<1>4. work' = [work EXCEPT ![w] = r3]
  BY <1>0 DEF GetsYear, Work, TypeOK
<1> HIDE DEF r1, r2, r3
<1> QED
  BY <1>1, <1>2, <1>3, <1>4 DEF TypeOK

\* .. and saved.
LEMMA YearSaved ==
  ASSUME TypeOK, NEW w \in Workers, NEW y \in Years,
         work' = [work EXCEPT ![w].toSave = work[w].toSave \ {y}]
  PROVE  /\ work'[w].toSave = work[w].toSave \ {y}
         /\ work'[w].toFetch = work[w].toFetch /\ work'[w].fetched = work[w].fetched
         /\ work'[w].repos = work[w].repos /\ work'[w].toUpsert = work[w].toUpsert
         /\ work'[w].repo = work[w].repo
         /\ (work \in [Workers -> Work])'
<1> DEFINE r1 == [work[w] EXCEPT !.toSave = work[w].toSave \ {y}]
<1>1. /\ r1 \in Work /\ r1.toSave = work[w].toSave \ {y}
      /\ r1.toFetch = work[w].toFetch /\ r1.fetched = work[w].fetched
      /\ r1.repos = work[w].repos /\ r1.toUpsert = work[w].toUpsert
      /\ r1.repo = work[w].repo
  BY DEF Work, TypeOK
<1>2. work' = [work EXCEPT ![w] = r1]
  BY DEF TypeOK
<1> HIDE DEF r1
<1> QED
  BY <1>1, <1>2 DEF TypeOK

\* Repositories are fetched ..
GetsRepos(w, got, mine) == work' = [work EXCEPT ![w].repos = got, ![w].toUpsert = mine]

LEMMA ReposFetched ==
  ASSUME TypeOK, NEW w \in Workers, NEW got \in RepoData, NEW mine \in SUBSET Repos,
         GetsRepos(w, got, mine)
  PROVE  /\ work'[w].repos = got /\ work'[w].toUpsert = mine
         /\ work'[w].toFetch = work[w].toFetch /\ work'[w].fetched = work[w].fetched
         /\ work'[w].toSave = work[w].toSave /\ work'[w].repo = work[w].repo
         /\ (work \in [Workers -> Work])'
<1> DEFINE r1 == [work[w] EXCEPT !.repos = got]
           r2 == [r1 EXCEPT !.toUpsert = mine]
<1>0. work[w] \in Work
  BY DEF TypeOK
<1>1. /\ r1 \in Work /\ r1.repos = got /\ r1.toFetch = work[w].toFetch
      /\ r1.fetched = work[w].fetched /\ r1.toSave = work[w].toSave
      /\ r1.repo = work[w].repo
  BY <1>0 DEF Work
<1>2. /\ r2 \in Work /\ r2.repos = r1.repos /\ r2.toUpsert = mine
      /\ r2.toFetch = r1.toFetch /\ r2.fetched = r1.fetched
      /\ r2.toSave = r1.toSave /\ r2.repo = r1.repo
  BY <1>1 DEF Work
<1>3. work' = [work EXCEPT ![w] = r2]
  BY <1>0 DEF GetsRepos, Work, TypeOK
<1> HIDE DEF r1, r2
<1> QED
  BY <1>1, <1>2, <1>3 DEF TypeOK

\* .. and saved.
LEMMA RepoSaved ==
  ASSUME TypeOK, NEW w \in Workers, NEW r \in Repos,
         work' = [work EXCEPT ![w].toUpsert = @ \ {r}]
  PROVE  /\ work'[w].toUpsert = work[w].toUpsert \ {r}
         /\ work'[w].toFetch = work[w].toFetch /\ work'[w].fetched = work[w].fetched
         /\ work'[w].toSave = work[w].toSave /\ work'[w].repos = work[w].repos
         /\ work'[w].repo = work[w].repo
         /\ (work \in [Workers -> Work])'
<1> DEFINE r1 == [work[w] EXCEPT !.toUpsert = work[w].toUpsert \ {r}]
<1>1. /\ r1 \in Work /\ r1.toUpsert = work[w].toUpsert \ {r}
      /\ r1.toFetch = work[w].toFetch /\ r1.fetched = work[w].fetched
      /\ r1.toSave = work[w].toSave /\ r1.repos = work[w].repos
      /\ r1.repo = work[w].repo
  BY DEF Work, TypeOK
<1>2. work' = [work EXCEPT ![w] = r1]
  BY DEF TypeOK
<1> HIDE DEF r1
<1> QED
  BY <1>1, <1>2 DEF TypeOK

LEMMA TypeFetchYear ==
  ASSUME TypeOK, NEW w \in Workers, FetchYear(w)
  PROVE  Typed(w)
<1> DEFINE y == Latest(work[w].toFetch)
<1> USE NoneIsNothing DEF FetchYear
<1>1. StoreStays
  BY UnchangedStore DEF TypeOK
<1>2. /\ work[w].toFetch \in SUBSET Years /\ work[w].toFetch # {}
      /\ work[w].toSave \in SUBSET Years /\ work[w].fetched \in YearData
      /\ work[w] \in Work
  BY DEF TypeOK, LocalsOK, Work
<1>3. y \in work[w].toFetch /\ y \in Years
  BY <1>2, LatestIn
<1> HIDE DEF y
<1>4. /\ work' = [work EXCEPT ![w].toFetch = work[w].toFetch \ {y}, ![w].fetched[y] = ghVersion,
                              ![w].toSave = @ \cup {y}]
      /\ pc[w] = "fetchYears" /\ read' = read /\ user' = user /\ kind' = kind
  BY DEF y
<1>6. /\ work'[w].toFetch = work[w].toFetch \ {y}
      /\ work'[w].fetched = [work[w].fetched EXCEPT ![y] = ghVersion]
      /\ work'[w].toSave = work[w].toSave \cup {y}
      /\ work'[w].repos = work[w].repos /\ work'[w].toUpsert = work[w].toUpsert
      /\ work'[w].repo = work[w].repo /\ work'[w].is_public = work[w].is_public
      /\ (work \in [Workers -> Work])'
  BY <1>3, <1>4, YearFetched DEF GetsYear
<1>8. pc' = [pc EXCEPT ![w] = pc'[w]] /\ pc'[w] \in {"saveYears", "fetchYears", "fetchRepos"}
      /\ (pc'[w] = "fetchYears" => work[w].toFetch \ {y} # {})
  BY DEF Goto, TypeOK, y
<1>9. LocalsOK(w)'
  BY <1>2, <1>3, <1>4, <1>6, <1>8 DEF TypeOK, LocalsOK, YearData, flags
<1>10. \A x \in Workers \ {w} : Still(x)
  BY <1>4, <1>8 DEF TypeOK, Still, flags
<1> QED
  BY <1>1, <1>4, <1>6, <1>8, <1>9, <1>10 DEF Typed, TypeOK, flags, debts, Labels

LEMMA TypeSaveYear ==
  ASSUME TypeOK, NEW w \in Workers, SaveYear(w)
  PROVE  Typed(w)
<1> DEFINE y == Latest(work[w].toSave)
<1> USE NoneIsNothing DEF SaveYear
<1>1. /\ work[w] \in Work
      /\ work[w].toSave \in SUBSET Years /\ work[w].toSave # {}
      /\ work[w].fetched \in YearData
      /\ \A z \in work[w].toSave : work[w].fetched[z] # None
  BY DEF TypeOK, LocalsOK, Work
<1>2. y \in work[w].toSave /\ y \in Years
  BY <1>1, LatestIn
<1>3. work[w].fetched[y] \in Nat
  BY <1>1, <1>2 DEF YearData, Maybe
<1>4. user[w] \in Users
  BY BusyHasUser
<1> HIDE DEF y
<1>5. /\ UpsertYear(user[w], y, work[w].fetched[y])
      /\ work' = [work EXCEPT ![w].toSave = work[w].toSave \ {y}]
      /\ pc[w] = "saveYears" /\ read' = read /\ user' = user /\ kind' = kind
  BY DEF y
<1>6. StoreStays
  BY <1>2, <1>3, <1>4, <1>5, UpsertYearStays DEF TypeOK
<1>7. /\ work'[w].toSave = work[w].toSave \ {y}
      /\ work'[w].toFetch = work[w].toFetch /\ work'[w].fetched = work[w].fetched
      /\ work'[w].repos = work[w].repos /\ work'[w].toUpsert = work[w].toUpsert
      /\ work'[w].repo = work[w].repo
      /\ (work \in [Workers -> Work])'
  BY <1>2, <1>5, YearSaved
<1>8. pc' = [pc EXCEPT ![w] = pc'[w]] /\ pc'[w] \in {"saveYears", "fetchYears", "saveStreak"}
      /\ (pc'[w] = "saveYears" => work[w].toSave \ {y} # {})
      /\ (pc'[w] = "fetchYears" => work[w].toFetch # {})
  BY DEF Goto, TypeOK, y
<1>9. LocalsOK(w)'
  BY <1>1, <1>2, <1>5, <1>7, <1>8 DEF TypeOK, LocalsOK, YearData, flags
<1>10. \A x \in Workers \ {w} : Still(x)
  BY <1>5, <1>8 DEF TypeOK, Still, flags
<1> QED
  BY <1>5, <1>6, <1>7, <1>8, <1>9, <1>10 DEF Typed, TypeOK, debts, Labels, Rivals

LEMMA TypeSaveStreak ==
  ASSUME TypeOK, NEW w \in Workers, SaveStreak(w)
  PROVE  Typed(w)
<1> USE NoneIsNothing DEF SaveStreak
<1>1. StoreStays
  BY BusyHasUser, UpsertStreakStays DEF TypeOK, Work
<1>2. LocalsOK(w)'
  BY DEF Goto, TypeOK, LocalsOK, flags
<1>3. \A x \in Workers \ {w} : Still(x)
  BY DEF Goto, TypeOK, Still, flags
<1>4. (pc \in [Workers -> Labels])'
  BY DEF Goto, TypeOK, Labels
<1> QED
  BY <1>1, <1>2, <1>3, <1>4 DEF Typed, TypeOK, debts, Rivals

LEMMA TypeFetchRepos ==
  ASSUME TypeOK, NEW w \in Workers, FetchRepos(w)
  PROVE  Typed(w)
<1> DEFINE Got(page) == [r \in Repos |-> IF r \in page THEN ghVersion ELSE None]
<1>0. PICK mine \in FirstPage(user[w]) :
        work' = [work EXCEPT ![w].repos = Got(mine), ![w].toUpsert = mine]
  BY DEF FetchRepos
<1> DEFINE got == Got(mine)
<1> USE NoneIsNothing DEF FetchRepos
<1>1. StoreStays
  BY UnchangedStore DEF TypeOK
<1>2. /\ got \in RepoData /\ mine \in SUBSET Repos
      /\ \A r \in mine : got[r] # None
  BY DEF TypeOK, RepoData, Maybe, FirstPage
<1>3. /\ work[w] \in Work
      /\ \A z \in work[w].toSave : work[w].fetched[z] # None
      /\ kind[w] = "sync" => work[w].toSave # {}
  BY DEF TypeOK, LocalsOK
<1>4. /\ pc' = [pc EXCEPT ![w] = IF kind[w] = "sync" THEN "saveYears" ELSE "saveRepos"]
      /\ work' = [work EXCEPT ![w].repos = got, ![w].toUpsert = mine]
      /\ pc[w] = "fetchRepos" /\ read' = read /\ user' = user /\ kind' = kind
      /\ UNCHANGED <<env, listed, flags, debts>>
  BY <1>0 DEF Goto
<1> HIDE DEF Got, got
<1>5. /\ work'[w].repos = got /\ work'[w].toUpsert = mine
      /\ work'[w].toFetch = work[w].toFetch /\ work'[w].fetched = work[w].fetched
      /\ work'[w].toSave = work[w].toSave /\ work'[w].repo = work[w].repo
      /\ (work \in [Workers -> Work])'
  BY <1>2, <1>4, ReposFetched DEF GetsRepos
<1>6. LocalsOK(w)'
  BY <1>2, <1>3, <1>4, <1>5 DEF TypeOK, LocalsOK, flags
<1>7. \A x \in Workers \ {w} : Still(x)
  BY <1>4 DEF TypeOK, Still, flags
<1>8. (pc \in [Workers -> Labels])'
  BY <1>4 DEF TypeOK, Labels
<1> QED
  BY <1>1, <1>4, <1>5, <1>6, <1>7, <1>8 DEF Typed, TypeOK, flags, debts

LEMMA TypeSaveRepo ==
  ASSUME TypeOK, NEW w \in Workers, NEW r \in Repos, SaveRepo(w, r)
  PROVE  Typed(w)
<1> USE NoneIsNothing DEF SaveRepo
<1>1. /\ work[w] \in Work /\ work[w].repos[r] \in Nat
      /\ \A z \in work[w].toUpsert : work[w].repos[z] # None
  BY DEF TypeOK, LocalsOK, Work, RepoData, Maybe
<1>2. StoreStays
  BY <1>1, BusyHasUser, UpsertRepoStays DEF TypeOK
<1>3. /\ work'[w].toUpsert = work[w].toUpsert \ {r}
      /\ work'[w].toFetch = work[w].toFetch /\ work'[w].fetched = work[w].fetched
      /\ work'[w].toSave = work[w].toSave /\ work'[w].repos = work[w].repos
      /\ work'[w].repo = work[w].repo
      /\ (work \in [Workers -> Work])'
  BY RepoSaved
<1>4. LocalsOK(w)'
  BY <1>1, <1>3 DEF TypeOK, LocalsOK, control, flags
<1>5. \A x \in Workers \ {w} : Still(x)
  BY DEF TypeOK, Still, control, flags
<1>6. repositories[r] # None => repositories[r].owner \in Users
  BY DEF TypeOK, StoreTypeOK, RepoRow, Maybe
<1> QED
  BY <1>2, <1>3, <1>4, <1>5, <1>6 DEF Typed, TypeOK, control, Rivals

LEMMA TypeReposSaved ==
  ASSUME TypeOK, NEW w \in Workers, ReposSaved(w)
  PROVE  Typed(w)
<1> USE NoneIsNothing DEF ReposSaved
<1>1. StoreStays
  BY UnchangedStore DEF TypeOK
<1>2. LocalsOK(w)'
  BY DEF Goto, TypeOK, LocalsOK, flags
<1>3. \A x \in Workers \ {w} : Still(x)
  BY DEF Goto, TypeOK, Still, flags
<1>4. (pc \in [Workers -> Labels])'
  BY DEF Goto, TypeOK, Labels
<1> QED
  BY <1>1, <1>2, <1>3, <1>4 DEF Typed, TypeOK, debts, flags

LEMMA TypeToggleRepo ==
  ASSUME TypeOK, NEW w \in Workers, ToggleRepo(w)
  PROVE  Typed(w)
<1> USE NoneIsNothing DEF ToggleRepo
<1>1. StoreStays
  BY TogglePublicStays DEF TypeOK, LocalsOK, Work
<1>2. LocalsOK(w)'
  BY DEF Goto, TypeOK, LocalsOK, flags
<1>3. \A x \in Workers \ {w} : Still(x)
  BY DEF Goto, TypeOK, Still, flags
<1>4. (pc \in [Workers -> Labels])'
  BY DEF Goto, TypeOK, Labels
<1> QED
  BY <1>1, <1>2, <1>3, <1>4 DEF Typed, TypeOK, debts

LEMMA TypeRankUserRead ==
  ASSUME TypeOK, NEW w \in Workers, RankUserRead(w)
  PROVE  Typed(w)
<1> USE NoneIsNothing DEF RankUserRead
<1>1. StoreStays
  BY UnchangedStore DEF TypeOK
<1>2. LocalsOK(w)'
  BY BusyHasUser, ReadsTyped DEF Goto, TypeOK, LocalsOK, flags
<1>3. \A x \in Workers \ {w} : Still(x)
  BY DEF Goto, TypeOK, Still, flags
<1>4. (pc \in [Workers -> Labels])'
  BY DEF Goto, TypeOK, Labels, RepoWindow
<1>5. work' = work /\ kind' = kind /\ user' = user /\ listed' = listed
  OBVIOUS
<1> QED
  BY <1>1, <1>2, <1>3, <1>4, <1>5 DEF Typed, TypeOK, Mark, Rivals

LEMMA TypeRankUserWrite ==
  ASSUME TypeOK, NEW w \in Workers, RankUserWrite(w)
  PROVE  Typed(w)
<1> USE NoneIsNothing DEF RankUserWrite
<1>1. user[w] \in Users
  BY BusyHasUser
<1>2. StoreStays
  BY <1>1, WriteUserRankingStays DEF TypeOK, LocalsOK
<1>3. LocalsOK(w)'
  BY DEF Goto, TypeOK, LocalsOK, NoWork, flags
<1>4. \A x \in Workers \ {w} : Still(x)
  BY DEF Goto, TypeOK, Still, flags
<1>5. (pc \in [Workers -> Labels])' /\ (work \in [Workers -> Work])'
  BY WorkIsTyped DEF Goto, TypeOK, Labels
<1> QED
  BY <1>1, <1>2, <1>3, <1>4, <1>5 DEF Typed, TypeOK

LEMMA TypeDeleteRead ==
  ASSUME TypeOK, NEW w \in Workers, DeleteRead(w)
  PROVE  Typed(w)
<1> USE NoneIsNothing DEF DeleteRead
<1>1. StoreStays
  BY UnchangedStore DEF TypeOK
<1>2. LocalsOK(w)'
  BY BusyHasUser, ReadsTyped DEF Goto, TypeOK, LocalsOK, flags
<1>3. \A x \in Workers \ {w} : Still(x)
  BY DEF Goto, TypeOK, Still, flags
<1>4. (pc \in [Workers -> Labels])'
  BY DEF Goto, TypeOK, Labels, RepoWindow
<1> QED
  BY <1>1, <1>2, <1>3, <1>4 DEF Typed, TypeOK, Mark, Rivals

LEMMA TypeDeleteWrite ==
  ASSUME TypeOK, NEW w \in Workers, DeleteWrite(w)
  PROVE  Typed(w)
<1> USE NoneIsNothing DEF DeleteWrite
<1>1. StoreStays
  BY DeleteRepoRankingsStays DEF TypeOK, LocalsOK
<1>2. LocalsOK(w)'
  BY DEF Goto, TypeOK, LocalsOK, flags
<1>3. \A x \in Workers \ {w} : Still(x)
  BY DEF Goto, TypeOK, Still, flags
<1>4. (pc \in [Workers -> Labels])'
  BY DEF Goto, TypeOK, Labels, RepoWindow
<1> QED
  BY <1>1, <1>2, <1>3, <1>4 DEF Typed, TypeOK, debts, flags

LEMMA TypeRankReposRead ==
  ASSUME TypeOK, NEW w \in Workers, RankReposRead(w)
  PROVE  Typed(w)
<1> USE NoneIsNothing DEF RankReposRead
<1>1. StoreStays
  BY UnchangedStore DEF TypeOK
<1>2. LocalsOK(w)'
  BY BusyHasUser, ReadsTyped DEF Goto, TypeOK, LocalsOK, flags
<1>3. \A x \in Workers \ {w} : Still(x)
  BY DEF Goto, TypeOK, Still, flags
<1>4. (pc \in [Workers -> Labels])'
  BY DEF Goto, TypeOK, Labels, RepoWindow
<1> QED
  BY <1>1, <1>2, <1>3, <1>4 DEF Typed, TypeOK, debts, flags

LEMMA EndTyped ==
  ASSUME TypeOK, NEW w \in Workers, End(w)
  PROVE  /\ (pc \in [Workers -> Labels])'
         /\ (kind \in [Workers -> {"none", "login", "sync", "toggle", "collect"}])'
         /\ (user \in [Workers -> Maybe(Users)])'
         /\ (work \in [Workers -> Work])'
         /\ (read = [x \in Workers |-> read[x]])'
         /\ (listed \in [Users -> Maybe(Nat)])'
         /\ LocalsOK(w)'
         /\ \A x \in Workers \ {w} : Still(x)
         /\ dirty' \subseteq Workers /\ dirtyRepos' \subseteq Workers
         /\ overlap' \subseteq Workers /\ overlapRepos' \subseteq Workers
         /\ crossed' \subseteq Workers
<1> USE NoneIsNothing DEF End
<1>1. LocalsOK(w)'
  BY DEF Goto, TypeOK, LocalsOK, NoWork, flags
<1>2. \A x \in Workers \ {w} : Still(x)
  BY DEF Goto, TypeOK, Still, flags
<1>3. (pc \in [Workers -> Labels])'
  BY DEF Goto, TypeOK, Labels
<1>4. (work \in [Workers -> Work])'
  BY WorkIsTyped DEF TypeOK
<1> QED
  BY <1>1, <1>2, <1>3, <1>4 DEF TypeOK, Maybe

LEMMA TypeRankReposWrite ==
  ASSUME TypeOK, NEW w \in Workers, RankReposWrite(w)
  PROVE  Typed(w)
<1> USE NoneIsNothing
<1>1. user[w] \in Users /\ pc[w] = "rankReposWrite"
  BY BusyHasUser DEF RankReposWrite
<1>2. StoreStays
  BY <1>1, InsertRepoRankingsStays DEF TypeOK, LocalsOK, RankReposWrite
<1>3. owed' \subseteq Users /\ owedRepos' \subseteq Users
  BY <1>1 DEF RankReposWrite, TypeOK
<1>4. CASE End(w)
  BY <1>2, <1>3, <1>4, EndTyped DEF Typed
<1>5. CASE /\ Goto(w, "stamp")
           /\ read' = [read EXCEPT ![w] = None]
           /\ dirtyRepos' = dirtyRepos \ {w}
           /\ overlapRepos' = overlapRepos \ {w}
           /\ UNCHANGED <<kind, user, work, listed, dirty, overlap, crossed>>
  <2>1. LocalsOK(w)'
    BY <1>1, <1>5 DEF Goto, TypeOK, LocalsOK, flags
  <2>2. \A x \in Workers \ {w} : Still(x)
    BY <1>5 DEF Goto, TypeOK, Still, flags
  <2>3. (pc \in [Workers -> Labels])'
    BY <1>5 DEF Goto, TypeOK, Labels
  <2> QED
    BY <1>2, <1>3, <1>5, <2>1, <2>2, <2>3 DEF Typed, TypeOK
<1> QED
  BY <1>4, <1>5 DEF RankReposWrite

LEMMA TypeStamp ==
  ASSUME TypeOK, NEW w \in Workers, Stamp(w)
  PROVE  Typed(w)
<1>1. StoreStays
  BY BusyHasUser, UpdateSyncedAtStays DEF TypeOK, Stamp
<1> QED
  BY <1>1, EndTyped DEF Typed, Stamp, TypeOK, debts

LEMMA TypeFail ==
  ASSUME TypeOK, NEW w \in Workers, Fail(w)
  PROVE  Typed(w)
<1>1. StoreStays
  BY UnchangedStore DEF TypeOK, Fail
<1>2. \A marked : Debt(w, marked) \subseteq Users
  BY BusyHasUser DEF Debt, Fail
<1> QED
  BY <1>1, <1>2, EndTyped DEF Typed, Fail, TypeOK

LEMMA TypePassOver ==
  ASSUME TypeOK, NEW w \in Workers, PassOver(w)
  PROVE  Typed(w)
<1> USE NoneIsNothing
<1>1. StoreStays
  BY UnchangedStore DEF TypeOK, PassOver
<1>2. \A marked : Debt(w, marked) \subseteq Users
  BY BusyHasUser DEF Debt, PassOver
<1>3. /\ read' = [read EXCEPT ![w] = None]
      /\ UNCHANGED <<tables, env, kind, user, listed>>
  BY DEF PassOver
<1>4. ASSUME NEW l \in {"fetchRepos", "rankUser", "delete", "stamp"},
             NEW locals \in Work, Goto(w, l),
             work' = [work EXCEPT ![w] = locals],
             locals.toUpsert \subseteq work[w].toUpsert, locals.toSave \subseteq work[w].toSave,
             locals.repos = work[w].repos \/ locals.toUpsert = {},
             locals.fetched = work[w].fetched \/ locals.toSave = {},
             pc[w] \notin {"idle", "nextUser"},
             l = "fetchRepos" => kind[w] # "sync",
             dirty' = dirty \/ dirty' = dirty \ {w},
             dirtyRepos' = dirtyRepos \/ dirtyRepos' = dirtyRepos \ {w}
      PROVE  /\ (pc \in [Workers -> Labels])' /\ LocalsOK(w)'
             /\ (work \in [Workers -> Work])'
             /\ \A x \in Workers \ {w} : Still(x)
  <2>1. (pc \in [Workers -> Labels])' /\ (work \in [Workers -> Work])'
    BY <1>4 DEF Goto, TypeOK, Labels
  <2>2. \A x \in Workers \ {w} : Still(x)
    BY <1>3, <1>4 DEF Goto, TypeOK, Still, flags
  <2>3. LocalsOK(w)'
    BY <1>3, <1>4 DEF Goto, TypeOK, LocalsOK, flags
  <2> QED
    BY <2>1, <2>2, <2>3
<1>5. work[w] \in Work /\ work = [work EXCEPT ![w] = work[w]]
  BY DEF TypeOK
<1>6. CASE pc[w] = "saveStreak"
  <2>1. /\ Goto(w, "fetchRepos") /\ UNCHANGED <<work, flags, debts>>
        /\ kind[w] # "sync"
    BY <1>6 DEF PassOver, Ends, RepoWindow
  <2> QED
    BY <1>1, <1>3, <1>4, <1>5, <1>6, <2>1 DEF Typed, TypeOK, flags, debts
<1>7. CASE pc[w] \in {"fetchRepos", "saveRepos"}
  <2> DEFINE locals == [work[w] EXCEPT !.toUpsert = {}]
  <2>1. /\ Goto(w, "rankUser") /\ UNCHANGED <<flags, debts>>
        /\ work' = [work EXCEPT ![w] = locals]
    BY <1>5, <1>7 DEF PassOver, RepoWindow, Work
  <2>2. /\ locals \in Work /\ locals.toUpsert = {} /\ locals.toSave = work[w].toSave
        /\ locals.fetched = work[w].fetched
    BY <1>5 DEF Work
  <2> HIDE DEF locals
  <2> QED
    BY <1>1, <1>3, <1>4, <1>5, <1>7, <2>1, <2>2 DEF Typed, TypeOK, flags, debts
<1>8. CASE pc[w] \in {"rankUser", "rankUserWrite"}
  <2>1. /\ Goto(w, "delete") /\ work' = [work EXCEPT ![w] = NoWork]
        /\ crossed' = crossed \ {w} /\ dirty' = dirty \ {w} /\ overlap' = overlap \ {w}
        /\ owed' = owed \cup Debt(w, dirty)
        /\ UNCHANGED <<dirtyRepos, overlapRepos, owedRepos>>
    BY <1>8 DEF PassOver, RepoWindow
  <2>2. /\ NoWork.toUpsert = {} /\ NoWork.toSave = {} /\ NoWork \in Work
    BY WorkIsTyped DEF NoWork
  <2> QED
    BY <1>1, <1>2, <1>3, <1>4, <1>8, <2>1, <2>2 DEF Typed, TypeOK
<1>9. CASE pc[w] \in RepoWindow \cup {"delete"}
  <2>1. /\ Goto(w, "stamp") /\ dirtyRepos' = dirtyRepos \ {w}
        /\ overlapRepos' = overlapRepos \ {w}
        /\ owedRepos' = owedRepos \cup Debt(w, dirtyRepos)
        /\ UNCHANGED <<work, dirty, overlap, crossed, owed>>
    BY <1>9 DEF PassOver, RepoWindow
  <2> QED
    BY <1>1, <1>2, <1>3, <1>4, <1>5, <1>9, <2>1 DEF Typed, TypeOK, RepoWindow
<1> QED
  BY <1>6, <1>7, <1>8, <1>9 DEF PassOver

LEMMA TypeCrash ==
  ASSUME TypeOK, Crash
  PROVE  TypeOK'
<1> USE NoneIsNothing DEF Crash
<1>1. StoreStays
  BY UnchangedStore DEF TypeOK
<1>2. \A w \in Workers : LocalsOK(w)'
  BY DEF LocalsOK, NoWork, flags
<1>3. \A w \in dirty \cup dirtyRepos : user[w] \in Users
  BY DEF TypeOK, LocalsOK, Maybe
<1>4. owed' \subseteq Users /\ owedRepos' \subseteq Users
  BY <1>3 DEF TypeOK
<1>5. /\ (pc \in [Workers -> Labels])'
      /\ (kind \in [Workers -> {"none", "login", "sync", "toggle", "collect"}])'
      /\ (user \in [Workers -> Maybe(Users)])'
      /\ (work \in [Workers -> Work])'
      /\ (read = [w \in Workers |-> read[w]])'
      /\ (listed \in [Users -> Maybe(Nat)])'
  BY WorkIsTyped DEF Labels, Maybe
<1>6. UNCHANGED env
  OBVIOUS
<1>7. /\ dirty' = {} /\ dirtyRepos' = {} /\ overlap' = {} /\ overlapRepos' = {}
      /\ crossed' = {}
  OBVIOUS
<1> HIDE DEF Crash
<1> QED
  BY <1>1, <1>2, <1>4, <1>5, <1>6, <1>7 DEF TypeOK, StoreStays, env

\* The world outside moves: no worker does.
LEMMA TypeOutside ==
  ASSUME TypeOK,
         \/ Tick \/ GitHubActivity
         \/ \E r \in Repos, o \in Owners : GitHubMove(r, o)
         \/ UNCHANGED vars
  PROVE  TypeOK'
<1>1. UNCHANGED <<tables, control, work, read, listed, flags, debts>>
  BY DEF Tick, GitHubActivity, GitHubMove, vars
<1>2. StoreStays
  BY <1>1, UnchangedStore DEF TypeOK
<1>3. \A x \in Workers : Still(x)
  BY <1>1 DEF Still, control, flags
<1>4. \A x \in Workers : LocalsOK(x)'
  BY <1>2, <1>3, StillLocals
<1>5. now' \in Nat /\ ghVersion' \in Nat /\ ghOwner' \in [Repos -> Owners]
  BY DEF Tick, GitHubActivity, GitHubMove, vars, env, TypeOK
<1> QED
  BY <1>1, <1>2, <1>4, <1>5 DEF TypeOK, StoreStays, control, flags, debts

LEMMA TypeProceed ==
  ASSUME TypeOK, NEW w \in Workers, Proceed(w)
  PROVE  Typed(w) /\ UNCHANGED env
<1>1. CASE FetchYear(w)       BY <1>1, TypeFetchYear DEF FetchYear
<1>2. CASE SaveYear(w)        BY <1>2, TypeSaveYear DEF SaveYear
<1>3. CASE SaveStreak(w)      BY <1>3, TypeSaveStreak DEF SaveStreak
<1>4. CASE FetchRepos(w)      BY <1>4, TypeFetchRepos DEF FetchRepos
<1>5. CASE \E r \in Repos : SaveRepo(w, r)
                              BY <1>5, TypeSaveRepo DEF SaveRepo
<1>6. CASE ReposSaved(w)      BY <1>6, TypeReposSaved DEF ReposSaved
<1>7. CASE ToggleRepo(w)      BY <1>7, TypeToggleRepo DEF ToggleRepo
<1>8. CASE RankUserRead(w)    BY <1>8, TypeRankUserRead DEF RankUserRead
<1>9. CASE RankUserWrite(w)   BY <1>9, TypeRankUserWrite DEF RankUserWrite
<1>10. CASE DeleteRead(w)     BY <1>10, TypeDeleteRead DEF DeleteRead
<1>11. CASE DeleteWrite(w)    BY <1>11, TypeDeleteWrite DEF DeleteWrite
<1>12. CASE RankReposRead(w)  BY <1>12, TypeRankReposRead DEF RankReposRead
<1>13. CASE RankReposWrite(w) BY <1>13, TypeRankReposWrite DEF RankReposWrite
<1>14. CASE Stamp(w)          BY <1>14, TypeStamp DEF Stamp
<1> QED
  BY <1>1, <1>2, <1>3, <1>4, <1>5, <1>6, <1>7, <1>8, <1>9, <1>10, <1>11,
     <1>12, <1>13, <1>14 DEF Proceed

LEMMA TypeNext ==
  ASSUME TypeOK, [Next]_vars
  PROVE  TypeOK'
<1>0. \A w \in Handlers : w \in Workers
  BY DEF Workers
<1>00. Collector \in Workers
  BY DEF Workers
<1>1. CASE \E w \in Handlers, u \in Users : LoginStart(w, u)
  BY <1>0, <1>1, TypeLoginStart, TypedStep DEF LoginStart
<1>2. CASE \E w \in Handlers, u \in Users : SyncStart(w, u)
  BY <1>0, <1>2, TypeSyncStart, TypedStep DEF SyncStart
<1>3. CASE \E w \in Handlers, r \in Repos, b \in BOOLEAN : ToggleStart(w, r, b)
  BY <1>0, <1>3, TypeToggleStart, TypedStep DEF ToggleStart
<1>4. CASE CollectorTick
  BY <1>00, <1>4, TypeCollectorTick, TypedStep DEF CollectorTick
<1>5. CASE \E u \in Users : CollectStart(u)
  BY <1>00, <1>5, TypeCollectStart, TypedStep DEF CollectStart
<1>6. CASE \E u \in Users : CollectSkip(u)
  BY <1>00, <1>6, TypeCollectSkip, TypedStep DEF CollectSkip
<1>7. CASE CollectEnd
  BY <1>00, <1>7, TypeCollectEnd, TypedStep DEF CollectEnd
<1>8. CASE \E w \in Workers : Proceed(w)
  BY <1>8, TypeProceed, TypedStep
<1>9. CASE \E w \in Workers : Fail(w)
  BY <1>9, TypeFail, TypedStep DEF Fail
<1>10. CASE \E w \in Workers : PassOver(w)
  BY <1>10, TypePassOver, TypedStep DEF PassOver
<1>11. CASE Crash
  BY <1>11, TypeCrash
<1>12. CASE \/ Tick \/ GitHubActivity
            \/ \E r \in Repos, o \in Owners : GitHubMove(r, o)
            \/ UNCHANGED vars
  BY <1>12, TypeOutside
<1> QED
  BY <1>1, <1>2, <1>3, <1>4, <1>5, <1>6, <1>7, <1>8, <1>9, <1>10, <1>11,
     <1>12 DEF Next, Loop, Stumble

\* The tables and the workers' locals have their types, and a worker's locals
\* are what its next call needs, in every state of every instance.
THEOREM TypeCorrect == Spec => []TypeOK
<1>1. TypeOK /\ [Next]_vars => TypeOK'
  BY TypeNext
<1> QED
  BY <1>1, TypeInit, PTL DEF Spec

----------------------------------------------------------------------------
(* Which call writes which table.                                          *)

LEMMA YearsSavedBy ==
  ASSUME [Next]_vars
  PROVE  contributions' = contributions \/ \E w \in Workers : SaveYear(w)
<1>1. ASSUME NEW w \in Workers, Proceed(w) PROVE contributions' = contributions \/ SaveYear(w)
  BY <1>1 DEF Proceed, tables, FetchYear, SaveStreak, FetchRepos, SaveRepo,
     ReposSaved, ToggleRepo, RankUserRead, RankUserWrite, DeleteRead, DeleteWrite,
     RankReposRead, RankReposWrite, Stamp, UpsertStreak, UpsertRepo, TogglePublic,
     UpdateSyncedAt, WriteUserRanking, DeleteRepoRankings, InsertRepoRankings
<1>2. contributions' = contributions \/ \E w \in Workers : Proceed(w)
  BY DEF Next, Loop, Stumble, vars, tables, LoginStart, SyncStart, ToggleStart,
     CollectorTick, CollectStart, CollectSkip, CollectEnd, Fail, PassOver, Crash, Tick,
     GitHubActivity, GitHubMove, UpsertUser
<1> QED
  BY <1>1, <1>2

LEMMA ReposSavedBy ==
  ASSUME [Next]_vars
  PROVE  \/ repositories' = repositories
         \/ \E w \in Workers, r \in Repos : SaveRepo(w, r)
         \/ \E w \in Workers : ToggleRepo(w)
BY DEF Next, Loop, Proceed, Stumble, vars, tables, LoginStart, SyncStart, ToggleStart,
       CollectorTick, CollectStart, CollectSkip, CollectEnd, FetchYear, SaveYear,
       SaveStreak, FetchRepos, ReposSaved, RankUserRead, RankUserWrite, DeleteRead,
       DeleteWrite, RankReposRead, RankReposWrite, Stamp, Fail, PassOver, Crash, Tick,
       GitHubActivity, GitHubMove, UpsertUser, UpdateSyncedAt, UpsertYear, UpsertStreak,
       WriteUserRanking, DeleteRepoRankings, InsertRepoRankings

LEMMA StreaksSavedBy ==
  ASSUME [Next]_vars
  PROVE  streak_rankings' = streak_rankings \/ \E w \in Workers : SaveStreak(w)
<1>1. ASSUME NEW w \in Workers, Proceed(w)
      PROVE  streak_rankings' = streak_rankings \/ SaveStreak(w)
  BY <1>1 DEF Proceed, tables, FetchYear, SaveYear, FetchRepos, SaveRepo, ReposSaved,
     ToggleRepo, RankUserRead, RankUserWrite, DeleteRead, DeleteWrite, RankReposRead,
     RankReposWrite, Stamp, UpsertYear, UpsertRepo, TogglePublic, UpdateSyncedAt,
     WriteUserRanking, DeleteRepoRankings, InsertRepoRankings
<1>2. streak_rankings' = streak_rankings \/ \E w \in Workers : Proceed(w)
  BY DEF Next, Loop, Stumble, vars, tables, LoginStart, SyncStart, ToggleStart,
     CollectorTick, CollectStart, CollectSkip, CollectEnd, Fail, PassOver, Crash, Tick,
     GitHubActivity, GitHubMove, UpsertUser
<1> QED
  BY <1>1, <1>2

LEMMA UsersRankedBy ==
  ASSUME [Next]_vars
  PROVE  user_rankings' = user_rankings \/ \E w \in Workers : RankUserWrite(w)
<1>1. ASSUME NEW w \in Workers, Proceed(w)
      PROVE  user_rankings' = user_rankings \/ RankUserWrite(w)
  BY <1>1 DEF Proceed, tables, FetchYear, SaveYear, SaveStreak, FetchRepos, SaveRepo,
     ReposSaved, ToggleRepo, RankUserRead, DeleteRead, DeleteWrite, RankReposRead,
     RankReposWrite, Stamp, UpsertYear, UpsertStreak, UpsertRepo, TogglePublic,
     UpdateSyncedAt, DeleteRepoRankings, InsertRepoRankings
<1>2. user_rankings' = user_rankings \/ \E w \in Workers : Proceed(w)
  BY DEF Next, Loop, Stumble, vars, tables, LoginStart, SyncStart, ToggleStart,
     CollectorTick, CollectStart, CollectSkip, CollectEnd, Fail, PassOver, Crash, Tick,
     GitHubActivity, GitHubMove, UpsertUser
<1> QED
  BY <1>1, <1>2

LEMMA ReposRankedBy ==
  ASSUME [Next]_vars
  PROVE  \/ repo_rankings' = repo_rankings
         \/ \E w \in Workers : DeleteWrite(w) \/ RankReposWrite(w)
<1>1. ASSUME NEW w \in Workers, Proceed(w)
      PROVE  repo_rankings' = repo_rankings \/ DeleteWrite(w) \/ RankReposWrite(w)
  BY <1>1 DEF Proceed, tables, FetchYear, SaveYear, SaveStreak, FetchRepos, SaveRepo,
     ReposSaved, ToggleRepo, RankUserRead, RankUserWrite, DeleteRead, RankReposRead, Stamp,
     UpsertYear, UpsertStreak, UpsertRepo, TogglePublic, UpdateSyncedAt, WriteUserRanking
<1>2. repo_rankings' = repo_rankings \/ \E w \in Workers : Proceed(w)
  BY DEF Next, Loop, Stumble, vars, tables, LoginStart, SyncStart, ToggleStart,
     CollectorTick, CollectStart, CollectSkip, CollectEnd, Fail, PassOver, Crash, Tick,
     GitHubActivity, GitHubMove, UpsertUser
<1> QED
  BY <1>1, <1>2

\* The row that SaveRepo leaves: new, or with new numbers and all else kept.
LEMMA RowSaved ==
  ASSUME TypeOK, NEW w \in Workers, NEW r \in Repos, SaveRepo(w, r)
  PROVE  /\ work[w].repos[r] \in Nat
         /\ repositories'[r] \in RepoRow
         /\ repositories'[r] # None /\ repositories'[r].stats = work[w].repos[r]
         /\ repositories[r] = None => repositories'[r].owner = user[w]
         /\ repositories[r] # None =>
              /\ repositories[r] \in RepoRow
              /\ repositories'[r].owner = repositories[r].owner
              /\ repositories'[r].is_public = repositories[r].is_public
         /\ \A q \in Repos \ {r} : repositories'[q] = repositories[q]
<1>1. work[w].repos[r] \in Nat /\ user[w] \in Users
  BY NoneIsNothing, BusyHasUser DEF SaveRepo, TypeOK, LocalsOK, Work, RepoData, Maybe
<1>2. repositories'[r] = IF repositories[r] = None
                         THEN [owner |-> user[w], stats |-> work[w].repos[r], is_public |-> FALSE]
                         ELSE [repositories[r] EXCEPT !.stats = work[w].repos[r]]
  BY DEF SaveRepo, UpsertRepo, TypeOK, StoreTypeOK
<1>3. repositories'[r] \in RepoRow /\ repositories'[r].stats = work[w].repos[r]
  BY <1>1, <1>2 DEF TypeOK, StoreTypeOK, Maybe, RepoRow
<1>4. \A q \in Repos \ {r} : repositories'[q] = repositories[q]
  BY DEF SaveRepo, UpsertRepo, TypeOK, StoreTypeOK
<1>5. repositories[r] = None => repositories'[r].owner = user[w]
  BY <1>2
<1>6. ASSUME repositories[r] # None
      PROVE  /\ repositories[r] \in RepoRow
             /\ repositories'[r].owner = repositories[r].owner
             /\ repositories'[r].is_public = repositories[r].is_public
  BY <1>1, <1>2, <1>6 DEF TypeOK, StoreTypeOK, Maybe, RepoRow
<1> QED
  BY <1>1, <1>3, <1>4, <1>5, <1>6, NoneIsNothing

----------------------------------------------------------------------------
(* Who takes a step.                                                       *)

Moves(w) ==
  \/ \E u \in Users : w \in Handlers /\ (LoginStart(w, u) \/ SyncStart(w, u))
  \/ \E r \in Repos, b \in BOOLEAN : w \in Handlers /\ ToggleStart(w, r, b)
  \/ w = Collector /\ (CollectorTick \/ CollectEnd \/ \E u \in Users : CollectStart(u))
  \/ Proceed(w) \/ Stumble(w)

\* A step is one of the worker, or of everybody (a crash), or leaves it alone.
LEMMA MovesOrNot ==
  ASSUME TypeOK, [Next]_vars, NEW x \in Workers
  PROVE  Still(x) \/ Moves(x) \/ Crash
<1>1. ASSUME NEW w \in Workers, w # x, Typed(w) PROVE Still(x)
  BY <1>1 DEF Typed
<1>2. Handlers \subseteq Workers /\ Collector \in Workers
  BY DEF Workers
<1>3. ASSUME NEW w \in Handlers, NEW u \in Users, LoginStart(w, u) \/ SyncStart(w, u)
      PROVE  Still(x) \/ Moves(x)
  BY <1>1, <1>2, <1>3, TypeLoginStart, TypeSyncStart DEF Moves
<1>4. ASSUME NEW w \in Handlers, NEW r \in Repos, NEW b \in BOOLEAN, ToggleStart(w, r, b)
      PROVE  Still(x) \/ Moves(x)
  BY <1>1, <1>2, <1>4, TypeToggleStart DEF Moves
<1>5. ASSUME CollectorTick \/ CollectEnd \/ \E u \in Users : CollectStart(u)
      PROVE  Still(x) \/ Moves(x)
  BY <1>1, <1>2, <1>5, TypeCollectorTick, TypeCollectEnd, TypeCollectStart DEF Moves
<1>6. ASSUME NEW w \in Workers, Proceed(w) \/ Stumble(w) PROVE Still(x) \/ Moves(x)
  BY <1>1, <1>6, TypeProceed, TypeFail, TypePassOver DEF Moves, Stumble
<1>7. CASE \/ Tick \/ GitHubActivity \/ UNCHANGED vars
           \/ \E u \in Users : CollectSkip(u)
           \/ \E r \in Repos, o \in Owners : GitHubMove(r, o)
  BY <1>7 DEF Tick, GitHubActivity, CollectSkip, GitHubMove, vars, control, flags, Still
<1> QED
  BY <1>3, <1>4, <1>5, <1>6, <1>7 DEF Next, Loop
=============================================================================
