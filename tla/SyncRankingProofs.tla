-------------------------- MODULE SyncRankingProofs --------------------------
(***************************************************************************)
(* The rankings follow their sources, in every instance of SyncJobs: first *)
(* that of users, then that of repositories.                               *)
(*                                                                         *)
(* Neither property is inductive: that the rows a recalculation writes are *)
(* right depends on what it read, and on what happened since.  RankInv and *)
(* RepoRankInv add that what a recalculation in flight has read is still   *)
(* right, or that something is known that will put the rows right: the     *)
(* recalculation was overtaken by another (overlap), a job of the user has *)
(* yet to recalculate (dirty), or one was lost (owed).                     *)
(*                                                                         *)
(* RecalculateUserRepos takes four steps, a read and a write of each of    *)
(* its statements.  InFlight says what is known of a worker between them:  *)
(* what it has read and done so far is right for the tables as they are    *)
(* now, unless someone will put it right (Excused).  Another user's        *)
(* recalculation cannot disturb it, because rows have one owner.           *)
(*                                                                         *)
(* The last section is about a user whose data and rankings have come      *)
(* right: every statement of every job writes what is there already.       *)
(***************************************************************************)
EXTENDS SyncJobsProofs, SyncHealing

----------------------------------------------------------------------------
(* The ranking of users.                                                   *)

\* Another job of the user of w has yet to recalculate.
OtherDirty(w) == \E x \in dirty \ {w} : user[x] = user[w]

AfterRanking == {"delete", "stamp"} \cup RepoWindow

RankingInFlight(w) ==
  /\ pc[w] = "rankUserWrite" =>
       /\ w \in dirty
       /\ \/ w \in overlap
          \/ read[w] = TotalsOf(user[w])
          \/ user[w] \in owed
          \/ OtherDirty(w)
       /\ \A x \in Workers \ {w} :
            pc[x] = "rankUserWrite" /\ user[x] = user[w] => w \in overlap
  /\ pc[w] \in AfterRanking => w \notin dirty

RankInv ==
  /\ TypeOK
  /\ RankingFollowsSources
  /\ \A w \in Workers : RankingInFlight(w)

LEMMA RankInit == Init => RankInv
<1> SUFFICES ASSUME Init PROVE RankInv
  OBVIOUS
<1>1. \A u \in Users : Fresh(u)
  BY DEF Init, StoreInit, Fresh, TotalsOf, PublicOf, Owned, NoRepos
<1>2. \A w \in Workers : pc[w] = "idle"
  BY DEF Init
<1> QED
  BY <1>1, <1>2, TypeInit DEF RankInv, RankingFollowsSources, RankingInFlight, AfterRanking, RepoWindow

\* A step of w that neither begins nor completes a RecalculateUser: whatever
\* it changes in the sources of a user's ranking leaves w dirty or the user owed.
Around(w) ==
  /\ user_rankings' = user_rankings
  /\ \A u \in Users : \/ TotalsOf(u)' = TotalsOf(u)
                      \/ u \in owed'
                      \/ w \in dirty' /\ user'[w] = u
  /\ \A x \in Workers \ {w} : Still(x) /\ (x \in overlap => x \in overlap')
  /\ owed \subseteq owed'
  /\ w \in dirty => (w \in dirty' /\ user'[w] = user[w]) \/ user[w] \in owed'
  /\ pc'[w] # "rankUserWrite"
  /\ pc'[w] \in AfterRanking => w \notin dirty'

LEMMA AroundStep ==
  ASSUME RankInv, TypeOK', NEW w \in Workers, Around(w)
  PROVE  RankInv'
<1>1. ASSUME NEW u \in Users
      PROVE  Fresh(u)' \/ u \in owed' \/ \E x \in dirty' : user'[x] = u
  <2>1. CASE Fresh(u) /\ TotalsOf(u)' = TotalsOf(u)
    BY <2>1 DEF Fresh, Around
  <2>2. CASE u \in owed' \/ (w \in dirty' /\ user'[w] = u)
    BY <2>2
  <2>3. ASSUME NEW x \in dirty, user[x] = u
        PROVE  u \in owed' \/ \E z \in dirty' : user'[z] = u
    <3>1. x \in Workers
      BY DEF RankInv, TypeOK
    <3> QED
      BY <2>3, <3>1 DEF Around, Still
  <2> QED
    BY <2>1, <2>2, <2>3 DEF RankInv, RankingFollowsSources, Around
<1>2. ASSUME NEW x \in Workers PROVE RankingInFlight(x)'
  <2>1. CASE x = w
    BY <2>1 DEF Around, RankingInFlight
  <2>2. CASE x # w
    <3>1. /\ Still(x) /\ (x \in overlap => x \in overlap') /\ RankingInFlight(x)
          /\ x \in Workers \ {w}
      BY <2>2 DEF Around, RankInv
    <3>2. pc[x] \in AfterRanking => x \notin dirty'
      BY <3>1 DEF Still, RankingInFlight
    <3>3. CASE pc[x] = "rankUserWrite"
      <4>1. x \in dirty' /\ user[x] \in Users
        BY <3>1, <3>3, BusyHasUser DEF Still, RankingInFlight, RankInv
      <4>2. \A z \in Workers \ {x} :
              pc'[z] = "rankUserWrite" /\ user'[z] = user'[x] => x \in overlap'
        BY <3>1, <3>3 DEF Around, Still, RankingInFlight
      <4>3. OtherDirty(x) => (OtherDirty(x)' \/ user[x] \in owed')
        <5> SUFFICES ASSUME NEW z \in dirty \ {x}, user[z] = user[x]
                     PROVE  OtherDirty(x)' \/ user[x] \in owed'
          BY DEF OtherDirty
        <5>1. z \in Workers
          BY DEF RankInv, TypeOK
        <5> QED
          BY <3>1, <5>1 DEF Around, Still, OtherDirty
      <4>4. TotalsOf(user[x])' = TotalsOf(user[x]) \/ user[x] \in owed' \/ OtherDirty(x)'
        BY <2>2, <3>1, <4>1 DEF Around, Still, OtherDirty, TotalsOf, PublicOf, Owned
      <4> QED
        BY <3>1, <3>2, <3>3, <4>1, <4>2, <4>3, <4>4
           DEF Around, Still, RankingInFlight, TotalsOf, PublicOf, Owned
    <3> QED
      BY <3>1, <3>2, <3>3 DEF Still, RankingInFlight
  <2> QED
    BY <2>1, <2>2
<1> QED
  BY <1>1, <1>2 DEF RankInv, RankingFollowsSources

LEMMA SameSources ==
  ASSUME UNCHANGED <<contributions, repositories>>, NEW u
  PROVE  TotalsOf(u)' = TotalsOf(u)
BY DEF TotalsOf, PublicOf, Owned

LEMMA RankSaveYear ==
  ASSUME RankInv, NEW w \in Workers, SaveYear(w)
  PROVE  Around(w)
<1>1. Typed(w)
  BY TypeSaveYear DEF RankInv
<1>2. \A u \in Users : u # user[w] => TotalsOf(u)' = TotalsOf(u)
  BY DEF SaveYear, UpsertYear, TotalsOf, PublicOf, Owned, RankInv, TypeOK, StoreTypeOK
<1>3. pc'[w] \in {"saveYears", "fetchYears", "saveStreak"}
  BY DEF SaveYear, Goto, RankInv, TypeOK
<1> QED
  BY <1>1, <1>2, <1>3 DEF Around, Typed, SaveYear, UpsertYear, AfterRanking, RepoWindow, debts

\* Only repository r changes, and its owner's totals with it.
LEMMA OtherTotals ==
  ASSUME RankInv, NEW r \in Repos, NEW o \in Users,
         \A q \in Repos \ {r} : repositories'[q] = repositories[q],
         repositories[r] # None => repositories[r].owner = o,
         repositories'[r] # None => repositories'[r].owner = o,
         contributions' = contributions,
         NEW u \in Users, u # o
  PROVE  TotalsOf(u)' = TotalsOf(u)
<1>1. \A q \in Repos : Owned(q, u)' <=> Owned(q, u)
  BY DEF Owned
<1>2. \A q \in Repos : Owned(q, u) => repositories'[q] = repositories[q]
  BY DEF Owned
<1> QED
  BY <1>1, <1>2 DEF TotalsOf, PublicOf

LEMMA RankSaveRepo ==
  ASSUME RankInv, NEW w \in Workers, NEW r \in Repos, SaveRepo(w, r)
  PROVE  Around(w)
<1> DEFINE o == IF repositories[r] = None THEN user[w] ELSE repositories[r].owner
<1>1. Typed(w) /\ TypeOK /\ user[w] \in Users
  BY TypeSaveRepo, BusyHasUser DEF RankInv, SaveRepo
<1>2. o \in Users /\ (o = user[w] \/ o \in owed')
  BY <1>1 DEF SaveRepo, TypeOK, StoreTypeOK, Maybe, RepoRow
<1>3. /\ \A q \in Repos \ {r} : repositories'[q] = repositories[q]
      /\ repositories[r] # None => repositories[r].owner = o
      /\ repositories'[r] # None => repositories'[r].owner = o
      /\ contributions' = contributions
  BY <1>1 DEF SaveRepo, UpsertRepo, TypeOK, StoreTypeOK, Maybe, RepoRow
<1>4. \A u \in Users : u # o => TotalsOf(u)' = TotalsOf(u)
  BY <1>2, <1>3, OtherTotals
<1> HIDE DEF o
<1>5. pc' = pc /\ pc[w] = "saveRepos" /\ user' = user /\ w \in dirty' /\ owed \subseteq owed'
      /\ overlap' = overlap /\ user_rankings' = user_rankings
  BY DEF SaveRepo, control, UpsertRepo
<1> QED
  BY <1>1, <1>2, <1>4, <1>5 DEF Around, Typed, AfterRanking, RepoWindow

LEMMA RankToggleRepo ==
  ASSUME RankInv, NEW w \in Workers, ToggleRepo(w)
  PROVE  Around(w)
<1> DEFINE r == work[w].repo
<1>1. Typed(w) /\ TypeOK /\ user[w] \in Users
  BY TypeToggleRepo, BusyHasUser DEF RankInv, ToggleRepo
<1>2. r \in Repos /\ Owned(r, user[w])
  BY <1>1 DEF ToggleRepo, TypeOK, LocalsOK
<1>3. /\ \A q \in Repos \ {r} : repositories'[q] = repositories[q]
      /\ repositories[r].owner = user[w]
      /\ repositories'[r] # None => repositories'[r].owner = user[w]
      /\ contributions' = contributions
  BY <1>1, <1>2 DEF ToggleRepo, TogglePublic, TypeOK, StoreTypeOK, Maybe, RepoRow, Owned
<1> HIDE DEF r
<1>4. \A u \in Users : u # user[w] => TotalsOf(u)' = TotalsOf(u)
  BY <1>1, <1>2, <1>3, OtherTotals
<1>5. pc'[w] = "rankUser" /\ user' = user /\ w \in dirty' /\ owed' = owed
      /\ overlap' = overlap /\ user_rankings' = user_rankings
  BY <1>1 DEF ToggleRepo, TogglePublic, Goto, TypeOK, debts
<1> QED
  BY <1>1, <1>4, <1>5 DEF Around, Typed, AfterRanking, RepoWindow

\* Every other step of a worker leaves the sources and the ranking alone.
LEMMA QuietStep ==
  ASSUME RankInv, NEW w \in Workers, Typed(w),
         UNCHANGED <<contributions, repositories, user_rankings>>,
         \A x \in Workers \ {w} : x \in overlap => x \in overlap',
         owed \subseteq owed',
         w \in dirty => (w \in dirty' /\ user'[w] = user[w]) \/ user[w] \in owed',
         pc'[w] # "rankUserWrite",
         pc'[w] \in AfterRanking => w \notin dirty'
  PROVE  Around(w)
BY SameSources DEF Around, Typed

LEMMA RankUserReadStep ==
  ASSUME RankInv, NEW w \in Workers, RankUserRead(w)
  PROVE  RankInv'
<1> DEFINE u == user[w]
           rivals == {x \in Rivals(w) : pc[x] = "rankUserWrite"}
<1>1. Typed(w) /\ TypeOK /\ u \in Users /\ TypeOK'
  BY TypeRankUserRead, BusyHasUser, TypedStep DEF RankInv, RankUserRead
<1>2. /\ pc' = [pc EXCEPT ![w] = "rankUserWrite"] /\ pc[w] = "rankUser"
      /\ read'[w] = TotalsOf(u)
      /\ user' = user /\ dirty' = dirty \cup {w} /\ owed' = owed \ {u}
      /\ overlap' = Mark(overlap, w, rivals)
      /\ UNCHANGED <<contributions, repositories, user_rankings>>
  BY <1>1 DEF RankUserRead, Goto, tables, TypeOK
<1>3. \A v \in Users : TotalsOf(v)' = TotalsOf(v) /\ (Fresh(v) => Fresh(v)')
  BY <1>2, SameSources DEF Fresh
<1>4. \A v \in Users : Fresh(v)' \/ v \in owed' \/ \E x \in dirty' : user'[x] = v
  BY <1>2, <1>3 DEF RankInv, RankingFollowsSources
<1>5. RankingInFlight(w)'
  <2>1. w \in dirty' /\ (read[w] = TotalsOf(user[w]))'
    BY <1>1, <1>2, <1>3
  <2>2. ASSUME NEW x \in Workers \ {w}, pc'[x] = "rankUserWrite", user'[x] = user'[w]
        PROVE  w \in overlap'
    BY <1>1, <1>2, <2>2 DEF Mark, Rivals, TypeOK
  <2> QED
    BY <1>1, <1>2, <2>1, <2>2 DEF RankingInFlight, AfterRanking, RepoWindow, TypeOK
<1>6. ASSUME NEW x \in Workers \ {w} PROVE RankingInFlight(x)'
  <2>1. Still(x) /\ RankingInFlight(x) /\ (x \in overlap => x \in overlap')
    BY <1>1, <1>2 DEF Typed, RankInv, Mark
  <2>2. CASE pc[x] = "rankUserWrite" /\ user[x] = u
    <3>1. x \in overlap'
      BY <1>1, <1>2, <2>2 DEF Mark, Rivals
    <3> QED
      BY <1>1, <1>2, <2>1, <2>2, <3>1 DEF RankingInFlight, AfterRanking, RepoWindow, Still
  <2>3. CASE pc[x] = "rankUserWrite" /\ user[x] # u
    <3>1. user[x] \in Users
      BY <1>1, <2>3, BusyHasUser
    <3>2. (read[x] = TotalsOf(user[x]))' <=> read[x] = TotalsOf(user[x])
      BY <1>3, <2>1, <3>1 DEF Still
    <3>3. OtherDirty(x) => OtherDirty(x)'
      BY <1>2 DEF OtherDirty
    <3>4. user[x] \in owed => user[x] \in owed'
      BY <1>2, <2>3
    <3>5. \A z \in Workers \ {x} :
            pc'[z] = "rankUserWrite" /\ user'[z] = user'[x] => x \in overlap'
      BY <1>1, <1>2, <2>1, <2>3 DEF RankingInFlight, TypeOK
    <3> QED
      BY <1>2, <2>1, <2>3, <3>2, <3>3, <3>4, <3>5 DEF RankingInFlight, AfterRanking, RepoWindow, Still
  <2>4. CASE pc[x] # "rankUserWrite"
    BY <2>1, <2>4 DEF RankingInFlight, Still
  <2> QED
    BY <2>2, <2>3, <2>4
<1> QED
  BY <1>1, <1>4, <1>5, <1>6 DEF RankInv, RankingFollowsSources

LEMMA RankUserWriteStep ==
  ASSUME RankInv, NEW w \in Workers, RankUserWrite(w)
  PROVE  RankInv'
<1> DEFINE u == user[w]
<1>1. Typed(w) /\ TypeOK /\ u \in Users /\ TypeOK'
  BY TypeRankUserWrite, BusyHasUser, TypedStep DEF RankInv, RankUserWrite
<1>2. /\ pc' = [pc EXCEPT ![w] = "delete"] /\ pc[w] = "rankUserWrite"
      /\ user_rankings' = [user_rankings EXCEPT ![u] = read[w]]
      /\ user' = user /\ dirty' = dirty \ {w} /\ overlap' = overlap \ {w}
      /\ owed' = IF w \in overlap THEN owed \cup {u} ELSE owed
      /\ UNCHANGED <<contributions, repositories>>
  BY <1>1 DEF RankUserWrite, WriteUserRanking, Goto
<1>3. \A v \in Users : TotalsOf(v)' = TotalsOf(v)
  BY <1>2, SameSources
<1>4. w \in overlap \/ read[w] = TotalsOf(u) \/ u \in owed \/ OtherDirty(w)
  BY <1>2 DEF RankInv, RankingInFlight
<1>5. user_rankings'[u] = read[w]
      /\ \A v \in Users \ {u} : user_rankings'[v] = user_rankings[v]
  BY <1>1, <1>2 DEF TypeOK, StoreTypeOK
<1>6. ASSUME NEW v \in Users
      PROVE  Fresh(v)' \/ v \in owed' \/ \E x \in dirty' : user'[x] = v
  <2>1. CASE v = u
    BY <1>2, <1>3, <1>4, <1>5, <2>1 DEF Fresh, OtherDirty
  <2>2. CASE v # u
    <3>1. Fresh(v) => Fresh(v)'
      BY <1>3, <1>5, <2>2 DEF Fresh
    <3> QED
      BY <1>2, <2>2, <3>1 DEF RankInv, RankingFollowsSources
  <2> QED
    BY <2>1, <2>2
<1>7. RankingInFlight(w)'
  BY <1>1, <1>2 DEF RankingInFlight, AfterRanking, RepoWindow, TypeOK
<1>8. ASSUME NEW x \in Workers \ {w} PROVE RankingInFlight(x)'
  <2>1. Still(x) /\ RankingInFlight(x) /\ (x \in overlap' <=> x \in overlap)
    BY <1>1, <1>2 DEF Typed, RankInv
  <2>2. CASE pc[x] = "rankUserWrite"
    <3>1. user[x] \in Users /\ owed \subseteq owed'
      BY <1>1, <1>2, <2>2, BusyHasUser
    <3>2. user[x] = u => x \in overlap
      BY <1>2, <2>1, <2>2 DEF RankingInFlight
    <3>3. (read[x] = TotalsOf(user[x]))' <=> read[x] = TotalsOf(user[x])
      BY <1>3, <2>1, <3>1 DEF Still
    <3>4. OtherDirty(x) /\ user[x] # u => OtherDirty(x)'
      BY <1>2 DEF OtherDirty
    <3>5. \A z \in Workers \ {x} :
            pc'[z] = "rankUserWrite" /\ user'[z] = user'[x] => x \in overlap'
      BY <1>1, <1>2, <2>1, <2>2 DEF RankingInFlight, TypeOK
    <3> QED
      BY <1>2, <2>1, <2>2, <3>1, <3>2, <3>3, <3>4, <3>5
         DEF RankingInFlight, AfterRanking, RepoWindow, Still
  <2>3. CASE pc[x] # "rankUserWrite"
    BY <2>1, <2>3 DEF RankingInFlight, Still
  <2> QED
    BY <2>2, <2>3
<1> QED
  BY <1>1, <1>6, <1>7, <1>8 DEF RankInv, RankingFollowsSources

LEMMA RankCrashStep ==
  ASSUME RankInv, Crash
  PROVE  RankInv'
<1>1. TypeOK'
  BY TypeCrash DEF RankInv
<1>2. ASSUME NEW u \in Users PROVE Fresh(u)' \/ u \in owed'
  <2>1. Fresh(u)' <=> Fresh(u)
    BY DEF Crash, tables, Fresh, TotalsOf, PublicOf, Owned
  <2> QED
    BY <2>1 DEF Crash, RankInv, RankingFollowsSources
<1>3. \A w \in Workers : pc'[w] = "idle"
  BY DEF Crash
<1> QED
  BY <1>1, <1>2, <1>3 DEF RankInv, RankingFollowsSources, RankingInFlight, AfterRanking, RepoWindow

LEMMA RankOutside ==
  ASSUME RankInv,
         \/ Tick \/ GitHubActivity
         \/ \E r \in Repos, o \in Owners : GitHubMove(r, o)
         \/ UNCHANGED vars
  PROVE  RankInv'
<1>1. TypeOK'
  BY TypeOutside DEF RankInv
<1>2. UNCHANGED <<tables, control, work, read, listed, flags, debts>>
  BY DEF Tick, GitHubActivity, GitHubMove, vars
<1>3. RankingFollowsSources'
  BY <1>2 DEF RankInv, RankingFollowsSources, Fresh, TotalsOf, PublicOf, Owned,
              tables, control, flags, debts
<1>4. \A w \in Workers : RankingInFlight(w)'
  BY <1>2 DEF RankInv, RankingInFlight, OtherDirty, TotalsOf, PublicOf, Owned,
              tables, control, flags, debts
<1> QED
  BY <1>1, <1>3, <1>4 DEF RankInv

LEMMA RankStarts ==
  ASSUME RankInv, NEW w \in Handlers,
         \/ \E u \in Users : LoginStart(w, u) \/ SyncStart(w, u)
         \/ \E r \in Repos, b \in BOOLEAN : ToggleStart(w, r, b)
  PROVE  Around(w)
<1>1. Typed(w) /\ w \in Workers /\ TypeOK
  BY TypeLoginStart, TypeSyncStart, TypeToggleStart DEF RankInv, Workers
<1>2. UNCHANGED <<contributions, repositories, user_rankings, flags, debts>>
  BY DEF LoginStart, SyncStart, ToggleStart, UpsertUser, tables
<1>3. pc'[w] \in {"fetchYears", "togglePublic"}
  BY <1>1 DEF LoginStart, SyncStart, ToggleStart, Start, Goto, TypeOK
<1>4. w \notin dirty
  BY <1>1 DEF LoginStart, SyncStart, ToggleStart, TypeOK, LocalsOK
<1> QED
  BY <1>1, <1>2, <1>3, <1>4, QuietStep DEF flags, debts, AfterRanking, RepoWindow

LEMMA RankLoop ==
  ASSUME RankInv, Loop
  PROVE  Around(Collector)
<1>1. Typed(Collector) /\ Collector \in Workers /\ TypeOK
  BY TypeCollectorTick, TypeCollectStart, TypeCollectSkip, TypeCollectEnd DEF RankInv, Workers, Loop
<1>2. UNCHANGED <<contributions, repositories, user_rankings, flags, debts>>
  BY DEF Loop, CollectorTick, CollectStart, CollectSkip, CollectEnd, tables
<1>3. pc'[Collector] \in {"nextUser", "fetchYears", "idle"}
  BY <1>1 DEF Loop, CollectorTick, CollectStart, CollectSkip, CollectEnd, IsNext, Start, Goto, control, TypeOK
<1>4. Collector \notin dirty
  BY <1>1 DEF Loop, CollectorTick, CollectStart, CollectSkip, CollectEnd, IsNext, TypeOK, LocalsOK
<1> QED
  BY <1>1, <1>2, <1>3, <1>4, QuietStep DEF flags, debts, AfterRanking, RepoWindow

LEMMA EndLabel ==
  ASSUME TypeOK, NEW w \in Workers, End(w)
  PROVE  pc'[w] \in {"nextUser", "idle"} /\ w \notin dirty' /\ \A x \in Workers \ {w} : x \in overlap => x \in overlap'
BY DEF End, Goto, TypeOK

LEMMA RankStumble ==
  ASSUME RankInv, NEW w \in Workers, Stumble(w)
  PROVE  Around(w)
<1>1. Typed(w) /\ TypeOK
  BY TypeFail, TypePassOver DEF RankInv, Stumble
<1>2. UNCHANGED <<contributions, repositories, user_rankings>>
  BY DEF Stumble, Fail, PassOver, tables
<1>3. owed \subseteq owed' /\ (\A x \in Workers \ {w} : x \in overlap => x \in overlap')
  BY <1>1, EndLabel DEF Stumble, Fail, PassOver, flags, debts
<1>4. w \in dirty => (w \in dirty' /\ user'[w] = user[w]) \/ user[w] \in owed'
  BY DEF Stumble, Fail, PassOver, Debt, flags
<1>5. pc'[w] \in {"nextUser", "idle", "fetchRepos", "rankUser", "delete", "stamp"}
  BY <1>1, EndLabel DEF Stumble, Fail, PassOver, Goto, TypeOK
<1>6. pc'[w] \in AfterRanking => w \notin dirty'
  <2>1. CASE Fail(w)
    BY <1>1, <2>1, EndLabel DEF Fail, AfterRanking, RepoWindow
  <2>2. CASE PassOver(w)
    <3>1. pc'[w] = "delete" => w \notin dirty'
      BY <1>1, <2>2 DEF PassOver, Goto, TypeOK
    <3>2. pc'[w] = "stamp" => pc[w] \in AfterRanking /\ dirty' = dirty
      BY <1>1, <2>2 DEF PassOver, Goto, TypeOK, AfterRanking
    <3> QED
      BY <1>5, <3>1, <3>2 DEF RankInv, RankingInFlight, AfterRanking, RepoWindow
  <2> QED
    BY <2>1, <2>2 DEF Stumble
<1> QED
  BY <1>1, <1>2, <1>3, <1>4, <1>5, <1>6, QuietStep

\* Calls that touch neither dirty, overlap nor owed.
LEMMA RankQuietCalls ==
  ASSUME RankInv, NEW w \in Workers,
         \/ FetchYear(w) \/ SaveStreak(w) \/ FetchRepos(w) \/ ReposSaved(w)
         \/ DeleteRead(w) \/ DeleteWrite(w) \/ RankReposRead(w)
  PROVE  Around(w)
<1>1. Typed(w) /\ TypeOK
  BY TypeFetchYear, TypeSaveStreak, TypeFetchRepos, TypeReposSaved, TypeDeleteRead,
     TypeDeleteWrite, TypeRankReposRead DEF RankInv
<1>2. /\ UNCHANGED <<contributions, repositories, user_rankings>>
      /\ UNCHANGED <<user, dirty, overlap, owed>>
  BY DEF FetchYear, SaveStreak, FetchRepos, ReposSaved, DeleteRead, DeleteWrite,
         RankReposRead, UpsertStreak, DeleteRepoRankings, tables, flags, debts
<1>3. \/ pc'[w] \in {"saveYears", "fetchYears", "fetchRepos", "saveRepos", "rankUser"}
      \/ pc'[w] \in AfterRanking /\ pc[w] \in AfterRanking
  BY <1>1 DEF FetchYear, SaveStreak, FetchRepos, ReposSaved, DeleteRead, DeleteWrite,
              RankReposRead, Goto, TypeOK, AfterRanking, RepoWindow
<1>4. pc'[w] # "rankUserWrite" /\ (pc'[w] \in AfterRanking => w \notin dirty')
  BY <1>2, <1>3 DEF AfterRanking, RepoWindow, RankInv, RankingInFlight
<1> QED
  BY <1>1, <1>2, <1>4, QuietStep

LEMMA RankLastCalls ==
  ASSUME RankInv, NEW w \in Workers, RankReposWrite(w) \/ Stamp(w)
  PROVE  Around(w)
<1>1. Typed(w) /\ TypeOK
  BY TypeRankReposWrite, TypeStamp DEF RankInv
<1>2. w \notin dirty
  BY DEF RankReposWrite, Stamp, RankInv, RankingInFlight, AfterRanking, RepoWindow
<1>3. UNCHANGED <<contributions, repositories, user_rankings, owed>>
  BY DEF RankReposWrite, Stamp, InsertRepoRankings, UpdateSyncedAt, debts
<1>4. \A x \in Workers \ {w} : x \in overlap => x \in overlap'
  BY <1>1, EndLabel DEF RankReposWrite, Stamp
<1>5. pc'[w] # "rankUserWrite" /\ w \notin dirty'
  BY <1>1, <1>2, EndLabel DEF RankReposWrite, Stamp, Goto, TypeOK
<1> QED
  BY <1>1, <1>2, <1>3, <1>4, <1>5, QuietStep

LEMMA RankNext ==
  ASSUME RankInv, [Next]_vars
  PROVE  RankInv'
<1>1. TypeOK'
  BY TypeNext DEF RankInv
<1>2. Handlers \subseteq Workers /\ Collector \in Workers
  BY DEF Workers
<1>3. CASE \/ \E w \in Handlers, u \in Users : LoginStart(w, u)
           \/ \E w \in Handlers, u \in Users : SyncStart(w, u)
           \/ \E w \in Handlers, r \in Repos, b \in BOOLEAN : ToggleStart(w, r, b)
  BY <1>1, <1>2, <1>3, RankStarts, AroundStep
<1>4. CASE Loop
  BY <1>1, <1>2, <1>4, RankLoop, AroundStep
<1>5. CASE \E w \in Workers : Stumble(w)
  BY <1>1, <1>5, RankStumble, AroundStep
<1>6. ASSUME NEW w \in Workers, Proceed(w) PROVE RankInv'
  <2>1. CASE SaveYear(w)
    BY <1>1, <2>1, RankSaveYear, AroundStep
  <2>2. CASE \E r \in Repos : SaveRepo(w, r)
    BY <1>1, <2>2, RankSaveRepo, AroundStep
  <2>3. CASE ToggleRepo(w)
    BY <1>1, <2>3, RankToggleRepo, AroundStep
  <2>4. CASE RankUserRead(w)
    BY <2>4, RankUserReadStep
  <2>5. CASE RankUserWrite(w)
    BY <2>5, RankUserWriteStep
  <2>6. CASE RankReposWrite(w) \/ Stamp(w)
    BY <1>1, <2>6, RankLastCalls, AroundStep
  <2>7. CASE \/ FetchYear(w) \/ SaveStreak(w) \/ FetchRepos(w) \/ ReposSaved(w)
             \/ DeleteRead(w) \/ DeleteWrite(w) \/ RankReposRead(w)
    BY <1>1, <2>7, RankQuietCalls, AroundStep
  <2> QED
    BY <1>6, <2>1, <2>2, <2>3, <2>4, <2>5, <2>6, <2>7 DEF Proceed
<1>7. CASE Crash
  BY <1>7, RankCrashStep
<1>8. CASE \/ Tick \/ GitHubActivity
           \/ \E r \in Repos, o \in Owners : GitHubMove(r, o)
           \/ UNCHANGED vars
  BY <1>8, RankOutside
<1> QED
  BY <1>3, <1>4, <1>5, <1>6, <1>7, <1>8 DEF Next

\* A user's ranking agrees with its contributions and public repositories,
\* or a job of the user has yet to recalculate it, or a recalculation was lost
\* or overtaken: for any number of jobs in flight, and however they interleave.
THEOREM RankingIsDerived == Spec => []RankingFollowsSources
<1>1. RankInv /\ [Next]_vars => RankInv'
  BY RankNext
<1>2. RankInv => RankingFollowsSources
  BY DEF RankInv
<1> QED
  BY <1>1, <1>2, RankInit, PTL DEF Spec

----------------------------------------------------------------------------
(* The ranking of repositories.                                            *)


\* The recalculation of w was overtaken, lost, or is owed by another worker.
Excused(w) ==
  \/ w \in overlapRepos
  \/ user[w] \in owedRepos
  \/ \E x \in dirtyRepos \ {w} : user[x] = user[w]

\* No private repository of u is in the ranking.
Unlisted(u) == \A r \in PrivateOf(u) : repo_rankings[r] = None

\* What w has read and done is right.
Right(w) ==
  /\ pc[w] = "deleteWrite" => read[w] = PrivateOf(user[w])
  /\ pc[w] = "rankRepos" => Unlisted(user[w])
  /\ pc[w] = "rankReposWrite" => read[w] = PublicOf(user[w]) /\ Unlisted(user[w])

\* What w is about to write concerns repositories of its user only.
OwnRows(w) ==
  /\ pc[w] = "deleteWrite" => \A r \in read[w] : Owned(r, user[w])
  /\ pc[w] = "rankReposWrite" =>
       \A r \in Repos : read[w][r] # None => Owned(r, user[w])

Alone(w) ==
  \A x \in Workers \ {w} :
    pc[x] \in RepoWindow /\ user[x] = user[w] => w \in overlapRepos

InFlight(w) ==
  /\ pc[w] \in RepoWindow => /\ w \in dirtyRepos
                             /\ Alone(w)
                             /\ Excused(w) \/ Right(w)
  /\ OwnRows(w)
  /\ pc[w] = "stamp" => w \notin dirtyRepos

RepoRankInv ==
  /\ TypeOK
  /\ RepoRankingFollowsSources
  /\ \A w \in Workers : InFlight(w)

LEMMA RepoRankInit == Init => RepoRankInv
<1> SUFFICES ASSUME Init PROVE RepoRankInv
  OBVIOUS
<1>1. \A u \in Users : Listed(u)
  BY DEF Init, StoreInit, Listed, Owned
<1>2. \A w \in Workers : pc[w] = "idle"
  BY DEF Init
<1> QED
  BY <1>1, <1>2, TypeInit DEF RepoRankInv, RepoRankingFollowsSources, InFlight, OwnRows, RepoWindow

----------------------------------------------------------------------------
(* Steps outside of the recalculation.                                     *)

\* The repositories of u stay as they are.
SameRows(u) ==
  \A r \in Repos : /\ Owned(r, u)' <=> Owned(r, u)
                   /\ Owned(r, u) => repositories'[r] = repositories[r]

LEMMA SameReads ==
  ASSUME NEW u \in Users, SameRows(u)
  PROVE  /\ PublicOf(u)' = PublicOf(u)
         /\ PrivateOf(u)' = PrivateOf(u)
         /\ repo_rankings' = repo_rankings => (Listed(u)' <=> Listed(u))
BY DEF SameRows, PublicOf, PrivateOf, Listed

LEMMA RightStays ==
  ASSUME NEW x \in Workers, NEW v, user[x] = v, Still(x), Right(x),
         PublicOf(v)' = PublicOf(v), PrivateOf(v)' = PrivateOf(v),
         Unlisted(v) => Unlisted(v)'
  PROVE  Right(x)'
<1>1. user'[x] = v /\ pc'[x] = pc[x] /\ read'[x] = read[x]
  BY DEF Still
<1>2. ASSUME pc[x] = "deleteWrite" PROVE read'[x] = PrivateOf(v)'
  BY <1>1, <1>2 DEF Right
<1>3. ASSUME pc[x] \in {"rankRepos", "rankReposWrite"} PROVE Unlisted(v)'
  BY <1>3 DEF Right
<1>4. ASSUME pc[x] = "rankReposWrite" PROVE read'[x] = PublicOf(v)'
  BY <1>1, <1>4 DEF Right
<1> QED
  BY <1>1, <1>2, <1>3, <1>4 DEF Right, Unlisted, PublicOf, PrivateOf, Owned

\* A step of w that is none of RecalculateUserRepos: whatever it changes in a
\* user's repositories leaves w dirty or the user owed.
AroundRepos(w) ==
  /\ repo_rankings' = repo_rankings
  /\ \A u \in Users : \/ SameRows(u)
                      \/ u \in owedRepos'
                      \/ w \in dirtyRepos' /\ user'[w] = u
  /\ \A u \in Users, r \in Repos : Owned(r, u) => Owned(r, u)'
  /\ \A x \in Workers \ {w} : Still(x) /\ (x \in overlapRepos => x \in overlapRepos')
  /\ owedRepos \subseteq owedRepos'
  /\ w \in dirtyRepos => (w \in dirtyRepos' /\ user'[w] = user[w]) \/ user[w] \in owedRepos'
  /\ pc'[w] \notin RepoWindow
  /\ pc'[w] = "stamp" => w \notin dirtyRepos'

LEMMA AroundOther ==
  ASSUME RepoRankInv, NEW w \in Workers, AroundRepos(w), NEW x \in Workers \ {w}
  PROVE  InFlight(x)'
<1>1. /\ Still(x) /\ (x \in overlapRepos => x \in overlapRepos') /\ InFlight(x)
      /\ x \in Workers
  BY DEF AroundRepos, RepoRankInv
<1>2. ASSUME pc[x] \in RepoWindow
      PROVE  /\ x \in dirtyRepos' /\ Alone(x)' /\ OwnRows(x)'
             /\ (Excused(x) \/ Right(x))'
  <2>1. user[x] \in Users
    BY <1>2, BusyHasUser DEF RepoRankInv, RepoWindow
  <2> PICK v \in Users : user[x] = v
    BY <2>1
  <2>2. x \in dirtyRepos'
    BY <1>1, <1>2 DEF Still, InFlight
  <2>3. Alone(x)'
    BY <1>1, <1>2 DEF AroundRepos, Still, InFlight, Alone
  <2>4. OwnRows(x)'
    BY <1>1, <2>1 DEF AroundRepos, Still, InFlight, OwnRows, RepoRankInv, TypeOK, LocalsOK
  <2>5. Excused(x) => Excused(x)'
    <3>1. ASSUME NEW z \in dirtyRepos \ {x}, user[z] = user[x]
          PROVE  Excused(x)'
      <4>1. z \in Workers
        BY DEF RepoRankInv, TypeOK
      <4> QED
        BY <1>1, <3>1, <4>1 DEF AroundRepos, Still, Excused
    <3> QED
      BY <1>1, <3>1 DEF Excused, AroundRepos, Still
  <2>6. CASE SameRows(v)
    <3>1. /\ PublicOf(v)' = PublicOf(v) /\ PrivateOf(v)' = PrivateOf(v)
          /\ repo_rankings' = repo_rankings
      BY <2>6, SameReads DEF AroundRepos
    <3>2. Unlisted(v) => Unlisted(v)'
      BY <3>1 DEF Unlisted
    <3>3. Right(x) => Right(x)'
      BY <1>1, <3>1, <3>2, RightStays
    <3>4. Excused(x) \/ Right(x)
      BY <1>1, <1>2 DEF InFlight
    <3>5. (Excused(x) \/ Right(x))'
      BY <2>5, <3>3, <3>4
    <3> QED
      BY <2>2, <2>3, <2>4, <3>5
  <2>7. CASE v \in owedRepos' \/ (w \in dirtyRepos' /\ user'[w] = v)
    <3>1. Excused(x)'
      BY <1>1, <2>7 DEF Excused, Still
    <3> QED
      BY <2>2, <2>3, <2>4, <3>1
  <2> QED
    BY <2>1, <2>6, <2>7 DEF AroundRepos
<1>3. CASE pc[x] \in RepoWindow
  BY <1>1, <1>2, <1>3 DEF InFlight, Still, RepoWindow
<1>4. CASE pc[x] \notin RepoWindow
  BY <1>1, <1>4 DEF InFlight, Still, RepoWindow, OwnRows
<1> QED
  BY <1>3, <1>4

LEMMA AroundReposStep ==
  ASSUME RepoRankInv, TypeOK', NEW w \in Workers, AroundRepos(w)
  PROVE  RepoRankInv'
<1>1. ASSUME NEW u \in Users
      PROVE  Listed(u)' \/ u \in owedRepos' \/ \E x \in dirtyRepos' : user'[x] = u
  <2>1. CASE Listed(u) /\ SameRows(u)
    BY <2>1, SameReads DEF AroundRepos
  <2>2. CASE u \in owedRepos' \/ (w \in dirtyRepos' /\ user'[w] = u)
    BY <2>2
  <2>3. ASSUME NEW x \in dirtyRepos, user[x] = u
        PROVE  u \in owedRepos' \/ \E z \in dirtyRepos' : user'[z] = u
    <3>1. x \in Workers
      BY DEF RepoRankInv, TypeOK
    <3> QED
      BY <2>3, <3>1 DEF AroundRepos, Still
  <2> QED
    BY <2>1, <2>2, <2>3 DEF RepoRankInv, RepoRankingFollowsSources, AroundRepos
<1>2. InFlight(w)'
  BY DEF AroundRepos, InFlight, OwnRows, RepoWindow
<1>3. \A x \in Workers \ {w} : InFlight(x)'
  BY AroundOther
<1> QED
  BY <1>1, <1>2, <1>3 DEF RepoRankInv, RepoRankingFollowsSources

LEMMA RepoSaveRepo ==
  ASSUME RepoRankInv, NEW w \in Workers, NEW r \in Repos, SaveRepo(w, r)
  PROVE  AroundRepos(w)
<1> DEFINE o == IF repositories[r] = None THEN user[w] ELSE repositories[r].owner
<1>1. Typed(w) /\ TypeOK /\ user[w] \in Users
  BY TypeSaveRepo, BusyHasUser DEF RepoRankInv, SaveRepo
<1>2. o = user[w] \/ o \in owedRepos'
  BY <1>1 DEF SaveRepo
<1>3. /\ \A q \in Repos \ {r} : repositories'[q] = repositories[q]
      /\ repositories[r] # None => repositories[r].owner = o
      /\ repositories'[r] # None => repositories'[r].owner = o
  BY <1>1 DEF SaveRepo, UpsertRepo, TypeOK, StoreTypeOK, Maybe, RepoRow
<1> HIDE DEF o
<1>4. \A u \in Users : u # o => SameRows(u)
  BY <1>3 DEF SameRows, Owned
<1>5. pc' = pc /\ pc[w] = "saveRepos" /\ user' = user /\ w \in dirtyRepos'
      /\ owedRepos \subseteq owedRepos' /\ overlapRepos' = overlapRepos
      /\ repo_rankings' = repo_rankings
  BY DEF SaveRepo, control, UpsertRepo
<1> QED
  BY <1>1, <1>2, <1>4, <1>5 DEF AroundRepos, Typed, StoreStays, RepoWindow

LEMMA RepoToggleRepo ==
  ASSUME RepoRankInv, NEW w \in Workers, ToggleRepo(w)
  PROVE  AroundRepos(w)
<1> DEFINE r == work[w].repo
<1>1. Typed(w) /\ TypeOK /\ user[w] \in Users
  BY TypeToggleRepo, BusyHasUser DEF RepoRankInv, ToggleRepo
<1>2. r \in Repos /\ Owned(r, user[w])
  BY <1>1 DEF ToggleRepo, TypeOK, LocalsOK
<1>3. /\ \A q \in Repos \ {r} : repositories'[q] = repositories[q]
      /\ repositories'[r] # None => repositories'[r].owner = user[w]
  BY <1>1, <1>2 DEF ToggleRepo, TogglePublic, TypeOK, StoreTypeOK, Maybe, RepoRow, Owned
<1> HIDE DEF r
<1>4. \A u \in Users : u # user[w] => SameRows(u)
  BY <1>2, <1>3 DEF SameRows, Owned
<1>5. pc'[w] = "rankUser" /\ user' = user /\ w \in dirtyRepos' /\ owedRepos' = owedRepos
      /\ overlapRepos' = overlapRepos /\ repo_rankings' = repo_rankings
  BY <1>1 DEF ToggleRepo, TogglePublic, Goto, TypeOK, debts
<1> QED
  BY <1>1, <1>4, <1>5 DEF AroundRepos, Typed, StoreStays, RepoWindow

\* Every other step leaves the repositories and their ranking alone.
LEMMA QuietRepoStep ==
  ASSUME RepoRankInv, NEW w \in Workers, Typed(w),
         UNCHANGED <<repositories, repo_rankings>>,
         \A x \in Workers \ {w} : x \in overlapRepos => x \in overlapRepos',
         owedRepos \subseteq owedRepos',
         w \in dirtyRepos => (w \in dirtyRepos' /\ user'[w] = user[w]) \/ user[w] \in owedRepos',
         pc'[w] \notin RepoWindow,
         pc'[w] = "stamp" => w \notin dirtyRepos'
  PROVE  AroundRepos(w)
BY DEF AroundRepos, Typed, SameRows, Owned

LEMMA RepoStarts ==
  ASSUME RepoRankInv, NEW w \in Handlers,
         \/ \E u \in Users : LoginStart(w, u) \/ SyncStart(w, u)
         \/ \E r \in Repos, b \in BOOLEAN : ToggleStart(w, r, b)
  PROVE  AroundRepos(w)
<1>1. Typed(w) /\ w \in Workers /\ TypeOK
  BY TypeLoginStart, TypeSyncStart, TypeToggleStart DEF RepoRankInv, Workers
<1>2. UNCHANGED <<repositories, repo_rankings, flags, debts>>
  BY DEF LoginStart, SyncStart, ToggleStart, UpsertUser, tables
<1>3. pc'[w] \in {"fetchYears", "togglePublic"}
  BY <1>1 DEF LoginStart, SyncStart, ToggleStart, Start, Goto, TypeOK
<1>4. w \notin dirtyRepos
  BY <1>1 DEF LoginStart, SyncStart, ToggleStart, TypeOK, LocalsOK
<1> QED
  BY <1>1, <1>2, <1>3, <1>4, QuietRepoStep DEF flags, debts, RepoWindow

LEMMA RepoLoop ==
  ASSUME RepoRankInv, Loop
  PROVE  AroundRepos(Collector)
<1>1. Typed(Collector) /\ Collector \in Workers /\ TypeOK
  BY TypeCollectorTick, TypeCollectStart, TypeCollectSkip, TypeCollectEnd DEF RepoRankInv, Workers, Loop
<1>2. UNCHANGED <<repositories, repo_rankings, flags, debts>>
  BY DEF Loop, CollectorTick, CollectStart, CollectSkip, CollectEnd, tables
<1>3. pc'[Collector] \in {"nextUser", "fetchYears", "idle"}
  BY <1>1 DEF Loop, CollectorTick, CollectStart, CollectSkip, CollectEnd, IsNext, Start, Goto, control, TypeOK
<1>4. Collector \notin dirtyRepos
  BY <1>1 DEF Loop, CollectorTick, CollectStart, CollectSkip, CollectEnd, IsNext, TypeOK, LocalsOK
<1> QED
  BY <1>1, <1>2, <1>3, <1>4, QuietRepoStep DEF flags, debts, RepoWindow

LEMMA EndOfJob ==
  ASSUME TypeOK, NEW w \in Workers, End(w)
  PROVE  /\ pc'[w] \in {"nextUser", "idle"}
         /\ dirtyRepos' = dirtyRepos \ {w}
         /\ overlapRepos' = overlapRepos \ {w}
BY DEF End, Goto, TypeOK

LEMMA RepoStumble ==
  ASSUME RepoRankInv, NEW w \in Workers, Stumble(w)
  PROVE  AroundRepos(w)
<1>1. Typed(w) /\ TypeOK
  BY TypeFail, TypePassOver DEF RepoRankInv, Stumble
<1>2. UNCHANGED <<repositories, repo_rankings>>
  BY DEF Stumble, Fail, PassOver, tables
<1>3. owedRepos \subseteq owedRepos' /\ (\A x \in Workers \ {w} : x \in overlapRepos => x \in overlapRepos')
  BY <1>1, EndOfJob DEF Stumble, Fail, PassOver, flags, debts
<1>4. w \in dirtyRepos => (w \in dirtyRepos' /\ user'[w] = user[w]) \/ user[w] \in owedRepos'
  BY DEF Stumble, Fail, PassOver, Debt, flags, debts
<1>5. pc'[w] \in {"nextUser", "idle", "fetchRepos", "rankUser", "delete", "stamp"}
  BY <1>1, EndOfJob DEF Stumble, Fail, PassOver, Goto, TypeOK
<1>6. pc'[w] = "stamp" => w \notin dirtyRepos'
  BY <1>1, EndOfJob DEF Stumble, Fail, PassOver, Goto, TypeOK
<1> QED
  BY <1>1, <1>2, <1>3, <1>4, <1>5, <1>6, QuietRepoStep DEF RepoWindow

\* The calls that do not concern the repositories or their ranking.
LEMMA RepoQuietCalls ==
  ASSUME RepoRankInv, NEW w \in Workers,
         \/ FetchYear(w) \/ SaveYear(w) \/ SaveStreak(w) \/ FetchRepos(w) \/ ReposSaved(w)
         \/ RankUserRead(w) \/ RankUserWrite(w)
  PROVE  AroundRepos(w)
<1>1. Typed(w) /\ TypeOK
  BY TypeFetchYear, TypeSaveYear, TypeSaveStreak, TypeFetchRepos, TypeReposSaved, TypeRankUserRead,
     TypeRankUserWrite DEF RepoRankInv
<1>2. /\ UNCHANGED <<repositories, repo_rankings>>
      /\ UNCHANGED <<user, dirtyRepos, overlapRepos, owedRepos>>
  BY DEF FetchYear, SaveYear, SaveStreak, FetchRepos, ReposSaved, RankUserRead, RankUserWrite,
         UpsertYear, UpsertStreak, WriteUserRanking, tables, flags, debts
<1>3. pc'[w] \in {"saveYears", "fetchYears", "saveStreak", "fetchRepos", "saveRepos", "rankUser",
                  "rankUserWrite", "delete"}
  BY <1>1 DEF FetchYear, SaveYear, SaveStreak, FetchRepos, ReposSaved, RankUserRead, RankUserWrite,
              Goto, TypeOK
<1> QED
  BY <1>1, <1>2, <1>3, QuietRepoStep DEF RepoWindow

LEMMA RepoStamp ==
  ASSUME RepoRankInv, NEW w \in Workers, Stamp(w)
  PROVE  AroundRepos(w)
<1>1. Typed(w) /\ TypeOK
  BY TypeStamp DEF RepoRankInv
<1>2. w \notin dirtyRepos
  BY DEF Stamp, RepoRankInv, InFlight
<1>3. UNCHANGED <<repositories, repo_rankings, owedRepos>>
  BY DEF Stamp, UpdateSyncedAt, debts
<1>4. pc'[w] \in {"nextUser", "idle"} /\ dirtyRepos' = dirtyRepos \ {w} /\ overlapRepos' = overlapRepos \ {w}
  BY <1>1, EndOfJob DEF Stamp
<1> QED
  BY <1>1, <1>2, <1>3, <1>4, QuietRepoStep DEF RepoWindow

----------------------------------------------------------------------------
(* The four steps of RecalculateUserRepos.                                 *)

\* Such a step of w writes rows of its user only; the other workers of that
\* user that are in a recalculation are marked as overtaken.
Inside(w) ==
  /\ repositories' = repositories
  /\ user[w] \in Users
  /\ \A r \in Repos : ~Owned(r, user[w]) => repo_rankings'[r] = repo_rankings[r]
  /\ \A x \in Workers \ {w} :
       /\ Still(x)
       /\ x \in overlapRepos => x \in overlapRepos'
       /\ pc[x] \in RepoWindow /\ user[x] = user[w] => x \in overlapRepos'
  /\ \A v \in Users \ {user[w]} : v \in owedRepos => v \in owedRepos'
  /\ pc'[w] \in RepoWindow => user'[w] = user[w]

LEMMA OneOwner ==
  ASSUME NEW r, NEW u, NEW v, Owned(r, u), Owned(r, v)
  PROVE  u = v
BY DEF Owned

LEMMA InsideOther ==
  ASSUME RepoRankInv, NEW w \in Workers, Inside(w), NEW x \in Workers \ {w}
  PROVE  InFlight(x)'
<1>1. Still(x) /\ InFlight(x) /\ x \in Workers
  BY DEF Inside, RepoRankInv
<1>2. /\ \A v : PublicOf(v)' = PublicOf(v) /\ PrivateOf(v)' = PrivateOf(v)
      /\ \A r, v : Owned(r, v)' <=> Owned(r, v)
  BY DEF Inside, PublicOf, PrivateOf, Owned
<1>3. OwnRows(x)'
  BY <1>1, <1>2 DEF Still, InFlight, OwnRows
<1>4. CASE pc[x] \notin RepoWindow
  BY <1>1, <1>3, <1>4 DEF InFlight, Still
<1>5. CASE pc[x] \in RepoWindow
  <2>1. user[x] \in Users
    BY <1>5, BusyHasUser DEF RepoRankInv, RepoWindow
  <2>2. x \in dirtyRepos' /\ pc'[x] # "stamp"
    BY <1>1, <1>5 DEF Still, InFlight, RepoWindow
  <2>3. Alone(x)'
    BY <1>1, <1>5 DEF Inside, Still, InFlight, Alone
  <2>4. (Excused(x) \/ Right(x))'
    <3>1. CASE user[x] = user[w]
      BY <1>5, <3>1 DEF Inside, Excused
    <3>2. CASE user[x] # user[w]
      <4>1. Excused(x) => Excused(x)'
        <5>1. ASSUME NEW z \in dirtyRepos \ {x}, user[z] = user[x]
              PROVE  Excused(x)'
          <6>1. z \in Workers \ {w}
            BY <3>2, <5>1 DEF RepoRankInv, TypeOK
          <6> QED
            BY <1>1, <5>1, <6>1 DEF Inside, Still, Excused
        <5> QED
          BY <1>1, <2>1, <3>2, <5>1 DEF Excused, Inside, Still
      <4>2. PICK v \in Users : user[x] = v
        BY <2>1
      <4>3. Unlisted(v) => Unlisted(v)'
        <5>1. \A r \in PrivateOf(v) : r \in Repos /\ ~Owned(r, user[w])
          BY <3>2, <4>2, OneOwner DEF PrivateOf
        <5>2. PrivateOf(v)' = PrivateOf(v)
          BY <1>2
        <5> QED
          BY <5>1, <5>2 DEF Unlisted, Inside
      <4>4. Right(x) => Right(x)'
        BY <1>1, <1>2, <4>2, <4>3, RightStays
      <4> QED
        BY <1>1, <1>5, <4>1, <4>4 DEF InFlight
    <3> QED
      BY <3>1, <3>2
  <2> QED
    BY <1>3, <2>2, <2>3, <2>4 DEF InFlight
<1> QED
  BY <1>4, <1>5

LEMMA InsideOthersFollow ==
  ASSUME RepoRankInv, NEW w \in Workers, Inside(w), NEW v \in Users, v # user[w]
  PROVE  Listed(v)' \/ v \in owedRepos' \/ \E x \in dirtyRepos' : user'[x] = v
<1>1. CASE Listed(v)
  <2>1. \A r \in Repos : Owned(r, v) => repo_rankings'[r] = repo_rankings[r]
    BY OneOwner DEF Inside
  <2> QED
    BY <1>1, <2>1 DEF Listed, Inside, Owned
<1>2. CASE v \in owedRepos
  BY <1>2 DEF Inside
<1>3. ASSUME NEW x \in dirtyRepos, user[x] = v
      PROVE  \E z \in dirtyRepos' : user'[z] = v
  <2>1. x \in Workers \ {w}
    BY <1>3 DEF RepoRankInv, TypeOK
  <2> QED
    BY <1>3, <2>1 DEF Inside, Still
<1> QED
  BY <1>1, <1>2, <1>3 DEF RepoRankInv, RepoRankingFollowsSources

LEMMA InsideStep ==
  ASSUME RepoRankInv, TypeOK', NEW w \in Workers, Inside(w), InFlight(w)',
         NEW u \in Users, user[w] = u,
         Listed(u)' \/ u \in owedRepos' \/ \E x \in dirtyRepos' : user'[x] = u
  PROVE  RepoRankInv'
<1>1. \A v \in Users : Listed(v)' \/ v \in owedRepos' \/ \E x \in dirtyRepos' : user'[x] = v
  <2> TAKE v \in Users
  <2>1. CASE v # u
    BY <2>1, InsideOthersFollow
  <2>2. CASE v = u
    BY <2>2
  <2> QED
    BY <2>1, <2>2
<1>2. \A x \in Workers : InFlight(x)'
  BY InsideOther
<1> QED
  BY <1>1, <1>2 DEF RepoRankInv, RepoRankingFollowsSources

\* DeleteRead starts it: what it reads is what it must delete.
LEMMA RepoDeleteRead ==
  ASSUME RepoRankInv, TypeOK', NEW w \in Workers, DeleteRead(w)
  PROVE  RepoRankInv'
<1>1. Typed(w) /\ TypeOK /\ user[w] \in Users
  BY TypeDeleteRead, BusyHasUser DEF RepoRankInv, DeleteRead
<1>3. /\ pc'[w] = "deleteWrite" /\ read'[w] = PrivateOf(user[w])
      /\ user' = user /\ repositories' = repositories /\ repo_rankings' = repo_rankings
      /\ dirtyRepos' = dirtyRepos \cup {w}
      /\ owedRepos' = owedRepos \ {user[w]}
      /\ overlapRepos' = Mark(overlapRepos, w, {x \in Rivals(w) : pc[x] \in RepoWindow})
  BY <1>1 DEF DeleteRead, Goto, TypeOK, tables
<1>4. \A x \in Workers \ {w} : Still(x)
  BY <1>1 DEF Typed
<1>5. /\ overlapRepos \subseteq overlapRepos'
      /\ \A x \in Workers \ {w} : pc[x] \in RepoWindow /\ user[x] = user[w] =>
           x \in overlapRepos' /\ w \in overlapRepos'
  BY <1>3 DEF Mark, Rivals
<1>6. Inside(w)
  BY <1>1, <1>3, <1>4, <1>5 DEF Inside
<1>7. Alone(w)'
  BY <1>3, <1>4, <1>5 DEF Alone, Still
<1>8. PICK u \in Users : user[w] = u
  BY <1>1
<1>9. read'[w] = PrivateOf(u)' /\ user'[w] = u
  BY <1>3, <1>8 DEF PrivateOf, Owned
<1>10. InFlight(w)'
  <2>1. Right(w)'
    BY <1>3, <1>9 DEF Right, PrivateOf, Owned
  <2>2. OwnRows(w)'
    BY <1>3, <1>9 DEF OwnRows, PrivateOf, Owned
  <2> QED
    BY <1>3, <1>7, <2>1, <2>2 DEF InFlight, RepoWindow
<1> QED
  BY <1>3, <1>6, <1>8, <1>10, InsideStep

\* Between two steps of a recalculation its worker stays dirty.
LEMMA Between ==
  ASSUME RepoRankInv, TypeOK', NEW w \in Workers, Typed(w), user[w] \in Users,
         pc[w] \in RepoWindow, pc'[w] \in RepoWindow,
         UNCHANGED <<user, repositories, flags, debts>>,
         \A r \in Repos : ~Owned(r, user[w]) => repo_rankings'[r] = repo_rankings[r],
         OwnRows(w)', Right(w) => Right(w)'
  PROVE  RepoRankInv'
<1>2. \A x \in Workers \ {w} : Still(x)
  BY DEF Typed
<1>3. w \in dirtyRepos /\ Alone(w) /\ (Excused(w) \/ Right(w))
  BY DEF RepoRankInv, InFlight
<1>4. ASSUME NEW x \in Workers \ {w}, pc[x] \in RepoWindow, user[x] = user[w]
      PROVE  x \in overlapRepos
  BY <1>4 DEF RepoRankInv, InFlight, Alone
<1>5. Inside(w)
  BY <1>2, <1>4 DEF Inside, flags, debts
<1>6. Alone(w)'
  BY <1>2, <1>3 DEF Alone, Still, flags
<1>7. Excused(w) => Excused(w)'
  BY DEF Excused, flags, debts
<1>8. InFlight(w)'
  BY <1>3, <1>6, <1>7 DEF InFlight, flags, RepoWindow
<1>9. PICK u \in Users : user[w] = u
  OBVIOUS
<1>10. w \in dirtyRepos' /\ user'[w] = u
  BY <1>3, <1>9 DEF flags
<1> QED
  BY <1>5, <1>8, <1>9, <1>10, InsideStep

LEMMA RepoDeleteWrite ==
  ASSUME RepoRankInv, TypeOK', NEW w \in Workers, DeleteWrite(w)
  PROVE  RepoRankInv'
<1>1. Typed(w) /\ TypeOK /\ user[w] \in Users
  BY TypeDeleteWrite, BusyHasUser DEF RepoRankInv, DeleteWrite
<1>2. /\ pc[w] = "deleteWrite" /\ pc'[w] = "rankRepos"
      /\ repo_rankings' = [r \in Repos |-> IF r \in read[w] THEN None ELSE repo_rankings[r]]
      /\ UNCHANGED <<user, repositories, flags, debts>>
  BY <1>1 DEF DeleteWrite, DeleteRepoRankings, Goto, TypeOK
<1>3. \A r \in read[w] : Owned(r, user[w])
  BY <1>2 DEF RepoRankInv, InFlight, OwnRows
<1>4. OwnRows(w)'
  BY <1>2 DEF OwnRows
<1>5. PICK u \in Users : user[w] = u
  BY <1>1
<1>6. Right(w) => Right(w)'
  <2> HAVE Right(w)
  <2>1. read[w] = PrivateOf(u)
    BY <1>2, <1>5 DEF Right
  <2>2. PrivateOf(u)' = PrivateOf(u) /\ PrivateOf(u) \subseteq Repos /\ user'[w] = u
    BY <1>2, <1>5 DEF PrivateOf, Owned
  <2>3. Unlisted(u)'
    BY <1>2, <2>1, <2>2 DEF Unlisted
  <2> QED
    BY <1>2, <2>2, <2>3 DEF Right, Unlisted, PrivateOf, Owned
<1> QED
  BY <1>1, <1>2, <1>3, <1>4, <1>6, Between DEF RepoWindow

LEMMA RepoRankReposRead ==
  ASSUME RepoRankInv, TypeOK', NEW w \in Workers, RankReposRead(w)
  PROVE  RepoRankInv'
<1>1. Typed(w) /\ TypeOK /\ user[w] \in Users
  BY TypeRankReposRead, BusyHasUser DEF RepoRankInv, RankReposRead
<1>2. /\ pc[w] = "rankRepos" /\ pc'[w] = "rankReposWrite"
      /\ read'[w] = PublicOf(user[w])
      /\ UNCHANGED <<user, repositories, repo_rankings, flags, debts>>
  BY <1>1 DEF RankReposRead, Goto, TypeOK, tables, control
<1>3. PICK u \in Users : user[w] = u
  BY <1>1
<1>4. read'[w] = PublicOf(u)' /\ user'[w] = u
  BY <1>2, <1>3 DEF PublicOf, Owned
<1>5. OwnRows(w)'
  BY <1>2, <1>4 DEF OwnRows, PublicOf, Owned
<1>6. Right(w) => Right(w)'
  BY <1>2, <1>3, <1>4 DEF Right, Unlisted, PublicOf, PrivateOf, Owned
<1> QED
  BY <1>1, <1>2, <1>5, <1>6, Between DEF RepoWindow

\* RankReposWrite ends it.  If it was overtaken the user is owed another;
\* else the user's rows are right, or someone else will put them right.
LEMMA RepoRankReposWrite ==
  ASSUME RepoRankInv, TypeOK', NEW w \in Workers, RankReposWrite(w)
  PROVE  RepoRankInv'
<1>1. Typed(w) /\ TypeOK /\ user[w] \in Users
  BY TypeRankReposWrite, BusyHasUser DEF RepoRankInv, RankReposWrite
<1>3. /\ pc[w] = "rankReposWrite"
      /\ repositories' = repositories
      /\ repo_rankings' = [r \in Repos |-> IF read[w][r] # None THEN read[w][r]
                                            ELSE repo_rankings[r]]
      /\ owedRepos' = IF w \in overlapRepos THEN owedRepos \cup {user[w]} ELSE owedRepos
  BY DEF RankReposWrite, InsertRepoRankings
<1>4. /\ pc'[w] \in {"stamp", "nextUser", "idle"}
      /\ dirtyRepos' = dirtyRepos \ {w} /\ overlapRepos' = overlapRepos \ {w}
  BY <1>1, EndOfJob DEF RankReposWrite, Goto, TypeOK
<1>5. \A x \in Workers \ {w} : Still(x)
  BY <1>1 DEF Typed
<1>6. InFlight(w) /\ \A x \in Workers : InFlight(x)
  BY DEF RepoRankInv
<1>7. Inside(w)
  BY <1>1, <1>3, <1>4, <1>5, <1>6 DEF Inside, InFlight, OwnRows, Alone, RepoWindow
<1>8. InFlight(w)'
  BY <1>4 DEF InFlight, OwnRows, RepoWindow
<1>9. PICK u \in Users : user[w] = u
  BY <1>1
<1>10. Listed(u)' \/ u \in owedRepos' \/ \E x \in dirtyRepos' : user'[x] = u
  <2>1. CASE w \in overlapRepos \/ u \in owedRepos
    BY <1>3, <1>9, <2>1
  <2>2. ASSUME NEW x \in dirtyRepos \ {w}, user[x] = u
        PROVE  \E z \in dirtyRepos' : user'[z] = u
    BY <1>1, <1>4, <1>5, <2>2 DEF Still, TypeOK
  <2>3. CASE Right(w)
    <3>1. read[w] = PublicOf(u) /\ Unlisted(u)
      BY <1>3, <1>9, <2>3 DEF Right
    <3>2. ASSUME NEW r \in Repos, Owned(r, u)
          PROVE  repo_rankings'[r] = IF repositories[r].is_public
                                     THEN repositories[r].stats ELSE None
      <4>1. CASE repositories[r].is_public
        <5>1. read[w][r] = repositories[r].stats
          BY <3>1, <3>2, <4>1 DEF PublicOf
        <5>2. repositories[r].stats \in Nat
          BY <1>1, <3>2 DEF Owned, TypeOK, StoreTypeOK, Maybe, RepoRow
        <5> QED
          BY <1>3, <4>1, <5>1, <5>2, NoneIsNothing
      <4>2. CASE ~repositories[r].is_public
        <5>1. read[w][r] = None
          BY <3>1, <4>2 DEF PublicOf
        <5>2. repo_rankings[r] = None
          BY <3>1, <3>2, <4>2 DEF Unlisted, PrivateOf
        <5> QED
          BY <1>3, <4>2, <5>1, <5>2
      <4> QED
        BY <4>1, <4>2
    <3> QED
      BY <1>3, <3>2 DEF Listed, Owned
  <2> QED
    BY <1>3, <1>6, <1>9, <2>1, <2>2, <2>3 DEF InFlight, Excused, RepoWindow
<1> QED
  BY <1>7, <1>8, <1>9, <1>10, InsideStep

----------------------------------------------------------------------------
(* A crash, the world outside, and the theorem.                            *)

LEMMA RepoCrashStep ==
  ASSUME RepoRankInv, Crash
  PROVE  RepoRankInv'
<1>1. TypeOK'
  BY TypeCrash DEF RepoRankInv
<1>2. /\ pc' = [w \in Workers |-> "idle"]
      /\ owedRepos' = owedRepos \cup {user[w] : w \in dirtyRepos}
      /\ repositories' = repositories /\ repo_rankings' = repo_rankings
  BY DEF Crash, tables
<1>3. \A u \in Users : Listed(u)' \/ u \in owedRepos'
  BY <1>2 DEF RepoRankInv, RepoRankingFollowsSources, Listed, Owned
<1>4. \A w \in Workers : InFlight(w)'
  BY <1>2 DEF InFlight, OwnRows, RepoWindow
<1> QED
  BY <1>1, <1>3, <1>4 DEF RepoRankInv, RepoRankingFollowsSources

LEMMA RepoOutside ==
  ASSUME RepoRankInv,
         \/ Tick \/ GitHubActivity
         \/ \E r \in Repos, o \in Owners : GitHubMove(r, o)
         \/ UNCHANGED vars
  PROVE  RepoRankInv'
<1>1. TypeOK'
  BY TypeOutside DEF RepoRankInv
<1>2. UNCHANGED <<repositories, repo_rankings, pc, user, read, dirtyRepos, overlapRepos, owedRepos>>
  BY DEF Tick, GitHubActivity, GitHubMove, vars, tables, control, flags, debts
<1> QED
  BY <1>1, <1>2 DEF RepoRankInv, RepoRankingFollowsSources, Listed, Owned, InFlight, OwnRows,
                    Alone, Excused, Right, Unlisted, PublicOf, PrivateOf

LEMMA RepoRankNext ==
  ASSUME RepoRankInv, [Next]_vars
  PROVE  RepoRankInv'
<1>1. TypeOK'
  BY TypeNext DEF RepoRankInv
<1>2. Handlers \subseteq Workers /\ Collector \in Workers
  BY DEF Workers
<1>3. CASE \/ \E w \in Handlers, u \in Users : LoginStart(w, u)
           \/ \E w \in Handlers, u \in Users : SyncStart(w, u)
           \/ \E w \in Handlers, r \in Repos, b \in BOOLEAN : ToggleStart(w, r, b)
  BY <1>1, <1>2, <1>3, RepoStarts, AroundReposStep
<1>4. CASE Loop
  BY <1>1, <1>2, <1>4, RepoLoop, AroundReposStep
<1>5. CASE \E w \in Workers : Stumble(w)
  BY <1>1, <1>5, RepoStumble, AroundReposStep
<1>6. ASSUME NEW w \in Workers, Proceed(w) PROVE RepoRankInv'
  <2>1. CASE \E r \in Repos : SaveRepo(w, r)
    BY <1>1, <2>1, RepoSaveRepo, AroundReposStep
  <2>2. CASE ToggleRepo(w)
    BY <1>1, <2>2, RepoToggleRepo, AroundReposStep
  <2>3. CASE \/ FetchYear(w) \/ SaveYear(w) \/ SaveStreak(w) \/ FetchRepos(w) \/ ReposSaved(w)
             \/ RankUserRead(w) \/ RankUserWrite(w)
    BY <1>1, <2>3, RepoQuietCalls, AroundReposStep
  <2>4. CASE Stamp(w)
    BY <1>1, <2>4, RepoStamp, AroundReposStep
  <2>5. CASE DeleteRead(w) \/ DeleteWrite(w) \/ RankReposRead(w) \/ RankReposWrite(w)
    BY <1>1, <2>5, RepoDeleteRead, RepoDeleteWrite, RepoRankReposRead, RepoRankReposWrite
  <2> QED
    BY <1>6, <2>1, <2>2, <2>3, <2>4, <2>5 DEF Proceed
<1>7. CASE Crash
  BY <1>7, RepoCrashStep
<1>8. CASE \/ Tick \/ GitHubActivity
           \/ \E r \in Repos, o \in Owners : GitHubMove(r, o)
           \/ UNCHANGED vars
  BY <1>8, RepoOutside
<1> QED
  BY <1>3, <1>4, <1>5, <1>6, <1>7, <1>8 DEF Next

\* The rows of a user's repositories in the ranking are what
\* RecalculateUserRepos would leave, or a job of the user has yet to run it,
\* or a run was lost or overtaken: although it is two statements without a
\* transaction, for any number of jobs and repositories.
THEOREM RepoRankingIsDerived == Spec => []RepoRankingFollowsSources
<1>1. RepoRankInv /\ [Next]_vars => RepoRankInv'
  BY RepoRankNext
<1>2. RepoRankInv => RepoRankingFollowsSources
  BY DEF RepoRankInv
<1> QED
  BY <1>1, <1>2, RepoRankInit, PTL DEF Spec

----------------------------------------------------------------------------
(* Healed stays healed.                                                    *)
(*                                                                         *)
(* If what is stored about a user is what GitHub says, and every job has   *)
(* fetched and read just that, then each statement about the user writes   *)
(* what is there already.  That a streak is computed only when every year  *)
(* has been fetched is an invariant of its own (FetchedInv), and that      *)
(* recalculations of other users write other rows is in RepoRankInv.       *)

\* A world that calms down is one of SyncJobs: what is proved of its jobs holds
\* there too.
THEOREM HealingIsOrdinary == HealingSpec => Spec
<1>1. HealingInit => Init
  BY DEF HealingInit
<1>2. [HealingNext]_healingVars => [Next]_vars
  BY DEF HealingNext, healingVars, Ordinary, Disturbance, Next, Loop
<1> QED
  BY <1>1, <1>2, PTL DEF HealingSpec, Spec

\* The years that a job has not fetched are those it is still to fetch.
Fetched(w) ==
  /\ pc[w] \in {"fetchYears", "saveYears", "saveStreak", "fetchRepos"} =>
       \A y \in Years : work[w].fetched[y] # None \/ y \in work[w].toFetch
  /\ pc[w] = "saveStreak" => work[w].toFetch = {}

FetchedInv == TypeOK /\ \A w \in Workers : Fetched(w)

LEMMA FetchedInit == Init => FetchedInv
BY TypeInit DEF Init, FetchedInv, Fetched

LEMMA FetchedProceed ==
  ASSUME FetchedInv, NEW w \in Workers, Proceed(w)
  PROVE  Fetched(w)'
<1> USE DEF FetchedInv
<1>1. CASE FetchYear(w)
  <2> PICK y \in Years : GetsYear(w, y)
    BY <1>1, LatestIn DEF FetchYear, GetsYear, TypeOK, LocalsOK, Work
  <2>1. /\ work'[w].toFetch = work[w].toFetch \ {y}
        /\ work'[w].fetched = [work[w].fetched EXCEPT ![y] = ghVersion]
        /\ work[w].fetched \in YearData /\ ghVersion # None
    BY YearFetched, NoneIsNothing DEF TypeOK, Work
  <2>2. pc[w] = "fetchYears" /\ pc'[w] # "saveStreak"
    BY <1>1 DEF FetchYear, Goto, TypeOK
  <2> QED
    BY <2>1, <2>2 DEF Fetched, YearData
<1>2. CASE SaveYear(w)
  <2> PICK y \in Years : work' = [work EXCEPT ![w].toSave = work[w].toSave \ {y}]
    BY <1>2, LatestIn DEF SaveYear, TypeOK, LocalsOK, Work
  <2>1. work'[w].toFetch = work[w].toFetch /\ work'[w].fetched = work[w].fetched
    BY YearSaved
  <2>2. pc[w] = "saveYears" /\ (pc'[w] = "saveStreak" => work[w].toFetch = {})
    BY <1>2 DEF SaveYear, Goto, TypeOK
  <2> QED
    BY <2>1, <2>2 DEF Fetched
<1>3. CASE SaveStreak(w)
  BY <1>3 DEF SaveStreak, Goto, TypeOK, Fetched
<1>4. CASE FetchRepos(w)
  <2> PICK page \in FirstPage(user[w]) :
        GetsRepos(w, [r \in Repos |-> IF r \in page THEN ghVersion ELSE None], page)
    BY <1>4 DEF FetchRepos, GetsRepos
  <2>1. page \in SUBSET Repos
    BY DEF FirstPage
  <2>2. [r \in Repos |-> IF r \in page THEN ghVersion ELSE None] \in RepoData
    BY DEF RepoData, Maybe, TypeOK
  <2>3. work'[w].toFetch = work[w].toFetch /\ work'[w].fetched = work[w].fetched
    BY <2>1, <2>2, ReposFetched
  <2>4. pc[w] = "fetchRepos" /\ pc'[w] \in {"saveYears", "saveRepos"}
    BY <1>4 DEF FetchRepos, Goto, TypeOK
  <2> QED
    BY <2>3, <2>4 DEF Fetched
<1>5. ASSUME NEW r \in Repos, SaveRepo(w, r) PROVE Fetched(w)'
  BY <1>5 DEF SaveRepo, control, Fetched
<1>6. ASSUME End(w) PROVE Fetched(w)'
  BY <1>6 DEF End, Goto, TypeOK, Fetched
<1>7. CASE \/ ReposSaved(w) \/ ToggleRepo(w) \/ RankUserRead(w) \/ RankUserWrite(w)
           \/ DeleteRead(w) \/ DeleteWrite(w) \/ RankReposRead(w) \/ RankReposWrite(w)
           \/ Stamp(w)
  BY <1>6, <1>7 DEF ReposSaved, ToggleRepo, RankUserRead, RankUserWrite, DeleteRead,
     DeleteWrite, RankReposRead, RankReposWrite, Stamp, Goto, TypeOK, Fetched
<1> QED
  BY <1>1, <1>2, <1>3, <1>4, <1>5, <1>7 DEF Proceed

LEMMA FetchedMove ==
  ASSUME FetchedInv, NEW w \in Workers, Moves(w)
  PROVE  Fetched(w)'
<1> USE DEF FetchedInv
<1>1. ASSUME NEW k, NEW u, Start(w, k, u, "fetchYears", FetchAllYears)
      PROVE  Fetched(w)'
  BY <1>1 DEF Start, Goto, TypeOK, Fetched, FetchAllYears, NoWork
<1>2. ASSUME NEW u \in Users, LoginStart(w, u) \/ SyncStart(w, u)
      PROVE  Fetched(w)'
  BY <1>1, <1>2 DEF LoginStart, SyncStart
<1>3. ASSUME NEW r \in Repos, NEW b \in BOOLEAN, ToggleStart(w, r, b)
      PROVE  Fetched(w)'
  BY <1>3 DEF ToggleStart, Start, Goto, TypeOK, Fetched
<1>4. ASSUME w = Collector, CollectorTick \/ CollectEnd \/ \E u \in Users : CollectStart(u)
      PROVE  Fetched(w)'
  BY <1>1, <1>4 DEF CollectorTick, CollectEnd, CollectStart, Goto, TypeOK, Fetched
<1>5. CASE Fail(w)
  BY <1>5 DEF Fail, End, Goto, TypeOK, Fetched
<1>6. CASE PassOver(w)
  <2>1. pc[w] = "saveStreak" => work' = work
    BY <1>6 DEF PassOver
  <2>2. pc'[w] \in {"fetchRepos", "rankUser", "delete", "stamp"}
        /\ (pc'[w] = "fetchRepos" => pc[w] = "saveStreak")
    BY <1>6 DEF PassOver, Goto, TypeOK
  <2> QED
    BY <2>1, <2>2 DEF Fetched
<1> QED
  BY <1>2, <1>3, <1>4, <1>5, <1>6, FetchedProceed DEF Moves, Stumble

LEMMA FetchedNext ==
  ASSUME FetchedInv, [Next]_vars
  PROVE  FetchedInv'
<1>1. TypeOK'
  BY TypeNext DEF FetchedInv
<1>2. ASSUME NEW w \in Workers PROVE Fetched(w)'
  <2>1. CASE Still(w)
    BY <2>1 DEF FetchedInv, Fetched, Still
  <2>2. CASE Crash
    BY <2>2 DEF Crash, Fetched
  <2> QED
    BY <2>1, <2>2, MovesOrNot, FetchedMove DEF FetchedInv
<1> QED
  BY <1>1, <1>2 DEF FetchedInv

\* Rows of repositories of u, and those GitHub says are of u, keep their numbers.
SameConcerns(u) ==
  /\ SameRows(u)
  /\ \A r \in Repos :
       /\ repositories[r] # None => repositories'[r] # None
       /\ Concerns(r, u) => repositories'[r].stats = repositories[r].stats

\* What is saved of a settled user is stored already.
LEMMA YearsSettled ==
  ASSUME TypeOK, [Next]_vars, NEW u \in Users, Settled(u)
  PROVE  contributions'[u] = contributions[u]
<1>1. ASSUME NEW w \in Workers, SaveYear(w) PROVE contributions'[u] = contributions[u]
  <2>1. user[w] \in Users
    BY <1>1, BusyHasUser DEF SaveYear
  <2> PICK v \in Users : v = user[w]
    BY <2>1
  <2> PICK y \in work[w].toSave : UpsertYear(v, y, work[w].fetched[y])
    BY <1>1, LatestIn DEF SaveYear, TypeOK, LocalsOK, Work
  <2>2. y \in Years /\ work[w].fetched[y] # None
    BY DEF TypeOK, LocalsOK, Work
  <2>3. v = u => work[w].fetched[y] = contributions[u][y]
    BY <2>2 DEF Settled, StoreSettled, JobSettled
  <2> QED
    BY <2>2, <2>3 DEF UpsertYear, TypeOK, StoreTypeOK, YearData
<1> QED
  BY <1>1, YearsSavedBy

LEMMA StreakSettled ==
  ASSUME FetchedInv, [Next]_vars, NEW u \in Users, Settled(u)
  PROVE  streak_rankings'[u] = streak_rankings[u]
<1>1. ASSUME NEW w \in Workers, SaveStreak(w), user[w] = u
      PROVE  work[w].fetched = streak_rankings[u]
  <2>1. \A y \in Years : work[w].fetched[y] # None
    BY <1>1 DEF FetchedInv, Fetched, SaveStreak
  <2>2. \A y \in Years : work[w].fetched[y] = contributions[u][y]
    BY <1>1, <2>1 DEF Settled, StoreSettled, JobSettled
  <2>3. work[w].fetched \in YearData /\ contributions[u] \in YearData
    BY DEF FetchedInv, TypeOK, StoreTypeOK, Work
  <2> QED
    BY <2>2, <2>3 DEF YearData, Settled, StoreSettled
<1>2. ASSUME NEW w \in Workers, SaveStreak(w)
      PROVE  streak_rankings'[u] = streak_rankings[u]
  BY <1>1, <1>2 DEF SaveStreak, UpsertStreak, FetchedInv, TypeOK, StoreTypeOK
<1> QED
  BY <1>2, StreaksSavedBy

LEMMA RowsSettled ==
  ASSUME TypeOK, [Next]_vars, NEW u \in Users, Settled(u)
  PROVE  SameConcerns(u)
<1>1. CASE repositories' = repositories
  BY <1>1 DEF SameConcerns, SameRows, Owned
<1>2. ASSUME NEW w \in Workers, ToggleRepo(w) PROVE SameConcerns(u)
  <2>1. /\ work[w].repo \in Repos /\ Owned(work[w].repo, user[w]) /\ user[w] # u
        /\ work[w].is_public \in BOOLEAN
    BY <1>2 DEF ToggleRepo, TypeOK, LocalsOK, Work, Settled, JobSettled
  <2> PICK q \in Repos : q = work[w].repo
    BY <2>1
  <2>2. /\ repositories'[q] = [repositories[q] EXCEPT !.is_public = work[w].is_public]
        /\ repositories[q] \in RepoRow
        /\ \A r \in Repos \ {q} : repositories'[r] = repositories[r]
    BY <1>2, <2>1 DEF ToggleRepo, TogglePublic, TypeOK, StoreTypeOK, Owned, Maybe
  <2>3. /\ repositories'[q] \in RepoRow
        /\ repositories'[q].owner = repositories[q].owner
        /\ repositories'[q].stats = repositories[q].stats
    BY <2>1, <2>2 DEF RepoRow
  <2>4. repositories'[q] # None /\ ~Owned(q, u) /\ ~Owned(q, u)'
    BY <2>1, <2>3, NoneIsNothing DEF Owned
  <2> QED
    BY <2>2, <2>3, <2>4 DEF SameConcerns, SameRows, Owned
<1>3. ASSUME NEW w \in Workers, NEW q \in Repos, SaveRepo(w, q) PROVE SameConcerns(u)
  <2>1. /\ work[w].repos[q] \in Nat /\ work[w].repos[q] # None
        /\ repositories'[q] # None /\ repositories'[q] \in RepoRow
        /\ repositories'[q].stats = work[w].repos[q]
        /\ \A r \in Repos \ {q} : repositories'[r] = repositories[r]
    BY <1>3, RowSaved, NoneIsNothing
  <2>2. CASE repositories[q] = None
    <3>1. user[w] # u /\ ~Concerns(q, u)
      BY <2>1, <2>2 DEF Settled, StoreSettled, JobSettled
    <3>2. ~Owned(q, u)'
      BY <1>3, <2>2, <3>1, RowSaved DEF Owned
    <3> QED
      BY <2>1, <3>1, <3>2 DEF SameConcerns, SameRows, Concerns, Owned
  <2>3. CASE repositories[q] # None
    <3>1. /\ repositories[q] \in RepoRow
          /\ repositories'[q].owner = repositories[q].owner
          /\ repositories'[q].is_public = repositories[q].is_public
      BY <1>3, <2>3, RowSaved
    <3>2. Concerns(q, u) => repositories'[q].stats = repositories[q].stats
      BY <2>1 DEF Settled, JobSettled
    <3>3. Concerns(q, u) => repositories'[q] = repositories[q]
      BY <2>1, <3>1, <3>2 DEF RepoRow
    <3>4. Owned(q, u)' <=> Owned(q, u)
      BY <2>1, <2>3, <3>1 DEF Owned
    <3> QED
      BY <2>1, <3>3, <3>4 DEF SameConcerns, SameRows, Concerns, Owned
  <2> QED
    BY <2>2, <2>3
<1> QED
  BY <1>1, <1>2, <1>3, ReposSavedBy

LEMMA TotalsSettled ==
  ASSUME TypeOK, [Next]_vars, NEW u \in Users, Settled(u)
  PROVE  user_rankings'[u] = user_rankings[u]
<1>1. ASSUME NEW w \in Workers, RankUserWrite(w)
      PROVE  user_rankings'[u] = user_rankings[u]
  <2>1. user[w] = u => read[w] = user_rankings[u]
    BY <1>1 DEF RankUserWrite, Settled, StoreSettled, JobSettled
  <2> QED
    BY <1>1, <2>1 DEF RankUserWrite, WriteUserRanking, TypeOK, StoreTypeOK
<1> QED
  BY <1>1, UsersRankedBy

LEMMA ListSettled ==
  ASSUME RepoRankInv, [Next]_vars, NEW u \in Users, Settled(u), NEW r \in Repos, Owned(r, u)
  PROVE  repo_rankings'[r] = repo_rankings[r]
<1>1. repo_rankings[r] = IF repositories[r].is_public THEN repositories[r].stats ELSE None
  BY DEF Settled, StoreSettled, Listed
<1>2. ASSUME NEW w \in Workers, DeleteWrite(w) PROVE repo_rankings'[r] = repo_rankings[r]
  <2>1. r \in read[w] => user[w] = u
    BY <1>2 DEF RepoRankInv, InFlight, OwnRows, DeleteWrite, Owned
  <2>2. r \in read[w] => ~repositories[r].is_public
    BY <1>2, <2>1 DEF DeleteWrite, Settled, JobSettled, PrivateOf
  <2> QED
    BY <1>1, <1>2, <2>2 DEF DeleteWrite, DeleteRepoRankings
<1>3. ASSUME NEW w \in Workers, RankReposWrite(w) PROVE repo_rankings'[r] = repo_rankings[r]
  <2>1. read[w][r] # None => user[w] = u
    BY <1>3 DEF RepoRankInv, InFlight, OwnRows, RankReposWrite, Owned
  <2>2. read[w][r] # None => read[w][r] = repo_rankings[r]
    BY <1>1, <1>3, <2>1 DEF RankReposWrite, Settled, JobSettled, PublicOf
  <2> QED
    BY <1>3, <2>2 DEF RankReposWrite, InsertRepoRankings
<1> QED
  BY <1>2, <1>3, ReposRankedBy

LEMMA SettledReads ==
  ASSUME NEW u \in Users, SameConcerns(u), contributions'[u] = contributions[u]
  PROVE  /\ TotalsOf(u)' = TotalsOf(u)
         /\ PublicOf(u)' = PublicOf(u)
         /\ PrivateOf(u)' = PrivateOf(u)
BY SameReads DEF SameConcerns, TotalsOf

LEMMA StoreStaysSettled ==
  ASSUME RepoRankInv, FetchedInv, [Next]_vars, NEW u \in Users, Settled(u),
         UNCHANGED <<ghVersion, ghOwner>>
  PROVE  StoreSettled(u)'
<1> USE DEF FetchedInv
<1>1. SameConcerns(u) /\ contributions'[u] = contributions[u]
  BY RowsSettled, YearsSettled
<1>2. TotalsOf(u)' = TotalsOf(u)
  BY <1>1, SettledReads
<1>3. \A r \in Repos : Concerns(r, u)' <=> Concerns(r, u)
  BY <1>1 DEF SameConcerns, SameRows, Concerns
<1>4. Listed(u)'
  BY <1>1, ListSettled DEF SameConcerns, SameRows, Listed, Settled, StoreSettled
<1>5. \A r \in Repos : Concerns(r, u)' =>
        repositories'[r] # None /\ (repositories'[r].stats = ghVersion' \/ ghOwner'[r] = None)
  BY <1>1, <1>3 DEF SameConcerns, Settled, StoreSettled
<1>6. \A y \in Years : contributions'[u][y] = ghVersion'
  BY <1>1 DEF Settled, StoreSettled
<1>7. streak_rankings'[u] = contributions'[u] /\ user_rankings'[u] = TotalsOf(u)'
  BY <1>1, <1>2, StreakSettled, TotalsSettled DEF Settled, StoreSettled
<1> QED
  BY <1>4, <1>5, <1>6, <1>7 DEF StoreSettled

\* What w holds after its step, it held before or has just got.
Carries(w) ==
  /\ \A r \in Repos :
       \/ work'[w].repos[r] \in {None, work[w].repos[r]}
       \/ work'[w].repos[r] = ghVersion /\ ghOwner[r] = user[w] /\ user[w] # None
  /\ user'[w] # None =>
       /\ pc'[w] # "togglePublic"
       /\ \A y \in Years :
            \/ work'[w].fetched[y] \in {None, ghVersion}
            \/ user'[w] = user[w] /\ work'[w].fetched[y] = work[w].fetched[y]
       /\ \A r \in Repos : work'[w].repos[r] # None => user'[w] = user[w]
       /\ pc'[w] \in {"rankUserWrite", "deleteWrite", "rankReposWrite"} => user'[w] = user[w]
       /\ pc'[w] = "rankUserWrite" => read'[w] = TotalsOf(user[w])
       /\ pc'[w] = "deleteWrite" => read'[w] = PrivateOf(user[w])
       /\ pc'[w] = "rankReposWrite" => read'[w] = PublicOf(user[w])

LEMMA CarriesSettled ==
  ASSUME TypeOK, NEW u \in Users, Settled(u), NEW w \in Workers, Carries(w),
         SameConcerns(u), contributions'[u] = contributions[u],
         UNCHANGED <<ghVersion, ghOwner>>
  PROVE  JobSettled(w, u)'
<1>1. /\ TotalsOf(u)' = TotalsOf(u) /\ PublicOf(u)' = PublicOf(u)
      /\ PrivateOf(u)' = PrivateOf(u)
  BY SettledReads
<1>2. u # None
  BY NoneIsNothing
<1>3. JobSettled(w, u) /\ StoreSettled(u)
  BY DEF Settled
<1>4. ASSUME NEW r \in Repos, Concerns(r, u)'
      PROVE  work'[w].repos[r] \in {None, repositories'[r].stats}
  <2>1. Concerns(r, u) /\ repositories'[r].stats = repositories[r].stats
    BY <1>4 DEF SameConcerns, SameRows, Concerns
  <2>2. work[w].repos[r] \in {None, repositories'[r].stats}
    BY <1>3, <2>1 DEF JobSettled
  <2>3. ghOwner[r] # None => repositories'[r].stats = ghVersion
    BY <1>3, <2>1 DEF StoreSettled
  <2> QED
    BY <2>2, <2>3 DEF Carries
<1>5. ASSUME user'[w] = u
      PROVE  /\ pc'[w] # "togglePublic"
             /\ \A y \in Years : work'[w].fetched[y] \in {None, ghVersion'}
  BY <1>2, <1>3, <1>5 DEF Carries, JobSettled
<1>6. ASSUME user'[w] = u, NEW r \in Repos, work'[w].repos[r] # None
      PROVE  repositories'[r] # None
  <2>1. user[w] = u /\ (work[w].repos[r] # None \/ Concerns(r, u))
    BY <1>2, <1>6 DEF Carries, Concerns
  <2> QED
    BY <1>3, <2>1 DEF JobSettled, StoreSettled, SameConcerns
<1>7. ASSUME user'[w] = u
      PROVE  /\ pc'[w] = "rankUserWrite" => read'[w] = TotalsOf(u)'
             /\ pc'[w] = "deleteWrite" => read'[w] = PrivateOf(u)'
             /\ pc'[w] = "rankReposWrite" => read'[w] = PublicOf(u)'
  BY <1>1, <1>2, <1>7 DEF Carries
<1> QED
  BY <1>4, <1>5, <1>6, <1>7 DEF JobSettled

LEMMA StillCarries ==
  ASSUME TypeOK, NEW u \in Users, Settled(u), NEW w \in Workers, Still(w),
         SameConcerns(u), contributions'[u] = contributions[u],
         UNCHANGED <<ghVersion, ghOwner>>
  PROVE  JobSettled(w, u)'
<1>1. /\ TotalsOf(u)' = TotalsOf(u) /\ PublicOf(u)' = PublicOf(u)
      /\ PrivateOf(u)' = PrivateOf(u)
  BY SettledReads
<1>2. \A r \in Repos : Concerns(r, u)' <=> Concerns(r, u)
  BY DEF SameConcerns, SameRows, Concerns
<1>3. JobSettled(w, u)
  BY DEF Settled
<1> QED
  BY <1>1, <1>2, <1>3 DEF Still, JobSettled, SameConcerns

LEMMA EndCarries ==
  ASSUME TypeOK, NEW w \in Workers, End(w)
  PROVE  Carries(w)
BY DEF End, Carries, TypeOK, NoWork, NoRepos

LEMMA StartCarries ==
  ASSUME TypeOK, NEW w \in Workers, NEW k, NEW u \in Users,
         Start(w, k, u, "fetchYears", FetchAllYears)
  PROVE  Carries(w)
<1>1. pc'[w] = "fetchYears" /\ work'[w] = FetchAllYears
  BY DEF Start, Goto, TypeOK
<1>2. FetchAllYears.fetched = NoYears /\ FetchAllYears.repos = NoRepos
  BY DEF FetchAllYears, NoWork
<1> QED
  BY <1>1, <1>2 DEF Carries, NoYears, NoRepos

LEMMA FetchesCarry ==
  ASSUME TypeOK, NEW w \in Workers, FetchYear(w) \/ FetchRepos(w)
  PROVE  Carries(w)
<1>1. CASE FetchYear(w)
  <2> PICK y \in Years : GetsYear(w, y)
    BY <1>1, LatestIn DEF FetchYear, GetsYear, TypeOK, LocalsOK, Work
  <2>1. /\ work'[w].repos = work[w].repos
        /\ work'[w].fetched = [work[w].fetched EXCEPT ![y] = ghVersion]
        /\ work[w].fetched \in YearData
    BY YearFetched DEF TypeOK, Work
  <2>2. user' = user /\ pc'[w] \in {"saveYears", "fetchYears", "fetchRepos"}
    BY <1>1 DEF FetchYear, Goto, TypeOK
  <2> QED
    BY <2>1, <2>2 DEF Carries, YearData
<1>2. CASE FetchRepos(w)
  <2> PICK page \in FirstPage(user[w]) :
        GetsRepos(w, [r \in Repos |-> IF r \in page THEN ghVersion ELSE None], page)
    BY <1>2 DEF FetchRepos, GetsRepos
  <2>1. page \in SUBSET Repos /\ \A r \in page : ghOwner[r] = user[w]
    BY DEF FirstPage
  <2>2. [r \in Repos |-> IF r \in page THEN ghVersion ELSE None] \in RepoData
    BY DEF RepoData, Maybe, TypeOK
  <2>3. /\ work'[w].repos = [r \in Repos |-> IF r \in page THEN ghVersion ELSE None]
        /\ work'[w].fetched = work[w].fetched
    BY <2>1, <2>2, ReposFetched
  <2>4. user' = user /\ pc'[w] \in {"saveYears", "saveRepos"} /\ user[w] # None
    BY <1>2, BusyHasUser, NoneIsNothing DEF FetchRepos, Goto, TypeOK
  <2> QED
    BY <2>1, <2>3, <2>4 DEF Carries
<1> QED
  BY <1>1, <1>2

LEMMA SavesCarry ==
  ASSUME TypeOK, NEW w \in Workers,
         \/ SaveYear(w) \/ SaveStreak(w) \/ ReposSaved(w) \/ ToggleRepo(w)
         \/ \E r \in Repos : SaveRepo(w, r)
  PROVE  Carries(w)
<1>1. ASSUME work'[w].repos = work[w].repos, work'[w].fetched = work[w].fetched,
             user' = user,
             pc'[w] \notin {"togglePublic", "rankUserWrite", "deleteWrite", "rankReposWrite"}
      PROVE  Carries(w)
  BY <1>1 DEF Carries
<1>2. CASE SaveYear(w)
  <2> PICK y \in Years : work' = [work EXCEPT ![w].toSave = work[w].toSave \ {y}]
    BY <1>2, LatestIn DEF SaveYear, TypeOK, LocalsOK, Work
  <2> QED
    BY <1>1, <1>2, YearSaved DEF SaveYear, Goto, TypeOK
<1>3. CASE SaveStreak(w) \/ ReposSaved(w) \/ ToggleRepo(w)
  BY <1>1, <1>3 DEF SaveStreak, ReposSaved, ToggleRepo, Goto, TypeOK
<1>4. ASSUME NEW r \in Repos, SaveRepo(w, r) PROVE Carries(w)
  <2>1. work'[w].repos = work[w].repos /\ work'[w].fetched = work[w].fetched
    BY <1>4, RepoSaved DEF SaveRepo
  <2> QED
    BY <1>1, <1>4, <2>1 DEF SaveRepo, control
<1> QED
  BY <1>2, <1>3, <1>4

LEMMA RanksCarry ==
  ASSUME TypeOK, NEW w \in Workers,
         \/ RankUserRead(w) \/ RankUserWrite(w) \/ DeleteRead(w) \/ DeleteWrite(w)
         \/ RankReposRead(w) \/ RankReposWrite(w) \/ Stamp(w)
  PROVE  Carries(w)
<1>1. CASE RankUserRead(w)
  BY <1>1 DEF RankUserRead, Goto, TypeOK, Carries
<1>2. CASE RankUserWrite(w)
  BY <1>2 DEF RankUserWrite, Goto, TypeOK, Carries, NoWork, NoRepos, NoYears
<1>3. CASE DeleteRead(w)
  BY <1>3 DEF DeleteRead, Goto, TypeOK, Carries
<1>4. CASE DeleteWrite(w)
  BY <1>4 DEF DeleteWrite, Goto, TypeOK, Carries
<1>5. CASE RankReposRead(w)
  BY <1>5 DEF RankReposRead, Goto, TypeOK, Carries
<1>6. CASE RankReposWrite(w) /\ ~End(w)
  BY <1>6 DEF RankReposWrite, Goto, TypeOK, Carries
<1>7. CASE End(w)
  BY <1>7, EndCarries
<1> QED
  BY <1>1, <1>2, <1>3, <1>4, <1>5, <1>6, <1>7 DEF Stamp

LEMMA StumblesCarry ==
  ASSUME TypeOK, NEW w \in Workers, Stumble(w)
  PROVE  Carries(w)
<1>1. CASE Fail(w)
  BY <1>1, EndCarries DEF Fail
<1>2. CASE PassOver(w)
  <2>1. user' = user /\ pc'[w] \in {"fetchRepos", "rankUser", "delete", "stamp"}
    BY <1>2 DEF PassOver, Goto, TypeOK
  <2>2. CASE work' = work
    BY <2>1, <2>2 DEF Carries
  <2>3. CASE work' = [work EXCEPT ![w] = NoWork]
    BY <2>1, <2>3 DEF Carries, TypeOK, NoWork, NoRepos, NoYears
  <2>4. CASE work' = [work EXCEPT ![w].toUpsert = {}]
    <3>1. work'[w].repos = work[w].repos /\ work'[w].fetched = work[w].fetched
      BY <2>4 DEF TypeOK, Work
    <3> QED
      BY <2>1, <3>1 DEF Carries
  <2> QED
    BY <1>2, <2>2, <2>3, <2>4 DEF PassOver
<1> QED
  BY <1>1, <1>2 DEF Stumble

\* But for a toggle, a job starts with nothing.
LEMMA MovesCarry ==
  ASSUME TypeOK, NEW w \in Workers, Moves(w)
  PROVE  \/ Carries(w)
         \/ \E r \in Repos, b \in BOOLEAN : w \in Handlers /\ ToggleStart(w, r, b)
<1>1. ASSUME NEW u \in Users, LoginStart(w, u) \/ SyncStart(w, u) PROVE Carries(w)
  BY <1>1, StartCarries DEF LoginStart, SyncStart
<1>2. ASSUME NEW u \in Users, CollectStart(u), w = Collector PROVE Carries(w)
  BY <1>2, StartCarries DEF CollectStart
<1>3. CASE w = Collector /\ (CollectorTick \/ CollectEnd)
  <2>1. user'[w] = None /\ work' = work
    BY <1>3 DEF CollectorTick, CollectEnd, TypeOK, LocalsOK
  <2> QED
    BY <2>1 DEF Carries
<1> QED
  BY <1>1, <1>2, <1>3, FetchesCarry, SavesCarry, RanksCarry, StumblesCarry DEF Moves, Proceed

\* A toggle of somebody else's knows nothing of u.
LEMMA ToggleOfOther ==
  ASSUME TypeOK, NEW u \in Users, NEW w \in Handlers, NEW r \in Repos, NEW b \in BOOLEAN,
         ToggleStart(w, r, b), ~Toggles(u)
  PROVE  JobSettled(w, u)'
<1>1. w \in Workers
  BY DEF Workers
<1>2. kind'[w] = "toggle" /\ pc[w] = "idle" /\ work'[w].repos = NoRepos
  BY <1>1 DEF ToggleStart, Start, TypeOK, NoWork
<1>3. user'[w] # u
  BY <1>2 DEF Toggles
<1> QED
  BY <1>2, <1>3 DEF JobSettled, NoRepos

LEMMA SettledStep ==
  ASSUME RepoRankInv, FetchedInv, [Next]_vars, NEW u \in Users, Settled(u),
         UNCHANGED <<ghVersion, ghOwner>>, ~Toggles(u)
  PROVE  Settled(u)'
<1>1. StoreSettled(u)'
  BY StoreStaysSettled
<1>2. TypeOK /\ SameConcerns(u) /\ contributions'[u] = contributions[u]
  BY RowsSettled, YearsSettled DEF FetchedInv
<1>3. ASSUME NEW w \in Workers PROVE JobSettled(w, u)'
  <2>1. CASE Still(w)
    BY <1>2, <2>1, StillCarries
  <2>2. CASE Carries(w)
    BY <1>2, <2>2, CarriesSettled
  <2>3. CASE Crash
    <3>1. Carries(w)
      BY <2>3 DEF Crash, Carries, NoWork, NoRepos
    <3> QED
      BY <2>2, <3>1
  <2> QED
    BY <1>2, <2>1, <2>2, <2>3, MovesOrNot, MovesCarry, ToggleOfOther
<1> QED
  BY <1>1, <1>3 DEF Settled

\* Of any number of users, repositories and jobs: a user who is caught up, with
\* nothing older under way, stays so whatever runs, fails or crashes, until
\* GitHub's data changes or the user toggles.
THEOREM HealedForGood == Spec => HealedStays
<1>1. RepoRankInv /\ FetchedInv /\ [Next]_vars =>
        [\A u \in Users :
           Settled(u) => Settled(u)' \/ Toggles(u) \/ ~UNCHANGED <<ghVersion, ghOwner>>]_vars
  BY SettledStep
<1>2. RepoRankInv /\ [Next]_vars => RepoRankInv'
  BY RepoRankNext
<1>3. FetchedInv /\ [Next]_vars => FetchedInv'
  BY FetchedNext
<1> QED
  BY <1>1, <1>2, <1>3, RepoRankInit, FetchedInit, PTL DEF Spec, HealedStays

LEMMA SettledIsCaughtUp ==
  ASSUME NEW u \in Users, Settled(u)
  PROVE  CaughtUp(u)
<1>1. \A r \in Repos : ghOwner[r] = u => ghOwner[r] # None
  BY NoneIsNothing
<1> QED
  BY <1>1 DEF Settled, StoreSettled, CaughtUp, Concerns, Fresh

\* Of the ordinary steps, none is a toggle's start.
LEMMA OrdinaryTogglesNothing ==
  ASSUME TypeOK, Ordinary, NEW u \in Users
  PROVE  ~Toggles(u)
<1> SUFFICES ASSUME NEW w \in Handlers, pc[w] = "idle", kind'[w] = "toggle", user'[w] = u
             PROVE  FALSE
  BY DEF Toggles
<1>1. w \in Workers /\ Collector \in Workers /\ w # Collector /\ Handlers \subseteq Workers
  BY SyncJobsAssumption DEF Workers
<1>2. user[w] # user'[w]
  BY <1>1, NoneIsNothing DEF TypeOK, LocalsOK
<1>3. ASSUME NEW x \in Workers, x # w, Typed(x) PROVE FALSE
  BY <1>1, <1>2, <1>3 DEF Typed, Still
<1>4. ASSUME NEW x \in Handlers, NEW v \in Users, LoginStart(x, v) \/ SyncStart(x, v)
      PROVE  FALSE
  <2>1. kind' = [kind EXCEPT ![x] = "login"] \/ kind' = [kind EXCEPT ![x] = "sync"]
    BY <1>4 DEF LoginStart, SyncStart, Start
  <2>2. x # w
    BY <1>1, <2>1 DEF TypeOK
  <2> QED
    BY <1>1, <1>3, <1>4, <2>2, TypeLoginStart, TypeSyncStart
<1>5. ASSUME NEW x \in Workers, Proceed(x) PROVE FALSE
  <2>1. pc[x] # "idle"
    BY <1>5 DEF Proceed, FetchYear, SaveYear, SaveStreak, FetchRepos, SaveRepo, ReposSaved,
       ToggleRepo, RankUserRead, RankUserWrite, DeleteRead, DeleteWrite, RankReposRead,
       RankReposWrite, Stamp
  <2> QED
    BY <1>3, <1>5, <2>1, TypeProceed
<1>6. ASSUME CollectorTick \/ CollectEnd \/ \E v \in Users : CollectStart(v) PROVE FALSE
  BY <1>1, <1>3, <1>6, TypeCollectorTick, TypeCollectEnd, TypeCollectStart
<1>7. CASE Tick \/ GitHubActivity
  BY <1>2, <1>7 DEF Tick, GitHubActivity, control
<1> QED
  BY <1>4, <1>5, <1>6, <1>7 DEF Ordinary

LEMMA IdleTogglesNothing ==
  ASSUME TypeOK, UNCHANGED vars, NEW u \in Users
  PROVE  ~Toggles(u)
<1>1. \A w \in Handlers : pc[w] = "idle" => user'[w] = None
  BY DEF TypeOK, LocalsOK, Workers, vars, control
<1> QED
  BY <1>1, NoneIsNothing DEF Toggles

\* The world is calm, GitHub's data rests, and u is settled.
AtRest(u) == calm /\ ghVersion = MaxVersion /\ Settled(u)

LEMMA RestStep ==
  ASSUME RepoRankInv, FetchedInv, [HealingNext]_healingVars, NEW u \in Users, AtRest(u)
  PROVE  AtRest(u)'
<1>1. CASE Ordinary /\ UNCHANGED calm
  <2>1. ~GitHubActivity
    BY SyncJobsAssumption DEF GitHubActivity, AtRest
  <2>2. UNCHANGED <<ghVersion, ghOwner>>
    BY <1>1, <2>1, TypeProceed DEF FetchedInv, Ordinary, LoginStart, SyncStart, CollectorTick,
       CollectStart, CollectEnd, Tick, env
  <2>3. [Next]_vars
    BY <1>1 DEF Ordinary, Next, Loop
  <2>4. ~Toggles(u)
    BY <1>1, OrdinaryTogglesNothing DEF FetchedInv
  <2>5. Settled(u)'
    BY <2>2, <2>3, <2>4, SettledStep DEF AtRest
  <2> QED
    BY <1>1, <2>2, <2>5 DEF AtRest
<1>2. CASE UNCHANGED healingVars
  <2>1. ~Toggles(u) /\ UNCHANGED <<ghVersion, ghOwner, calm>>
    BY <1>2, IdleTogglesNothing DEF FetchedInv, healingVars, vars, env
  <2>2. [Next]_vars
    BY <1>2 DEF healingVars
  <2>3. Settled(u)'
    BY <2>1, <2>2, SettledStep DEF AtRest
  <2> QED
    BY <2>1, <2>3 DEF AtRest
<1> QED
  BY <1>1, <1>2 DEF HealingNext, AtRest

\* To heal a user once is enough: from a moment when the world is calm, GitHub's
\* data rests and the user is settled, the user is settled and caught up for
\* ever, whatever logins, syncs and rounds of the collector run and however
\* their statements interleave, for any number of them and of users.
THEOREM OnceHealedForEver ==
  ASSUME NEW u \in Users
  PROVE  HealingSpec => [](AtRest(u) => [](Settled(u) /\ CaughtUp(u)))
<1>1. RepoRankInv /\ FetchedInv /\ [HealingNext]_healingVars => (AtRest(u) => AtRest(u)')
  BY RestStep
<1>2. RepoRankInv /\ [Next]_vars => RepoRankInv'
  BY RepoRankNext
<1>3. FetchedInv /\ [Next]_vars => FetchedInv'
  BY FetchedNext
<1>4. AtRest(u) => Settled(u) /\ CaughtUp(u)
  BY SettledIsCaughtUp DEF AtRest
<1>5. HealingSpec => Spec
  BY HealingIsOrdinary
<1>6. HealingSpec => [](RepoRankInv /\ FetchedInv)
  BY <1>2, <1>3, <1>5, RepoRankInit, FetchedInit, PTL DEF Spec
<1> QED
  BY <1>1, <1>4, <1>6, PTL DEF HealingSpec
=============================================================================
