---------------------------- MODULE RankingPages ----------------------------
(***************************************************************************)
(* GET /api/users/ranking and GET /api/repos/ranking, read page by page    *)
(* while other requests change the ranking.                                *)
(*                                                                         *)
(* Both handlers paginate by key: a page ends with a cursor, the sort      *)
(* value and the id of its last row, and the next request asks for the     *)
(* rows below that key.  A page is one SELECT, so one snapshot, but jobs   *)
(* commit between two pages: rows move up and down, enter the ranking and  *)
(* leave it.  A client walks from the first page along next_cursor until   *)
(* has_next is false, always with the same sort (and language).            *)
(*                                                                         *)
(* Data abstraction.  Only the order of sort values matters; base64, JSON  *)
(* and the columns that are only displayed are left out.  A row that the   *)
(* walk's filter hides (private, or in another language) is absent.        *)
(***************************************************************************)
EXTENDS Integers, FiniteSets

CONSTANTS Ids,          \* ids of users (or repositories)
          Sorts,        \* the columns a ranking can be sorted by
          DefaultSort,  \* "score"
          Values,       \* the values of those columns
          MaxLimit,     \* the largest page: 100
          Limits,       \* the values of ?limit= that clients send
          None          \* no row, no cursor, a sort that is not valid

Row == [Sorts -> Values]

ASSUME RankingPagesAssumption ==
  /\ Ids \subseteq Int /\ IsFiniteSet(Ids)
  /\ Values \subseteq Int
  /\ Limits \subseteq Int
  /\ DefaultSort \in Sorts
  /\ MaxLimit \in Nat \ {0}
  /\ None \notin Row \cup [s : Values, i : Ids] \cup Sorts

VARIABLES
  rows,      \* the rows of the ranking, None where there is none
  phase,     \* of the walk: "idle", "walking", "done"
  sort,      \* the sort of the walk
  cursor,    \* next_cursor of the last answer
  returned,  \* ids in the answers so far
  \* History variables: they record what happened and guard nothing.
  twice,     \* ids that were in two answers
  rose,      \* rows whose value rose since the walk began, or that were absent
  fell       \* rows whose value fell since the walk began, or that entered

walk    == <<phase, sort, cursor, returned>>
history == <<twice, rose, fell>>
vars    == <<rows, walk, history>>

Cursors == [s : Values, i : Ids]

Init ==
  /\ rows \in [Ids -> Row \cup {None}]
  /\ phase = "idle" /\ sort = DefaultSort /\ cursor = None /\ returned = {}
  /\ twice = {} /\ rose = {} /\ fell = {}

----------------------------------------------------------------------------
(* What the handlers and the query compute.                                *)

\* Faulty variant of EffectiveSort: the map of valid sorts is not consulted.
AskedSort(asked) == asked

EffectiveSort(asked) == IF asked \in Sorts THEN asked ELSE DefaultSort

\* Faulty variant of Clamp: only the upper limit is enforced.
ClampAbove(asked) == IF asked > MaxLimit THEN MaxLimit ELSE asked

Clamp(asked) ==
  IF asked > MaxLimit THEN MaxLimit ELSE IF asked < 1 THEN 1 ELSE asked

\* Faulty variant of SortValue: the cursor always carries the score.
ScoreValue(row, by) == row[DefaultSort]

\* getSortValue: what the cursor carries of its row.
SortValue(row, by) == row[by]

Key(id) == [s |-> rows[id][sort], i |-> id]

\* Faulty variant of Below: ties are not told apart by id.
BelowValue(a, b) == a.s < b.s

\* (col, id) < ($2, $3): SQL compares the pairs from the left.
Below(a, b) == a.s < b.s \/ (a.s = b.s /\ a.i < b.i)

\* The rows the WHERE clause leaves.
Matching == {id \in Ids : /\ rows[id] # None
                          /\ cursor # None => Below(Key(id), cursor)}

\* ORDER BY col DESC, id DESC
Ahead(j, id) == \/ rows[j][sort] > rows[id][sort]
                \/ rows[j][sort] = rows[id][sort] /\ j > id

\* LIMIT n
FirstOf(S, n) == {id \in S : Cardinality({j \in S : Ahead(j, id)}) < n}

ListRanking(n) == FirstOf(Matching, n)

\* A row more than the page holds is asked for, to learn whether there is a
\* next page.
Found(limit)   == ListRanking(limit + 1)
HasNext(limit) == Cardinality(Found(limit)) > limit
Page(limit)    == IF HasNext(limit) THEN FirstOf(Found(limit), limit) ELSE Found(limit)

\* rows[len(rows)-1]
LastOf(S) == CHOOSE id \in S : \A j \in S \ {id} : Ahead(j, id)

----------------------------------------------------------------------------
\* A client asks for the first page of a ranking: no cursor yet (one that
\* does not decode counts as none).
StartWalk(asked) ==
  /\ phase # "walking"
  /\ phase' = "walking"
  /\ sort' = EffectiveSort(asked)
  /\ cursor' = None
  /\ returned' = {}
  /\ twice' = {}
  /\ rose' = {id \in Ids : rows[id] = None}
  /\ fell' = {}
  /\ UNCHANGED rows

\* One request of the walk.  (An error changes nothing: the client may ask
\* again.)
FetchPage(asked) ==
  LET page    == Page(Clamp(asked))
      hasNext == HasNext(Clamp(asked)) IN
  /\ phase = "walking"
  /\ phase' = IF hasNext THEN "walking" ELSE "done"
  /\ cursor' = IF hasNext /\ page # {}
               THEN [s |-> SortValue(rows[LastOf(page)], sort), i |-> LastOf(page)]
               ELSE None
  /\ returned' = returned \cup page
  /\ twice' = twice \cup (returned \cap page)
  /\ UNCHANGED <<rows, sort, rose, fell>>

\* Other requests and the collector: a row is inserted, recalculated, shown
\* again, hidden or deleted.
Change(id, row) ==
  /\ rows[id] # row
  /\ rows' = [rows EXCEPT ![id] = row]
  /\ rose' = IF row = None \/ (rows[id] # None /\ row[sort] > rows[id][sort])
             THEN rose \cup {id} ELSE rose
  /\ fell' = IF row # None /\ (rows[id] = None \/ row[sort] < rows[id][sort])
             THEN fell \cup {id} ELSE fell
  /\ UNCHANGED <<walk, twice>>

Next ==
  \/ \E asked \in Sorts \cup {None} : StartWalk(asked)
  \/ \E asked \in Limits : FetchPage(asked)
  \/ \E id \in Ids, row \in Row \cup {None} : Change(id, row)

Spec == Init /\ [][Next]_vars

----------------------------------------------------------------------------
\* The type invariant.
TypeOK ==
  /\ rows \in [Ids -> Row \cup {None}]
  /\ phase \in {"idle", "walking", "done"}
  /\ sort \in Sorts
  /\ cursor \in Cursors \cup {None}
  /\ phase # "walking" => cursor = None
  /\ returned \subseteq Ids /\ twice \subseteq Ids
  /\ rose \subseteq Ids /\ fell \subseteq Ids

\* A walk shows no row twice, whatever is committed between its pages, but
\* one that fell (or entered) after it was shown.
NoRowTwice == twice \subseteq fell

\* A walk that has come to its end has shown every row that was in the
\* ranking all along, but those that rose meanwhile: no page boundary, tie or
\* concurrent change of other rows loses one.
NoRowMissed == phase = "done" => \A id \in Ids : id \in returned \/ id \in rose

\* Each answer that has a next page leads the walk further down, so that no
\* walk goes round for ever, although rows may keep moving ahead of it.
WalkDescends ==
  [][(phase = "walking" /\ phase' = "walking" /\ cursor' # cursor) =>
       /\ cursor' # None
       /\ cursor # None => Below(cursor', cursor)]_vars
=============================================================================
