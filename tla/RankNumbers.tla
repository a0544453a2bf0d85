----------------------------- MODULE RankNumbers -----------------------------
(***************************************************************************)
(* The rank numbers of the ranking lists.  Each row of a page carries      *)
(* (SELECT COUNT( * )+1 FROM .. WHERE column > its own): a count over a    *)
(* whole table, although the list shows a part of it.  Not listed but      *)
(* counted are, by streak, the users whose first total has not been        *)
(* computed, and among repositories those that are not public (until the   *)
(* owner's recalculation) or in another language.  Users are ranked by the *)
(* column the list is sorted by, repositories by score whatever the sort.  *)
(***************************************************************************)
EXTENDS RankingPages

CONSTANT RankColumn   \* for each sort, the column that ranks are counted by

ASSUME RankNumbersAssumption == RankColumn \in [Sorts -> Sorts]

VARIABLES
  unlisted,  \* rows that are counted but not listed
  shown      \* history: the value each row had on the last page that showed it

rankVars == <<vars, unlisted, shown>>

NothingShown == [id \in Ids |-> None]

\* Faulty variant of Better: ties count.
NoWorse(a, b, by) == a[by] >= b[by]

\* WHERE column > ur.column
Better(a, b, by) == a[by] > b[by]

\* The rows of a table that are strictly better than row b.
BetterThan(b, table) ==
  {j \in Ids : table[j] # None /\ Better(table[j], b, RankColumn[sort])}

Counted(b) == BetterThan(b, rows) \cup BetterThan(b, unlisted)

\* The rank that a page shows for a row, from the same snapshot as the page.
RankOf(id) == Cardinality(Counted(rows[id])) + 1

----------------------------------------------------------------------------
RankInit ==
  /\ Init
  /\ unlisted = [id \in Ids |-> None]
  /\ shown = NothingShown

StartRankedWalk(asked) ==
  /\ StartWalk(asked)
  /\ shown' = NothingShown
  /\ UNCHANGED unlisted

\* An answer names, with the rank of each row, the value it is sorted by.
FetchRankedPage(asked) ==
  /\ FetchPage(asked)
  /\ shown' = [id \in Ids |-> IF id \in Page(Clamp(asked)) THEN rows[id][sort]
                                                          ELSE shown[id]]
  /\ UNCHANGED unlisted

\* A row changes, and may leave the list for the rows not listed, or come back.
Move(id, row, other) ==
  /\ Change(id, row)
  /\ row # None => other = None
  /\ unlisted' = [unlisted EXCEPT ![id] = other]
  /\ UNCHANGED shown

\* A row that is not listed changes.
MoveUnlisted(id, other) ==
  /\ rows[id] = None /\ unlisted[id] # other
  /\ unlisted' = [unlisted EXCEPT ![id] = other]
  /\ UNCHANGED <<vars, shown>>

RankNext ==
  \/ \E asked \in Sorts \cup {None} : StartRankedWalk(asked)
  \/ \E asked \in Limits : FetchRankedPage(asked)
  \/ \E id \in Ids, row, other \in Row \cup {None} : Move(id, row, other)
  \/ \E id \in Ids, other \in Row \cup {None} : MoveUnlisted(id, other)

RankSpec == RankInit /\ [][RankNext]_rankVars

----------------------------------------------------------------------------
\* The rows the reader has seen, by now, with a better value than row id has.
SeenAbove(id) == {j \in returned' : shown'[j] > rows[id][sort]}

\* Those the reader did not see so: they rose past the reader since the walk
\* began, or are not listed.
UnseenAbove(id) == (rose \cap BetterThan(rows[id], rows)) \cup BetterThan(rows[id], unlisted)

\* Rows that may no longer be as good as they were shown.
Sunk == {j \in Ids : j \in fell \/ rows[j] = None}

\* In a list ranked by the column it is sorted by, the rank of a row is one more
\* than the number of rows that the pages so far showed above it, although each
\* page is ranked by a count of its own moment: but for the rows unseen above
\* it, and for those shown above it that fell or left in between.
RanksCountTheRowsAbove ==
  [][(phase = "walking" /\ RankColumn[sort] = sort) =>
      \A id \in returned' \ returned :
        /\ RankOf(id) >= 1 + Cardinality((SeenAbove(id) \ Sunk) \cup UnseenAbove(id))
        /\ RankOf(id) <= 1 + Cardinality(SeenAbove(id) \cup UnseenAbove(id))]_rankVars
=============================================================================
