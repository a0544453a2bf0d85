------------------------- MODULE RankingPagesProofs -------------------------
(***************************************************************************)
(* What a walk through a ranking shows, for every set of rows, every page  *)
(* size and every change between pages.                                    *)
(*                                                                         *)
(* Next to the type invariant the inductive invariant says what the cursor *)
(* separates: a row already shown is not below it unless it fell, and a    *)
(* row not shown yet is below it unless it rose.  That a page really ends  *)
(* at its cursor rests on facts about LIMIT and ORDER BY on finite sets.   *)
(* The same invariant makes rank numbers fit the rows: counting is over a  *)
(* whole table, a page is cut out of a list, but a better row that has not *)
(* been shown by then must have risen.  What a page showed of a row bounds *)
(* what it is now, from below unless it rose, from above unless it sank.   *)
(***************************************************************************)
EXTENDS RankNumbers, FiniteSetTheorems, WellFoundedInduction, TLAPS

----------------------------------------------------------------------------
(* Finite ordered sets.                                                    *)

\* A finite set that is not empty has an element with none before it.
LEMMA FirstExists ==
  ASSUME NEW S, IsFiniteSet(S), S # {}, NEW R,
         \A x \in S : <<x, x>> \notin R,
         \A x, y, z \in S : <<x, y>> \in R /\ <<y, z>> \in R => <<x, z>> \in R
  PROVE  \E x \in S : \A y \in S : <<y, x>> \notin R
<1> DEFINE Before(x) == {y \in S : <<y, x>> \in R}
           Sizes     == {Cardinality(Before(x)) : x \in S}
<1>1. \A x \in S : IsFiniteSet(Before(x)) /\ Cardinality(Before(x)) \in Nat
  BY FS_Subset, FS_CardinalityType
<1>0. \A x, y \in S : y \in Before(x) <=> <<y, x>> \in R
  OBVIOUS
<1> HIDE DEF Before
<1>2. Sizes \subseteq Nat /\ Sizes # {}
  BY <1>1
<1>3. PICK n \in Sizes : \A m \in Sizes : ~(<<m, n>> \in OpToRel(<, Nat))
  <2> HIDE DEF Sizes
  <2> QED BY <1>2, WFMin, NatLessThanWellFounded
<1>4. \A m \in Sizes : ~(m < n)
  <2> HIDE DEF Sizes
  <2> QED BY <1>2, <1>3 DEF OpToRel
<1>5. PICK x \in S : n = Cardinality(Before(x))
  BY <1>3
<1>6. SUFFICES ASSUME NEW y \in S, <<y, x>> \in R
               PROVE  FALSE
  BY <1>5
<1>7. Before(y) \subseteq Before(x) \ {y}
  BY <1>6 DEF Before
<1>8. /\ IsFiniteSet(Before(x) \ {y})
      /\ Cardinality(Before(x) \ {y}) = Cardinality(Before(x)) - 1
  BY <1>1, <1>0, <1>6, FS_RemoveElement
<1>9. Cardinality(Before(y)) <= Cardinality(Before(x)) - 1
  <2>1. Cardinality(Before(y)) <= Cardinality(Before(x) \ {y})
    BY <1>7, <1>8, FS_Subset
  <2> QED BY <2>1, <1>8
<1>10. Cardinality(Before(y)) < n
  <2>1. Cardinality(Before(y)) \in Nat /\ Cardinality(Before(x)) \in Nat
    BY <1>1
  <2> QED BY <2>1, <1>5, <1>9
<1>11. Cardinality(Before(y)) \in Sizes
  OBVIOUS
<1> QED BY <1>4, <1>10, <1>11

\* The rows a query selects from.
Present(S) == S \subseteq Ids /\ \A id \in S : rows[id] # None

\* ORDER BY orders rows totally.
LEMMA AheadIsAnOrder ==
  ASSUME TypeOK, NEW S, Present(S)
  PROVE  /\ IsFiniteSet(S)
         /\ \A i \in S : rows[i][sort] \in Int /\ i \in Int
         /\ \A i \in S : ~Ahead(i, i)
         /\ \A i, j, k \in S : Ahead(i, j) /\ Ahead(j, k) => Ahead(i, k)
         /\ \A i, j \in S : i = j \/ Ahead(i, j) \/ Ahead(j, i)
<1>1. IsFiniteSet(S)
  BY RankingPagesAssumption, FS_Subset DEF Present
<1>2. \A i \in S : rows[i][sort] \in Int /\ i \in Int
  BY RankingPagesAssumption DEF Present, TypeOK, Row
<1> QED BY <1>1, <1>2 DEF Ahead

\* It is the order the WHERE clause compares with a cursor.
LEMMA AheadIsNotBelow ==
  ASSUME TypeOK, NEW S, Present(S), NEW i \in S, NEW j \in S
  PROVE  Ahead(i, j) <=> Below(Key(j), Key(i))
BY AheadIsAnOrder DEF Ahead, Below, Key

\* Below is transitive on cursors.
LEMMA BelowIsTransitive ==
  ASSUME NEW a \in Cursors, NEW b \in Cursors, NEW c \in Cursors,
         Below(a, b), Below(b, c)
  PROVE  Below(a, c) /\ ~Below(a, a)
<1>1. \A x \in Cursors : x.s \in Int /\ x.i \in Int
  BY RankingPagesAssumption DEF Cursors
<1> QED BY <1>1 DEF Below

\* The first and the last row of a selection exist.
LEMMA EndsExist ==
  ASSUME TypeOK, NEW S, Present(S), S # {}
  PROVE  /\ \E id \in S : \A j \in S : ~Ahead(j, id)
         /\ LastOf(S) \in S
         /\ \A j \in S : j = LastOf(S) \/ Ahead(j, LastOf(S))
<1> DEFINE R == {p \in S \X S : Ahead(p[1], p[2])}
           Q == {p \in S \X S : Ahead(p[2], p[1])}
<1>1. \A i, j \in S : <<i, j>> \in R <=> Ahead(i, j)
  OBVIOUS
<1>2. \A i, j \in S : <<i, j>> \in Q <=> Ahead(j, i)
  OBVIOUS
<1> HIDE DEF R, Q
<1>3. \E id \in S : \A j \in S : <<j, id>> \notin R
  BY <1>1, AheadIsAnOrder, FirstExists
<1>4. \E id \in S : \A j \in S : <<j, id>> \notin Q
  <2>1. \A x \in S : <<x, x>> \notin Q
    BY <1>2, AheadIsAnOrder
  <2>2. \A x, y, z \in S : <<x, y>> \in Q /\ <<y, z>> \in Q => <<x, z>> \in Q
    BY <1>2, AheadIsAnOrder
  <2> QED BY <2>1, <2>2, AheadIsAnOrder, FirstExists
<1>5. \E id \in S : \A j \in S \ {id} : Ahead(j, id)
  BY <1>2, <1>4, AheadIsAnOrder
<1>6. \E id \in S : \A j \in S : ~Ahead(j, id)
  BY <1>1, <1>3
<1>7. LastOf(S) \in S /\ \A j \in S \ {LastOf(S)} : Ahead(j, LastOf(S))
  BY <1>5 DEF LastOf
<1> QED BY <1>6, <1>7

\* LIMIT keeps, with a row, every row ahead of it.
LEMMA LimitKeepsTheFirst ==
  ASSUME TypeOK, NEW S, Present(S), NEW n \in Nat,
         NEW id \in FirstOf(S, n), NEW j \in S, Ahead(j, id)
  PROVE  j \in FirstOf(S, n)
<1> DEFINE A(x) == {k \in S : Ahead(k, x)}
<1>1. A(j) \subseteq A(id)
  BY AheadIsAnOrder DEF FirstOf
<1>2. IsFiniteSet(A(id)) /\ IsFiniteSet(A(j))
  BY AheadIsAnOrder, FS_Subset
<1>3. Cardinality(A(j)) <= Cardinality(A(id))
  BY <1>1, <1>2, FS_Subset
<1>4. Cardinality(A(j)) \in Nat /\ Cardinality(A(id)) \in Nat
  BY <1>2, FS_CardinalityType
<1>5. Cardinality(A(id)) < n
  BY DEF FirstOf
<1>6. Cardinality(A(j)) < n
  <2> HIDE DEF A
  <2> QED BY <1>3, <1>4, <1>5
<1> QED BY <1>6 DEF FirstOf

\* When LIMIT n + 1 brings no more than n rows, it has brought all of them.
LEMMA NoMoreThanTheLimit ==
  ASSUME TypeOK, NEW S, Present(S), NEW n \in Nat,
         ~(Cardinality(FirstOf(S, n + 1)) > n)
  PROVE  FirstOf(S, n + 1) = S
<1> DEFINE F == FirstOf(S, n + 1)
           A(x) == {k \in S : Ahead(k, x)}
<1>1. F \subseteq S /\ IsFiniteSet(F) /\ Cardinality(F) \in Nat
  BY AheadIsAnOrder, FS_Subset, FS_CardinalityType DEF FirstOf
<1>2. SUFFICES ASSUME S \ F # {} PROVE FALSE
  BY <1>1
<1>3. Present(S \ F)
  BY DEF Present
<1>4. PICK x \in S \ F : \A j \in S \ F : ~Ahead(j, x)
  BY <1>2, <1>3, EndsExist
<1>5. A(x) \subseteq F
  BY <1>4
<1>6. Cardinality(A(x)) <= Cardinality(F) /\ IsFiniteSet(A(x))
  BY <1>1, <1>5, FS_Subset
<1>7. Cardinality(A(x)) \in Nat
  BY <1>6, FS_CardinalityType
<1>8. ~(Cardinality(A(x)) < n + 1)
  BY <1>4 DEF FirstOf
<1> HIDE DEF A, F
<1>9. Cardinality(F) <= n
  BY <1>1 DEF F
<1> QED BY <1>1, <1>6, <1>7, <1>8, <1>9

----------------------------------------------------------------------------
(* A page.                                                                 *)

\* The handler's limit is one the query can use.
LEMMA ClampIsALimit ==
  ASSUME NEW asked \in Limits
  PROVE  Clamp(asked) \in Nat \ {0}
BY RankingPagesAssumption DEF Clamp

\* A page without a next one has every matching row; a page with a next one
\* is not empty and holds the matching rows down to its last.
LEMMA PageIsAPrefix ==
  ASSUME TypeOK, NEW limit \in Nat \ {0}
  PROVE  /\ Present(Matching)
         /\ Page(limit) \subseteq Matching
         /\ ~HasNext(limit) => Page(limit) = Matching
         /\ HasNext(limit) =>
              /\ Page(limit) # {}
              /\ LastOf(Page(limit)) \in Page(limit)
              /\ \A id \in Page(limit) : ~Below(Key(id), Key(LastOf(Page(limit))))
              /\ \A id \in Matching \ Page(limit) :
                   Below(Key(id), Key(LastOf(Page(limit))))
<1> DEFINE F == Found(limit)
           P == Page(limit)
           L == LastOf(P)
<1>1. Present(Matching)
  BY DEF Present, Matching
<1>2. F \subseteq Matching /\ P \subseteq F
  BY DEF Found, ListRanking, FirstOf, Page
<1>3. Present(F) /\ Present(P)
  BY <1>1, <1>2 DEF Present
<1>4. ~HasNext(limit) => P = Matching
  BY <1>1, NoMoreThanTheLimit DEF HasNext, Found, ListRanking, Page
<1>5. ASSUME HasNext(limit)
      PROVE  /\ P # {}
             /\ L \in P
             /\ \A id \in P : ~Below(Key(id), Key(L))
             /\ \A id \in Matching \ P : Below(Key(id), Key(L))
  <2>1. F # {}
    <3>1. F = {} => Cardinality(F) = 0
      BY FS_EmptySet
    <3> QED BY <1>5, <3>1 DEF HasNext
  <2>2. PICK top \in F : \A j \in F : ~Ahead(j, top)
    BY <2>1, <1>3, EndsExist
  <2>3. {j \in F : Ahead(j, top)} = {}
    BY <2>2
  <2>4. Cardinality({j \in F : Ahead(j, top)}) = 0
    BY <2>3, FS_EmptySet
  <2>5. top \in P
    BY <1>5, <2>4 DEF Page, FirstOf
  <2>6. L \in P /\ \A j \in P : j = L \/ Ahead(j, L)
    BY <2>5, <1>3, EndsExist
  <2>7. \A id \in P : ~Below(Key(id), Key(L))
    <3> TAKE id \in P
    <3>1. Key(id) \in Cursors /\ Key(L) \in Cursors
      BY <2>6, <1>3 DEF Present, TypeOK, Key, Row, Cursors
    <3>2. id = L \/ Below(Key(L), Key(id))
      BY <2>6, <1>3, AheadIsNotBelow
    <3> QED BY <3>1, <3>2, BelowIsTransitive DEF Below, Cursors
  <2>8. \A id \in Matching \ P : Below(Key(id), Key(L))
    <3> TAKE id \in Matching \ P
    <3>1. L \in Matching /\ id # L
      BY <1>2, <2>6
    <3>2. ~Ahead(id, L)
      <4>1. SUFFICES ASSUME Ahead(id, L) PROVE FALSE
        OBVIOUS
      <4>2. id \in F
        BY <4>1, <2>6, <1>1, <1>2, LimitKeepsTheFirst DEF Found, ListRanking
      <4>3. id \in P
        BY <4>1, <4>2, <2>6, <1>3, <1>5, LimitKeepsTheFirst DEF Page
      <4> QED BY <4>3
    <3>3. Ahead(L, id)
      BY <3>1, <3>2, <1>1, AheadIsAnOrder
    <3> QED BY <3>1, <3>3, <1>1, AheadIsNotBelow
  <2> QED BY <2>5, <2>6, <2>7, <2>8
<1> QED BY <1>1, <1>2, <1>4, <1>5

----------------------------------------------------------------------------
(* The inductive invariant.                                                *)

\* The key of a row in a state of the ranking.
KeyIn(rs, by, id) == [s |-> rs[id][by], i |-> id]

\* No row shown is below the cursor, but one that fell.
ShownAbove ==
  phase = "walking" =>
    \A id \in returned :
      /\ cursor # None
      /\ rows[id] # None /\ id \notin fell => ~Below(KeyIn(rows, sort, id), cursor)

\* Every row not shown yet is below the cursor, but those that rose.
RestBelow ==
  phase = "walking" =>
    \A id \in Ids \ (rose \cup returned) :
      rows[id] # None /\ (cursor # None => Below(KeyIn(rows, sort, id), cursor))

PagesInv == TypeOK /\ ShownAbove /\ RestBelow /\ NoRowTwice /\ NoRowMissed

\* The key of a row is a cursor.
LEMMA KeyIsACursor ==
  ASSUME TypeOK, NEW id \in Ids, rows[id] # None
  PROVE  Key(id) \in Cursors /\ Key(id) # None
BY RankingPagesAssumption DEF TypeOK, Key, Cursors, Row

LEMMA PagesInit ==
  ASSUME Init
  PROVE  PagesInv
BY RankingPagesAssumption
   DEF Init, PagesInv, TypeOK, ShownAbove, RestBelow, NoRowTwice, NoRowMissed

LEMMA PagesStartWalk ==
  ASSUME PagesInv, NEW asked \in Sorts \cup {None}, StartWalk(asked)
  PROVE  PagesInv'
<1>1. TypeOK'
  BY RankingPagesAssumption DEF PagesInv, TypeOK, StartWalk, EffectiveSort
<1> QED BY <1>1 DEF PagesInv, StartWalk, ShownAbove, RestBelow, NoRowTwice, NoRowMissed

\* What FetchPage does, in terms of the page.
LEMMA FetchedPage ==
  ASSUME PagesInv, NEW asked \in Limits, FetchPage(asked)
  PROVE  \E limit \in Nat \ {0} :
           /\ limit = Clamp(asked)
           /\ UNCHANGED <<rows, sort, rose, fell>>
           /\ phase = "walking"
           /\ returned' = returned \cup Page(limit)
           /\ twice' = twice \cup (returned \cap Page(limit))
           /\ \/ /\ HasNext(limit) /\ phase' = "walking"
                 /\ cursor' = Key(LastOf(Page(limit)))
              \/ /\ ~HasNext(limit) /\ phase' = "done"
                 /\ cursor' = None
<1> DEFINE limit == Clamp(asked)
<1>1. limit \in Nat \ {0}
  BY ClampIsALimit
<1>2. HasNext(limit) => Page(limit) # {}
  BY <1>1, PageIsAPrefix DEF PagesInv
<1>3. /\ UNCHANGED <<rows, sort, rose, fell>>
      /\ phase = "walking"
      /\ returned' = returned \cup Page(limit)
      /\ twice' = twice \cup (returned \cap Page(limit))
      /\ phase' = IF HasNext(limit) THEN "walking" ELSE "done"
      /\ cursor' = IF HasNext(limit) /\ Page(limit) # {}
                   THEN Key(LastOf(Page(limit))) ELSE None
  BY DEF FetchPage, Key, SortValue
<1> HIDE DEF limit
<1>4. limit = Clamp(asked)
  BY DEF limit
<1> QED BY <1>1, <1>2, <1>3, <1>4

\* A page leads the walk down, and its cursor separates the rows again.
LEMMA PageDescends ==
  ASSUME PagesInv, phase = "walking", NEW limit \in Nat \ {0}, HasNext(limit)
  PROVE  LET next == Key(LastOf(Page(limit))) IN
         /\ next \in Cursors /\ next # None
         /\ cursor # None => Below(next, cursor)
         /\ \A id \in returned \cup Page(limit) :
              rows[id] # None /\ id \notin fell => ~Below(Key(id), next)
         /\ \A id \in Ids \ (rose \cup returned \cup Page(limit)) :
              rows[id] # None /\ Below(Key(id), next)
<1> DEFINE L == LastOf(Page(limit))
           next == Key(L)
<1>1. /\ Present(Matching) /\ Page(limit) \subseteq Matching
      /\ L \in Page(limit)
      /\ \A id \in Page(limit) : ~Below(Key(id), next)
      /\ \A id \in Matching \ Page(limit) : Below(Key(id), next)
  BY PageIsAPrefix DEF PagesInv
<1>2. L \in Ids /\ rows[L] # None
  BY <1>1 DEF Present
<1>3. next \in Cursors /\ next # None
  BY <1>2, KeyIsACursor DEF PagesInv
<1>4. cursor # None => Below(next, cursor)
  BY <1>1 DEF Matching
<1>5. ASSUME NEW id \in returned, rows[id] # None, id \notin fell
      PROVE  ~Below(Key(id), next)
  <2>1. cursor # None /\ ~Below(Key(id), cursor)
    BY <1>5 DEF PagesInv, ShownAbove, RestBelow, Key, KeyIn
  <2>2. cursor \in Cursors /\ id \in Ids
    BY <2>1 DEF PagesInv, TypeOK
  <2>3. Key(id) \in Cursors
    BY <1>5, <2>2, KeyIsACursor DEF PagesInv
  <2> QED BY <1>3, <1>4, <2>1, <2>2, <2>3, BelowIsTransitive
<1>6. ASSUME NEW id \in Ids \ (rose \cup returned \cup Page(limit))
      PROVE  rows[id] # None /\ Below(Key(id), next)
  <2>1. rows[id] # None /\ (cursor # None => Below(Key(id), cursor))
    BY <1>6 DEF PagesInv, ShownAbove, RestBelow, Key, KeyIn
  <2>2. id \in Matching
    BY <2>1 DEF Matching
  <2> QED BY <1>1, <2>1, <2>2
<1> HIDE DEF L
<1>7. \A id \in returned \cup Page(limit) :
        rows[id] # None /\ id \notin fell => ~Below(Key(id), next)
  BY <1>1, <1>5
<1> QED BY <1>3, <1>4, <1>6, <1>7 DEF L

LEMMA PagesFetchPage ==
  ASSUME PagesInv, NEW asked \in Limits, FetchPage(asked)
  PROVE  PagesInv'
<1>1. PICK limit \in Nat \ {0} :
           /\ UNCHANGED <<rows, sort, rose, fell>>
           /\ phase = "walking"
           /\ returned' = returned \cup Page(limit)
           /\ twice' = twice \cup (returned \cap Page(limit))
           /\ \/ /\ HasNext(limit) /\ phase' = "walking"
                 /\ cursor' = Key(LastOf(Page(limit)))
              \/ /\ ~HasNext(limit) /\ phase' = "done"
                 /\ cursor' = None
  BY FetchedPage
<1>2. /\ Present(Matching) /\ Page(limit) \subseteq Matching
      /\ ~HasNext(limit) => Page(limit) = Matching
  BY PageIsAPrefix DEF PagesInv
<1>3. Page(limit) \subseteq Ids
  BY <1>2 DEF Present
<1>4. \A id \in Ids : KeyIn(rows', sort', id) = Key(id)
  BY <1>1 DEF Key, KeyIn
<1>5. TypeOK'
  <2>1. cursor' \in Cursors \cup {None} /\ (phase' # "walking" => cursor' = None)
    BY <1>1, PageDescends
  <2> QED BY <1>1, <1>3, <2>1 DEF PagesInv, TypeOK
<1>6. NoRowTwice'
  <2>1. \A id \in returned \cap Page(limit) : id \in fell
    BY <1>1, <1>2 DEF PagesInv, ShownAbove, RestBelow, Key, KeyIn, Matching
  <2> QED BY <1>1, <2>1 DEF PagesInv, NoRowTwice
<1>7. ShownAbove' /\ RestBelow'
  <2>1. CASE HasNext(limit)
    <3> DEFINE next == Key(LastOf(Page(limit)))
    <3>1. /\ next # None
          /\ \A id \in returned \cup Page(limit) :
               rows[id] # None /\ id \notin fell => ~Below(Key(id), next)
          /\ \A id \in Ids \ (rose \cup returned \cup Page(limit)) :
               rows[id] # None /\ Below(Key(id), next)
      BY <1>1, <2>1, PageDescends
    <3>2. cursor' = next /\ phase' = "walking"
      BY <1>1, <2>1
    <3> HIDE DEF next
    <3>3. returned' \subseteq Ids
      BY <1>5 DEF TypeOK
    <3>4. \A id \in returned' :
            /\ cursor' # None
            /\ rows'[id] # None /\ id \notin fell'
                 => ~Below(KeyIn(rows', sort', id), cursor')
      BY <1>1, <1>4, <3>1, <3>2, <3>3
    <3>5. \A id \in Ids \ (rose' \cup returned') :
            rows'[id] # None /\ (cursor' # None => Below(KeyIn(rows', sort', id), cursor'))
      BY <1>1, <1>4, <3>1, <3>2
    <3>6. ShownAbove'
      BY <3>4 DEF ShownAbove
    <3>7. RestBelow'
      BY <3>5 DEF RestBelow
    <3> QED BY <3>6, <3>7
  <2>2. CASE ~HasNext(limit)
    BY <1>1, <2>2 DEF ShownAbove, RestBelow
  <2> QED BY <2>1, <2>2
<1>8. NoRowMissed'
  <2>1. CASE HasNext(limit)
    BY <1>1, <2>1 DEF NoRowMissed
  <2>2. CASE ~HasNext(limit)
    <3>1. \A id \in Ids : id \in returned \/ id \in rose \/ id \in Matching
      BY <1>1 DEF PagesInv, ShownAbove, RestBelow, Key, KeyIn, Matching
    <3> QED BY <1>1, <1>2, <2>2, <3>1 DEF NoRowMissed
  <2> QED BY <2>1, <2>2
<1> QED BY <1>5, <1>6, <1>7, <1>8 DEF PagesInv

LEMMA PagesChange ==
  ASSUME PagesInv, NEW id \in Ids, NEW row \in Row \cup {None}, Change(id, row)
  PROVE  PagesInv'
<1>1. TypeOK'
  BY DEF PagesInv, TypeOK, Change, walk
<1>2. NoRowTwice' /\ NoRowMissed'
  BY DEF PagesInv, Change, walk, NoRowTwice, NoRowMissed
<1>3. \A x \in Ids \ {id} : rows'[x] = rows[x] /\ KeyIn(rows', sort', x) = Key(x)
  BY DEF Change, walk, Key, KeyIn, PagesInv, TypeOK
<1>4. /\ rows'[id] = row
      /\ UNCHANGED <<phase, cursor, returned, sort>>
      /\ rose \subseteq rose' /\ fell \subseteq fell'
  BY DEF Change, walk, PagesInv, TypeOK
<1>5. ShownAbove' /\ RestBelow'
  <2> SUFFICES ASSUME phase = "walking"
               PROVE  ShownAbove' /\ RestBelow'
    BY <1>4 DEF ShownAbove, RestBelow
  <2>2. returned \subseteq Ids /\ \A x \in returned : cursor # None
    BY DEF PagesInv, ShownAbove, RestBelow, TypeOK
  <2>3. ASSUME NEW x \in returned, rows'[x] # None, x \notin fell'
        PROVE  ~Below(KeyIn(rows', sort', x), cursor)
    <3>1. CASE x # id
      BY <1>3, <1>4, <2>2, <2>3, <3>1 DEF PagesInv, ShownAbove, RestBelow, Key, KeyIn
    <3>2. CASE x = id
      <4>1. row # None /\ rows[id] # None /\ ~(row[sort] < rows[id][sort])
        BY <1>4, <2>3, <3>2 DEF Change
      <4>2. ~Below(Key(id), cursor)
        BY <1>4, <2>3, <3>2, <4>1 DEF PagesInv, ShownAbove, RestBelow, Key, KeyIn
      <4>3. cursor \in Cursors
        BY <2>2, <2>3 DEF PagesInv, TypeOK
      <4>4. row[sort] \in Int /\ rows[id][sort] \in Int
        BY <4>1, RankingPagesAssumption DEF PagesInv, TypeOK, Row
      <4>5. KeyIn(rows', sort', id) = [s |-> row[sort], i |-> id]
        BY <1>4 DEF KeyIn
      <4>6. cursor.s \in Int /\ cursor.i \in Int /\ id \in Int
        BY <4>3, RankingPagesAssumption DEF Cursors
      <4> QED BY <3>2, <4>1, <4>2, <4>4, <4>5, <4>6 DEF Below, Key
    <3> QED BY <3>1, <3>2
  <2>4. ASSUME NEW x \in Ids \ (rose' \cup returned)
        PROVE  rows'[x] # None /\ (cursor # None => Below(KeyIn(rows', sort', x), cursor))
    <3>1. rows[x] # None /\ (cursor # None => Below(Key(x), cursor))
      BY <1>4, <2>4 DEF PagesInv, ShownAbove, RestBelow, Key, KeyIn
    <3>2. CASE x # id
      BY <1>3, <2>4, <3>1, <3>2
    <3>3. CASE x = id
      <4>1. row # None /\ ~(row[sort] > rows[id][sort])
        BY <1>4, <2>4, <3>1, <3>3 DEF Change
      <4>2. row[sort] \in Int /\ rows[id][sort] \in Int
        BY <3>1, <3>3, <4>1, RankingPagesAssumption DEF PagesInv, TypeOK, Row
      <4>3. KeyIn(rows', sort', id) = [s |-> row[sort], i |-> id]
        BY <1>4 DEF KeyIn
      <4>4. ASSUME cursor # None
            PROVE  Below(KeyIn(rows', sort', id), cursor)
        <5>1. cursor.s \in Int /\ cursor.i \in Int /\ id \in Int
          BY <4>4, RankingPagesAssumption DEF Cursors, PagesInv, TypeOK
        <5> QED BY <3>1, <3>3, <4>1, <4>2, <4>3, <4>4, <5>1 DEF Below, Key
      <4> QED BY <1>4, <3>3, <4>1, <4>4
    <3> QED BY <3>2, <3>3
  <2>5. ShownAbove'
    BY <1>4, <2>2, <2>3 DEF ShownAbove
  <2>6. RestBelow'
    BY <1>4, <2>4 DEF RestBelow
  <2> QED BY <2>5, <2>6
<1> QED BY <1>1, <1>2, <1>5 DEF PagesInv

LEMMA PagesStutter ==
  ASSUME PagesInv, UNCHANGED vars
  PROVE  PagesInv'
<1>1. UNCHANGED <<rows, phase, sort, cursor, returned, twice, rose, fell>>
  BY DEF vars, walk, history
<1>2. TypeOK' /\ NoRowTwice' /\ NoRowMissed'
  BY <1>1 DEF PagesInv, TypeOK, NoRowTwice, NoRowMissed
<1>3. ShownAbove' /\ RestBelow'
  BY <1>1 DEF PagesInv, ShownAbove, RestBelow, KeyIn
<1> QED BY <1>2, <1>3 DEF PagesInv

\* A walk shows each row that stays where it is exactly once: none that did
\* not fall is shown twice, none that did not rise is missed.
THEOREM WalksAreExact == Spec => [](TypeOK /\ NoRowTwice /\ NoRowMissed)
<1>1. Init => PagesInv
  BY PagesInit
<1>2. PagesInv /\ [Next]_vars => PagesInv'
  BY PagesStartWalk, PagesFetchPage, PagesChange, PagesStutter DEF Next
<1>3. PagesInv => TypeOK /\ NoRowTwice /\ NoRowMissed
  BY DEF PagesInv
<1> QED BY <1>1, <1>2, <1>3, PTL DEF Spec

\* Each page with a next one leads the walk further down the ranking.
THEOREM WalksDescend == Spec => WalkDescends
<1> DEFINE Down == (phase = "walking" /\ phase' = "walking" /\ cursor' # cursor) =>
                     /\ cursor' # None
                     /\ cursor # None => Below(cursor', cursor)
<1>1. Init => PagesInv
  BY PagesInit
<1>2. PagesInv /\ [Next]_vars => PagesInv'
  BY PagesStartWalk, PagesFetchPage, PagesChange, PagesStutter DEF Next
<1>3. ASSUME PagesInv, [Next]_vars
      PROVE  Down
  <2>1. CASE \E asked \in Sorts \cup {None} : StartWalk(asked)
    BY <2>1 DEF StartWalk
  <2>2. ASSUME NEW asked \in Limits, FetchPage(asked)
        PROVE  Down
    BY <1>3, <2>2, FetchedPage, PageDescends
  <2>3. CASE \E id \in Ids, row \in Row \cup {None} : Change(id, row)
    BY <2>3 DEF Change, walk
  <2>4. CASE UNCHANGED vars
    BY <2>4 DEF vars, walk
  <2> QED BY <1>3, <2>1, <2>2, <2>3, <2>4 DEF Next
<1> QED BY <1>1, <1>2, <1>3, PTL DEF Spec, WalkDescends

----------------------------------------------------------------------------
(* Rank numbers.                                                           *)

\* Every step of the lists with rank numbers is one of the lists alone.
LEMMA RankStep ==
  ASSUME [RankNext]_rankVars
  PROVE  [Next]_vars
<1>1. CASE RankNext
  BY <1>1 DEF RankNext, Next, StartRankedWalk, FetchRankedPage, Move, MoveUnlisted
<1>2. CASE UNCHANGED rankVars
  BY <1>2 DEF rankVars
<1> QED BY <1>1, <1>2

\* A row that is better than one of the page has been shown, or rose.
LEMMA BetterRowsAreShown ==
  ASSUME PagesInv, NEW asked \in Limits, FetchPage(asked),
         NEW id \in returned' \ returned,
         NEW j \in Ids, rows[j] # None, rows[j][sort] > rows[id][sort],
         j \notin rose
  PROVE  id \in Ids /\ rows[id] # None /\ j \in returned'
<1>1. PICK limit \in Nat \ {0} :
           /\ phase = "walking"
           /\ returned' = returned \cup Page(limit)
           /\ \/ HasNext(limit)
              \/ /\ ~HasNext(limit) /\ phase' = "done"
  BY FetchedPage
<1>2. id \in Page(limit)
  BY <1>1
<1>3. /\ Present(Matching) /\ Page(limit) \subseteq Matching
      /\ ~HasNext(limit) => Page(limit) = Matching
      /\ HasNext(limit) =>
           /\ LastOf(Page(limit)) \in Page(limit)
           /\ ~Below(Key(id), Key(LastOf(Page(limit))))
  BY <1>2, PageIsAPrefix DEF PagesInv
<1>4. id \in Ids /\ rows[id] # None
  BY <1>2, <1>3 DEF Present
<1>5. ASSUME j \notin returned'
      PROVE  FALSE
  <2>1. CASE HasNext(limit)
    <3> DEFINE L == LastOf(Page(limit))
    <3>1. Below(Key(j), Key(L))
      BY <1>1, <1>5, <2>1, PageDescends
    <3>2. L \in Ids /\ rows[L] # None
      BY <1>3, <2>1 DEF Present
    <3>3. \A i \in {id, j, L} : Key(i).s = rows[i][sort] /\ Key(i).s \in Int
      BY <1>4, <3>2, RankingPagesAssumption DEF PagesInv, TypeOK, Row, Key
    <3>4. ~Below(Key(id), Key(L))
      BY <1>3, <2>1
    <3> HIDE DEF L
    <3>5. Key(j).s <= Key(L).s
      BY <3>1, <3>3 DEF Below
    <3>6. Key(L).s <= Key(id).s
      BY <3>3, <3>4 DEF Below
    <3> QED BY <3>3, <3>5, <3>6
  <2>2. CASE ~HasNext(limit)
    <3>1. (NoRowMissed)'
      BY PagesFetchPage DEF PagesInv
    <3>2. j \in returned' \/ j \in rose'
      BY <1>1, <2>2, <3>1 DEF NoRowMissed
    <3>3. rose' = rose
      BY DEF FetchPage
    <3> QED BY <1>5, <3>2, <3>3
  <2> QED BY <2>1, <2>2
<1> QED BY <1>4, <1>5

\* What a page showed of a row is what it is now, but that it may have risen,
\* fallen or left.
WasShown(j) ==
  /\ shown[j] \in Values
  /\ j \notin rose => rows[j] # None /\ shown[j] >= rows[j][sort]
  /\ rows[j] # None /\ j \notin fell => shown[j] <= rows[j][sort]

ShownInv == PagesInv /\ (phase = "walking" => \A j \in returned : WasShown(j))

\* After a page, of each row shown so far.
LEMMA PageShows ==
  ASSUME ShownInv, NEW asked \in Limits, FetchRankedPage(asked), NEW j \in returned'
  PROVE  j \in Ids /\ WasShown(j)'
<1>1. PICK limit \in Nat \ {0} :
           /\ limit = Clamp(asked)
           /\ UNCHANGED <<rows, sort, rose, fell>>
           /\ phase = "walking"
           /\ returned' = returned \cup Page(limit)
  BY FetchedPage DEF ShownInv, FetchRankedPage
<1>2. Page(limit) \subseteq Ids /\ \A i \in Page(limit) : rows[i] # None
  BY PageIsAPrefix DEF ShownInv, PagesInv, Present
<1>3. \A i \in Ids : shown'[i] = IF i \in Page(limit) THEN rows[i][sort] ELSE shown[i]
  BY <1>1 DEF FetchRankedPage
<1>4. j \in Ids
  BY <1>1, <1>2 DEF ShownInv, PagesInv, TypeOK
<1>5. CASE j \in Page(limit)
  <2>1. rows[j] # None /\ rows[j][sort] \in Values /\ rows[j][sort] \in Int
    BY <1>2, <1>4, <1>5, RankingPagesAssumption DEF ShownInv, PagesInv, TypeOK, Row
  <2> QED BY <1>1, <1>3, <1>4, <1>5, <2>1 DEF WasShown
<1>6. CASE j \notin Page(limit)
  <2>1. WasShown(j)
    BY <1>1, <1>6 DEF ShownInv
  <2> QED BY <1>1, <1>3, <1>4, <1>6, <2>1 DEF WasShown
<1> QED BY <1>4, <1>5, <1>6

LEMMA MoveShows ==
  ASSUME ShownInv, phase = "walking", NEW id \in Ids, NEW row \in Row \cup {None},
         Change(id, row), UNCHANGED shown, NEW j \in returned
  PROVE  WasShown(j)'
<1>1. /\ UNCHANGED <<phase, sort, returned, shown>>
      /\ rows'[id] = row /\ \A i \in Ids \ {id} : rows'[i] = rows[i]
      /\ rose \subseteq rose' /\ fell \subseteq fell'
  BY DEF ShownInv, PagesInv, TypeOK, Change, walk
<1>2. WasShown(j) /\ j \in Ids
  BY DEF ShownInv, PagesInv, TypeOK
<1>3. CASE j # id
  BY <1>1, <1>2, <1>3 DEF WasShown
<1>4. CASE j = id
  <2>1. row # None => row[sort] \in Int
    BY RankingPagesAssumption DEF ShownInv, PagesInv, TypeOK, Row
  <2>2. rows[id] # None => rows[id][sort] \in Int
    BY RankingPagesAssumption DEF ShownInv, PagesInv, TypeOK, Row
  <2>3. shown[j] \in Int
    BY <1>2, RankingPagesAssumption DEF WasShown
  <2>4. ASSUME id \notin rose'
        PROVE  row # None /\ shown[j] >= row[sort]
    <3>1. id \notin rose /\ row # None /\ ~(rows[id] # None /\ row[sort] > rows[id][sort])
      BY <1>1, <2>4 DEF Change
    <3>2. rows[id] # None /\ shown[j] >= rows[id][sort]
      BY <1>2, <1>4, <3>1 DEF WasShown
    <3> QED BY <2>1, <2>2, <2>3, <3>1, <3>2
  <2>5. ASSUME row # None, id \notin fell'
        PROVE  shown[j] <= row[sort]
    <3>1. id \notin fell /\ rows[id] # None /\ ~(row[sort] < rows[id][sort])
      BY <1>1, <2>5 DEF Change
    <3>2. shown[j] <= rows[id][sort]
      BY <1>2, <1>4, <3>1 DEF WasShown
    <3> QED BY <2>1, <2>2, <2>3, <2>5, <3>1, <3>2
  <2> QED BY <1>1, <1>2, <1>4, <2>4, <2>5 DEF WasShown
<1> QED BY <1>3, <1>4

LEMMA ShownStep ==
  ASSUME ShownInv, [RankNext]_rankVars
  PROVE  ShownInv'
<1>1. PagesInv'
  BY RankStep, PagesStartWalk, PagesFetchPage, PagesChange, PagesStutter
     DEF Next, ShownInv
<1>2. ASSUME NEW asked \in Sorts \cup {None}, StartRankedWalk(asked)
      PROVE  ShownInv'
  BY <1>1, <1>2 DEF StartRankedWalk, StartWalk, ShownInv
<1>3. ASSUME NEW asked \in Limits, FetchRankedPage(asked)
      PROVE  ShownInv'
  BY <1>1, <1>3, PageShows DEF ShownInv
<1>4. ASSUME NEW id \in Ids, NEW row \in Row \cup {None}, NEW other \in Row \cup {None},
             Move(id, row, other)
      PROVE  ShownInv'
  <2>1. Change(id, row) /\ UNCHANGED shown /\ UNCHANGED <<phase, returned>>
    BY <1>4 DEF Move, Change, walk
  <2> QED BY <1>1, <2>1, MoveShows DEF ShownInv
<1>5. CASE UNCHANGED <<vars, shown>>
  <2>1. UNCHANGED <<rows, phase, sort, returned, rose, fell, shown>>
    BY <1>5 DEF vars, walk, history
  <2> QED BY <1>1, <2>1 DEF ShownInv, WasShown
<1>6. CASE UNCHANGED rankVars
  BY <1>5, <1>6 DEF rankVars
<1> QED BY <1>2, <1>3, <1>4, <1>5, <1>6 DEF RankNext, MoveUnlisted

\* The rank of a row of a new page.
Ranked(id) ==
  /\ RankOf(id) >= 1 + Cardinality((SeenAbove(id) \ Sunk) \cup UnseenAbove(id))
  /\ RankOf(id) <= 1 + Cardinality(SeenAbove(id) \cup UnseenAbove(id))

LEMMA RankOfANewRow ==
  ASSUME ShownInv, NEW asked \in Limits, FetchRankedPage(asked),
         RankColumn[sort] = sort, NEW id \in returned' \ returned
  PROVE  Ranked(id)
<1> DEFINE listed == BetterThan(rows[id], rows)
           seen   == SeenAbove(id)
           unseen == UnseenAbove(id)
           all    == Counted(rows[id])
<1>0. /\ PagesInv /\ FetchPage(asked) /\ phase = "walking"
      /\ rows' = rows /\ sort' = sort /\ rose' = rose /\ fell' = fell
  BY DEF ShownInv, FetchRankedPage, FetchPage
<1>1. id \in Ids /\ rows[id] # None
  <2>1. PICK limit \in Nat \ {0} : returned' = returned \cup Page(limit)
    BY <1>0, FetchedPage
  <2> QED BY <1>0, <2>1, PageIsAPrefix DEF PagesInv, Present
<1>2. \A j \in Ids : rows[j] # None => rows[j][sort] \in Int
  BY <1>0, RankingPagesAssumption DEF PagesInv, TypeOK, Row
<1>3. \A j \in returned' : /\ j \in Ids /\ shown'[j] \in Int
                           /\ j \notin rose => shown'[j] >= rows[j][sort]
                           /\ j \notin Sunk => rows[j] # None /\ shown'[j] <= rows[j][sort]
  BY <1>0, PageShows, RankingPagesAssumption DEF WasShown, Sunk
<1>4. \A j \in listed : j \in Ids /\ rows[j] # None /\ rows[j][sort] > rows[id][sort]
  BY DEF BetterThan, Better
<1>5. \A j \in listed \ rose : j \in seen
  <2> TAKE j \in listed \ rose
  <2>1. j \in returned'
    BY <1>0, <1>4, BetterRowsAreShown
  <2>2. shown'[j] > rows[id][sort]
    BY <1>1, <1>2, <1>3, <1>4, <2>1
  <2> QED BY <2>1, <2>2 DEF SeenAbove
<1>6. \A j \in seen \ Sunk : j \in listed
  <2> TAKE j \in seen \ Sunk
  <2>1. j \in returned' /\ shown'[j] > rows[id][sort]
    BY DEF SeenAbove
  <2>2. j \in Ids /\ rows[j] # None /\ rows[j][sort] > rows[id][sort]
    BY <1>1, <1>2, <1>3, <2>1
  <2> QED BY <2>2 DEF BetterThan, Better
<1>7. all = listed \cup BetterThan(rows[id], unlisted) /\ all \subseteq Ids
  BY DEF Counted, BetterThan
<1>8. seen \subseteq Ids
  BY <1>3 DEF SeenAbove
<1>9. unseen = (rose \cap listed) \cup BetterThan(rows[id], unlisted)
  BY DEF UnseenAbove
<1> HIDE DEF listed, seen, unseen, all
<1>10. (seen \ Sunk) \cup unseen \subseteq all /\ all \subseteq seen \cup unseen
  BY <1>5, <1>6, <1>7, <1>9
<1>11. seen \cup unseen \subseteq Ids
  BY <1>7, <1>8, <1>9
<1>12. IsFiniteSet(seen \cup unseen) /\ IsFiniteSet(all)
       /\ IsFiniteSet((seen \ Sunk) \cup unseen)
  BY <1>7, <1>10, <1>11, RankingPagesAssumption, FS_Subset
<1>13. /\ Cardinality((seen \ Sunk) \cup unseen) <= Cardinality(all)
       /\ Cardinality(all) <= Cardinality(seen \cup unseen)
  BY <1>10, <1>12, FS_Subset
<1>14. /\ Cardinality((seen \ Sunk) \cup unseen) \in Nat
       /\ Cardinality(all) \in Nat /\ Cardinality(seen \cup unseen) \in Nat
  BY <1>12, FS_CardinalityType
<1>15. RankOf(id) = Cardinality(all) + 1
  BY DEF RankOf, all
<1>16. /\ RankOf(id) >= 1 + Cardinality((seen \ Sunk) \cup unseen)
       /\ RankOf(id) <= 1 + Cardinality(seen \cup unseen)
  BY <1>13, <1>14, <1>15
<1> QED BY <1>16 DEF Ranked, seen, unseen

\* Also with rows that are counted but not listed, which come and go, each
\* walk through a ranking is one that RankingPages describes.
THEOREM RankedWalksAreWalks == RankSpec => Spec
<1>1. RankInit => Init
  BY DEF RankInit
<1>2. [RankNext]_rankVars => [Next]_vars
  BY RankStep
<1> QED BY <1>1, <1>2, PTL DEF RankSpec, Spec

\* In a list ranked by its own column, whatever changes between pages, a rank
\* is one more than the number of rows shown above, give or take those that are
\* unseen above it or have sunk since (RanksCountTheRowsAbove).
THEOREM RanksAreRight == RankSpec => RanksCountTheRowsAbove
<1> DEFINE Right == (phase = "walking" /\ RankColumn[sort] = sort) =>
                      \A id \in returned' \ returned : Ranked(id)
<1>1. RankInit => ShownInv
  BY PagesInit DEF RankInit, Init, ShownInv
<1>2. ShownInv /\ [RankNext]_rankVars => ShownInv'
  BY ShownStep
<1>3. ASSUME ShownInv, [RankNext]_rankVars
      PROVE  Right
  <2>1. ASSUME NEW asked \in Limits, FetchRankedPage(asked)
        PROVE  Right
    BY <1>3, <2>1, RankOfANewRow
  <2>2. CASE \E asked \in Sorts \cup {None} : StartRankedWalk(asked)
    BY <2>2 DEF StartRankedWalk, StartWalk
  <2>3. CASE \E id \in Ids, row, other \in Row \cup {None} : Move(id, row, other)
    BY <2>3 DEF Move, Change, walk
  <2>4. CASE UNCHANGED <<vars, shown>>
    BY <2>4 DEF vars, walk
  <2>5. CASE UNCHANGED rankVars
    BY <2>4, <2>5 DEF rankVars
  <2> QED BY <1>3, <2>1, <2>2, <2>3, <2>4, <2>5 DEF RankNext, MoveUnlisted
<1> QED BY <1>1, <1>2, <1>3, PTL DEF RankSpec, RanksCountTheRowsAbove, Ranked
=============================================================================
