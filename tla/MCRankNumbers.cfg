CONSTANTS
  Ids = {1, 2, 3}
  Sorts = {"score", "stars"}
  DefaultSort = "score"
  Values = {0, 1}
  MaxLimit = 2
  Limits = {0, 1, 5}
  None = None
  RankColumn <- EachByItself
SPECIFICATION MCSpec
INVARIANTS
  TypeOK
  NoRowTwice
  NoRowMissed
PROPERTIES
  WalkDescends
  RanksCountTheRowsAbove
