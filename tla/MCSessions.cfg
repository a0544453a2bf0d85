CONSTANTS
  Users = {u1, u2}
  Tabs = {t1, t2}
  None = None
  AccessTime = 1
  RefreshTime = 2
  AccessAge = 1
  RefreshAge = 2
  StateAge = 1
  MaxNow = 3
  MaxStates = 2
SYMMETRY Symmetry
SPECIFICATION Spec
INVARIANTS
  TypeOK
  OneUserPerJar
  LastWordCounts
  StaysSignedIn
  StateIsSpent
