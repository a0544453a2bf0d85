CONSTANTS
  Users = {u1}
  Repos = {r1, r2}
  Years = {2025}
  None = None
  Owners = {u1}
  Handlers = {h1}
  Collector = collector
  Requests = {"login", "sync", "toggle"}
  PageSize = 1
  Faults = {}
  Cooldown = 0
  MaxNow = 0
  MaxVersion = 1
SPECIFICATION Spec
INVARIANTS
  TypeOK
  RankingFollowsSources
  RepoRankingFollowsSources
  SyncIsComplete
PROPERTIES
  VisibilityIsTheOwners
  NoRollback
