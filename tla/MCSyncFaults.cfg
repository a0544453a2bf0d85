CONSTANTS
  Users = {u1}
  Repos = {r1}
  Years = {2024, 2025}
  None = None
  Owners = {u1, None}
  Handlers = {h1}
  Collector = collector
  Requests = {"login", "sync", "toggle"}
  PageSize = 1
  Faults = {"error", "crash"}
  Cooldown = 1
  MaxNow = 1
  MaxVersion = 0
SPECIFICATION Spec
INVARIANTS
  RowsHaveParents
  RankingFollowsSources
  RepoRankingFollowsSources
  SyncIsComplete
