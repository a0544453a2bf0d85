CONSTANTS
  Users = {u1, u2}
  Repos = {r1}
  Years = {2025}
  None = None
  Owners = {u1, u2, None}
  Handlers = {h1}
  Collector = collector
  Requests = {"login", "toggle"}
  PageSize = 1
  Faults = {}
  Cooldown = 0
  MaxNow = 0
  MaxVersion = 0
SPECIFICATION Spec
INVARIANTS
  RankingFollowsSources
PROPERTIES
  VisibilityIsTheOwners
