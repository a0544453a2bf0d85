CONSTANTS
  Users = {u1}
  Repos = {r1}
  Years = {2025}
  None = None
  Owners = {u1}
  Handlers = {h1, h2}
  Collector = collector
  Requests = {"login", "sync"}
  PageSize = 1
  Faults = {}
  Cooldown = 2
  MaxNow = 4
  MaxVersion = 0
SPECIFICATION CooldownSpec
PROPERTIES
  SyncEveryCooldown
