CONSTANTS
  Users = {u1}
  Repos = {r1}
  Years = {2025}
  None = None
  Owners = {u1}
  Handlers = {h1}
  Collector = collector
  Requests = {"login", "sync", "toggle"}
  PageSize = 1
  Faults = {"error", "crash"}
  Cooldown = 0
  MaxNow = 0
  MaxVersion = 1
SPECIFICATION MCHealingSpec
PROPERTIES
  CollectorHeals
  HealedStays
