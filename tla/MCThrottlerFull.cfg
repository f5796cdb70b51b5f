\* Paths with limit two: how many calls they let through.
CONSTANTS
  pool = pool
  light = light
  heavy = heavy
  none = none
  r1 = r1
  r2 = r2
  r3 = r3
  Ids = {pool, light, heavy, none}
  Limits = {pool, light, heavy}
  RawLimit <- WidePool
  SharePct = 100
  Interval <- ShortInterval
  Margin <- MCMargin
  Weight <- MCWeight
  Links <- MCLinks
  Requests = {r1, r2}
  Path <- MCPath
  MaxDelay = 1
  MaxCalls = 2
SPECIFICATION Spec
PROPERTIES
  FullLimitUsable
