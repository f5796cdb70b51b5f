\* Two paths that share a pool, with different windows, at 80 percent; a third task asks for an unknown id.
CONSTANTS
  pool = pool
  light = light
  heavy = heavy
  none = none
  r1 = r1
  r2 = r2
  r3 = r3
  Ids = {pool, light, heavy, none}
  Limits = {pool, light, heavy}
  RawLimit <- TightPool
  SharePct = 80
  Interval <- MCInterval
  Margin <- MCMargin
  Weight <- MCWeight
  Links <- MCLinks
  Requests = {r1, r2, r3}
  Path <- MCPath
  MaxDelay = 1
  MaxCalls = 3
SPECIFICATION FairSpec
INVARIANTS
  TypeOK
  LogsCoverGrants
  ExchangeLimitRespected
PROPERTIES
  WaitingEnds
