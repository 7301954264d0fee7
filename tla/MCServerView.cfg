\* A scrape every 3 s, queries 2 s after a window of 2 or 4 s has ended.
SPECIFICATION ViewSpec
CONSTANTS
  p = p
  q = q
  Pods <- OnePod
  Interval = 3
  Windows <- SomeWindows
  FaultEnd = 4
  Settle = 2
INVARIANTS
  ZeroMeansRedisWentAway
