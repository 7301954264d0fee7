\* Two pods, a scrape every 2 s, queries 1 s after a window of 1 or 2 s has ended.
SPECIFICATION ViewSpec
CONSTANTS
  p = p
  q = q
  Pods <- TwoPods
  Interval = 2
  Windows <- ShortWindows
  FaultEnd = 3
  Settle = 1
SYMMETRY Symmetry
INVARIANTS
  ServerViewIsObserved
