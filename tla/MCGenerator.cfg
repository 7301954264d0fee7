\* A pool of two, and more ticks than pool and queue hold.
SPECIFICATION FairSpec
CONSTANTS
  Concurrency = 2
  MaxTicks = 5
INVARIANTS
  CountsAddUp
  DeadlineAbortsNothing
  FewLateStarts
PROPERTIES
  ImplementsLoadCount
  RunReturns
