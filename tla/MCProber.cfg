\* Two workers, a queue of two and four ticks; a cancellation at any moment, or never.
SPECIFICATION FairSpec
CONSTANTS
  w1 = w1
  w2 = w2
  Workers <- TwoWorkers
  Concurrency = 2
  MaxTicks = 4
INVARIANTS
  EveryTickAccountedFor
  NoSendAfterClose
PROPERTIES
  ReturnedSamplesAreFinal
  ImplementsLoadRun
  CancelledRunReturns
  EveryTickIsRecorded
