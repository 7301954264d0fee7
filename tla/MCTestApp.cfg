\* Two requests that overlap, and a process that is told to stop at any moment.
SPECIFICATION FairSpec
CONSTANTS
  q1 = q1
  q2 = q2
  None = None
  Requests <- TwoRequests
  DrainDelay = 2
  ShutdownTimeout = 2
  Propagation = 1
INVARIANTS
  TypeOK
  DeletionRefusesNobody
  OnlyATimeoutCuts
  GaugeIsRecent
PROPERTIES
  StoppedPodExits
