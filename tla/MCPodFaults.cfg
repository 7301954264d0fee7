\* Three runs that overlap and two names of hogs, or up to three pods at a time and three
\* replacements; every failure.
SPECIFICATION PodFaultSpec
CONSTANTS
  h1 = h1
  h2 = h2
  h3 = h3
  x = x
  y = y
  p1 = p1
  p2 = p2
  p3 = p3
  None = None
  Runs <- ThreeRuns
  Names <- TwoNames
  Failures <- AnyFailure
  PodNames <- ThreePods
  Counts <- SomeCounts
  MaxUid = 3
  CallFailures <- AnyCallFailure
SYMMETRY Symmetry
INVARIANTS
  PressureStands
  ReportIsAccurate
  BlastRadius
  NotFoundMeansDisturbed
PROPERTIES
  ImplementsInjector
