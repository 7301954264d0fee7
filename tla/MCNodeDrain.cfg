\* Two runs, every failure of every call, next to a cluster that changes under it.
SPECIFICATION Spec
CONSTANTS
  n1 = n1
  n2 = n2
  p1 = p1
  p2 = p2
  p3 = p3
  None = None
  Others = Others
  Nodes <- TwoNodes
  Pods <- ThreePods
  Failures <- AnyFailure
  OthersCordon = TRUE
  MaxRuns = 2
SYMMETRY ClusterSymmetry
INVARIANTS
  StrandsOnlyOnError
  InjectedMeansEvicted
PROPERTIES
  ImplementsInjector
