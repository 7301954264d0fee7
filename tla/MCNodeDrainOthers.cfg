\* One run in which nothing fails, next to actors that cordon nodes for their own ends.
SPECIFICATION Spec
CONSTANTS
  n1 = n1
  n2 = n2
  p1 = p1
  p2 = p2
  p3 = p3
  None = None
  Others = Others
  Nodes <- TwoNodes
  Pods <- ThreePods
  Failures = {}
  OthersCordon = TRUE
  MaxRuns = 1
INVARIANTS
  OthersCordonsStand
