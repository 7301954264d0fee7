\* Three runs, overlapping or not, every failure, and others that scale.
SPECIFICATION Spec
CONSTANTS
  h1 = h1
  h2 = h2
  h3 = h3
  Unset = Unset
  None = None
  Harnesses <- ThreeRuns
  Counts = {0, 1, 3}
  Failures <- AnyFailure
  OthersScale = TRUE
  Overlap = TRUE
SYMMETRY RunSymmetry
INVARIANTS
  WrongCountIsExplained
  UntakenIsUntouched
PROPERTIES
  ImplementsInjector
