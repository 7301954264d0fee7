\* A minimum of two thirds: a bin of three may miss one, a bin of two none.
SPECIFICATION MCSpec
CONSTANTS
  Blank = Blank
  Word = Word
  MaxSamples = 4
  RateScale = 3
  MinNum = 2
  MinDen = 3
  Files <- AllFiles
  Inputs <- AllSlices
  InjectionTimes <- Injections
  EndTimes <- Ends
  Buckets <- Widths
INVARIANTS
  MeasuresRecovery
  ComputesRecoveryOf
  P95IsNearestRank
  NoDipMeansWindowHolds
  PassNeedsEvidence
  AcceptedFaultHasItsInjector
