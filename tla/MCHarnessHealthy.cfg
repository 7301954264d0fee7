\* A target that never fails, and a window of two bins.
SPECIFICATION HealthySpec
CONSTANTS
  Baseline = 0
  Fault = 2
  Settle = 1
  UsePrometheus = FALSE
  Th <- Hypothesis
  Lag = 0
  MaxInject = 0
  MaxTicks = 3
INVARIANTS
  HealthyTargetPasses
