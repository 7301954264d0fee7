\* A baseline and a window of one unit each, a slow injection, a signal at any moment.
SPECIFICATION PromptSpec
CONSTANTS
  Baseline = 1
  Fault = 1
  Settle = 1
  UsePrometheus = TRUE
  Th <- Hypothesis
  Lag = 0
  MaxInject = 1
  MaxTicks = 2
INVARIANTS
  EveryInjectionIsRolledBack
  JudgedWindowIsComplete
  VerdictIsOfAllSamples
  ExitCodeTellsTheVerdict
PROPERTIES
  SignalledRunExits
  EveryRunExits
