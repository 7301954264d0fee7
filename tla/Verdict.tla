------------------------------ MODULE Verdict --------------------------------
(***************************************************************************)
(* From an experiment file to the verdict on the samples of its run: Load  *)
(* and newInjector, then, at the end of execute (cmd/harness/run.go), the  *)
(* summary of the fault window, the loops of module Recovery over the same *)
(* window, and BuildVerdict, which both decide.                            *)
(*                                                                         *)
(* What the probe will have recorded is among the arguments of Recovery,   *)
(* chosen at the start; its minimum rate is that of the experiment.  The   *)
(* properties relate what is computed twice, by different code, from the   *)
(* same samples.                                                           *)
(***************************************************************************)
EXTENDS Recovery, Experiment

CONSTANT Files            \* experiment files that parse

M == INSTANCE Measure

ASSUME ScaleAssumption == RateScale = MinDen
ASSUME FileAssumption  == \A e \in Files : DOMAIN e = Fields /\ \A f \in Numbers : e[f] \in Int
ASSUME MinimumAssumption ==
         \A e \in Files : e.minSuccessRate \in 1 .. RateScale => e.minSuccessRate = MinNum

VARIABLES exp, injector,
          stage,          \* "load", then "rejected", or "loaded", "measuring", "judged"
          summary, pass

measure == <<args, pc, k, bins, maxIdx, idx, lastUnhealthy, dur, recovered>>
verdictVars == <<exp, injector, stage, summary, pass>>

VerdictInit == /\ Init /\ exp \in Files
               /\ stage = "load" /\ injector = NoInjector
               /\ summary = M!Summarize(<<>>, {}) /\ pass = FALSE

Load == /\ stage = "load"
        /\ exp' = ApplyDefaults(exp)
        /\ injector' = IF Problems(exp') = {} THEN NewInjector(exp') ELSE NoInjector
        /\ stage' = IF injector' = NoInjector THEN "rejected" ELSE "loaded"
        /\ UNCHANGED <<measure, summary, pass>>

\* Mutated: the summary covers the slice the probe returned, baseline included.
SummarizeFault_WholeRun ==
  /\ stage = "loaded"
  /\ summary' = M!Summarize(samples, DOMAIN samples)
  /\ stage' = "measuring"
  /\ UNCHANGED <<measure, exp, injector, pass>>

SummarizeFault == /\ stage = "loaded"
                  /\ summary' = M!Summarize(samples, M!InWindow(samples, injectedAt, until))
                  /\ stage' = "measuring"
                  /\ UNCHANGED <<measure, exp, injector, pass>>

MeasureRecovery == stage = "measuring" /\ Next /\ UNCHANGED verdictVars

Thresholds == [num |-> exp.minSuccessRate, den |-> RateScale, maxP95 |-> exp.maxP95,
               timeout |-> exp.recoveryTimeout]

Judge == /\ stage = "measuring" /\ pc = "done"
         /\ pass' = M!Pass(Thresholds, summary, [dur |-> dur, recovered |-> recovered])
         /\ stage' = "judged"
         /\ UNCHANGED <<measure, exp, injector, summary>>

Over == stage \in {"rejected", "judged"} /\ UNCHANGED <<measure, verdictVars>>

VerdictNext == Load \/ SummarizeFault \/ MeasureRecovery \/ Judge \/ Over

VerdictSpec == VerdictInit /\ [][VerdictNext]_<<measure, verdictVars>>

-----------------------------------------------------------------------------
\* What Load accepts can be run: the injector exists, is the one the file names, and
\* is aimed at something ("Validate checks the experiment is internally consistent
\* and runnable"): the switch over the fault types is written twice, and newInjector
\* refuses nothing that Validate let through.
AcceptedFaultHasItsInjector ==
  /\ stage = "rejected" => Problems(exp) # {}
  /\ stage \in {"loaded", "measuring", "judged"} =>
       /\ injector.kind = exp.type
       /\ injector.object # Blank /\ injector.count >= 1
       /\ exp.namespace # Blank /\ exp.target # Blank /\ exp.concurrency >= 1

\* The two loops of probe.Recovery compute the function that its comment describes
\* and that Harness and the other modules rely on.
ComputesRecoveryOf ==
  pc = "done" =>
    [dur |-> dur, recovered |-> recovered] =
      M!RecoveryOf(samples, injectedAt, until, [num |-> MinNum, den |-> MinDen], bucket)

FaultWindow == {j \in DOMAIN samples : InWindow(samples[j])}
Ok          == {j \in FaultWindow : samples[j].ok}

\* The reported p95 is a nearest rank: at least 95 % of the successful requests
\* of the window were that fast, and for no smaller latency that holds.
P95IsNearestRank ==
  stage = "measuring" /\ Ok # {} =>
    LET within(v) == Cardinality({j \in Ok : samples[j].latency <= v})
    IN  /\ 100 * within(summary.p95) >= 95 * Cardinality(Ok)
        /\ \A j \in Ok : samples[j].latency < summary.p95 =>
             100 * within(samples[j].latency) < 95 * Cardinality(Ok)

\* Two measures of one window, taken by different code: if no bin ever dips
\* below the minimum, the whole window does not either.  A bin that missed a
\* sample of the window, or took one from outside it, would break this.
NoDipMeansWindowHolds ==
  stage = "judged" /\ Proper /\ FaultWindow # {} /\ recovered /\ dur = 0
    => ~M!RateBelow(summary, Thresholds)

\* No bin of the window was below the minimum, or the rate held again, on data, from a
\* bin on that begins within the recovery timeout.
RecoveredInTime ==
  NeverBelow \/ \E i \in AllBins : SustainedAfter(i) /\ (i + 1) * bucket <= exp.recoveryTimeout

\* A run passes only on evidence: requests in the window, enough of them good, the slow
\* ones within the ceiling, a last sampled bin that was good again, and a recovery in
\* time ("The verdict passes only if every condition holds").
PassNeedsEvidence ==
  stage = "judged" /\ pass /\ Proper =>
    /\ Ok # {}
    /\ Cardinality(Ok) * MinDen >= MinNum * Cardinality(FaultWindow)
    /\ 100 * Cardinality({j \in Ok : samples[j].latency <= exp.maxP95}) >= 95 * Cardinality(Ok)
    /\ \E j \in Ok : \A i \in FaultWindow : BinOf(samples[i]) <= BinOf(samples[j])
    /\ RecoveredInTime
=============================================================================
