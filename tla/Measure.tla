------------------------------- MODULE Measure -------------------------------
(***************************************************************************)
(* What a run's samples are made into: the summary of a window             *)
(* (probe.SummarizeWindow, metrics.Summarize), the recovery time as a      *)
(* function (module Recovery has its loops), and the verdict               *)
(* (report.BuildVerdict).  A sample is [at, ok, latency]; times, latencies *)
(* and the p95 ceiling are integers, the minimum success rate is the       *)
(* fraction th.num / th.den.  A part of the slice is the set of its        *)
(* positions: the order of the samples in it decides nothing.              *)
(***************************************************************************)
EXTENDS Integers, Sequences, FiniteSets

\* SummarizeWindow: the samples of [from, to).
InWindow(samples, from, to) ==
  {j \in DOMAIN samples : from <= samples[j].at /\ samples[j].at < to}

\* The rank-th smallest latency of the samples in S: sorted[rank - 1] of the code.
Ranked(samples, S, rank) ==
  CHOOSE v \in {samples[j].latency : j \in S} :
    /\ Cardinality({j \in S : samples[j].latency < v}) < rank
    /\ Cardinality({j \in S : samples[j].latency <= v}) >= rank

AtLeastOne(rank) == IF rank < 1 THEN 1 ELSE rank

\* Mutated: the rank is rounded down.
Percentile_Floor(samples, S, p) ==
  Ranked(samples, S, AtLeastOne((p * Cardinality(S)) \div 100))

\* percentile: nearest rank, ceil(p/100 * n), for p in 1..100.
Percentile(samples, S, p) ==
  Ranked(samples, S, AtLeastOne((p * Cardinality(S) + 99) \div 100))

\* Summarize.  The latencies are those of the successful requests only.
Summarize(samples, window) ==
  LET good == {j \in window : samples[j].ok}
  IN  [total     |-> Cardinality(window),
       succeeded |-> Cardinality(good),
       p95       |-> IF good = {} THEN 0 ELSE Percentile(samples, good, 95)]

\* s.SuccessRate < th.MinSuccessRate; the rate of an empty window is 0.
RateBelow(summary, th) ==
  IF summary.total = 0 THEN th.num > 0
                       ELSE summary.succeeded * th.den < th.num * summary.total

\* Recovery, as the function its machine computes: the offset of the end of the
\* last bin below the minimum, and whether a later bin has data.
RecoveryOf(samples, injectedAt, until, th, bucket) ==
  LET window == InWindow(samples, injectedAt, until)
      bin(j) == (samples[j].at - injectedAt) \div bucket
      counts(i) == Summarize(samples, {j \in window : bin(j) = i})
      sampled == {bin(j) : j \in window}
      below   == {i \in sampled : RateBelow(counts(i), th)}
      last(S) == CHOOSE i \in S : \A j \in S : j <= i
  IN  IF bucket <= 0 \/ until <= injectedAt \/ below = {}
        THEN [dur |-> 0, recovered |-> TRUE]
      ELSE IF last(below) = last(sampled)
        THEN [dur |-> until - injectedAt, recovered |-> FALSE]
      ELSE [dur |-> (last(below) + 1) * bucket, recovered |-> TRUE]

\* Mutated: a window without requests is not reported.
Reasons_EmptyWindowPasses(th, summary, recovery) ==
  {r \in {"rate", "p95", "not recovered", "recovered late"} :
     CASE r = "rate"           -> summary.total > 0 /\ RateBelow(summary, th)
       [] r = "p95"            -> summary.p95 > th.maxP95
       [] r = "not recovered"  -> ~recovery.recovered
       [] r = "recovered late" -> recovery.recovered /\ recovery.dur > th.timeout}

\* The reasons BuildVerdict collects.
Reasons(th, summary, recovery) ==
  {r \in {"no requests", "rate", "p95", "not recovered", "recovered late"} :
     CASE r = "no requests"    -> summary.total = 0
       [] r = "rate"           -> RateBelow(summary, th)
       [] r = "p95"            -> summary.p95 > th.maxP95
       [] r = "not recovered"  -> ~recovery.recovered
       [] r = "recovered late" -> recovery.recovered /\ recovery.dur > th.timeout}

Pass(th, summary, recovery) == Reasons(th, summary, recovery) = {}
=============================================================================
