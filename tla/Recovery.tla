------------------------------ MODULE Recovery -------------------------------
(***************************************************************************)
(* probe.Recovery (internal/probe/probe.go): how long after the injection  *)
(* the success rate returned to, and stayed at, the required minimum.  Its *)
(* two loops are the two phases of the machine: "bin" counts the samples   *)
(* of the window into bins of width `bucket`, "scan" looks for the last    *)
(* bin below the minimum.                                                  *)
(*                                                                         *)
(* Times and widths are integers of one unit.  The minimum success rate is *)
(* MinNum / MinDen: the code compares float64(ok)/float64(total) with the  *)
(* decimal of the experiment, which orders them as the exact fractions for *)
(* every count and decimal a run can have.                                 *)
(***************************************************************************)
EXTENDS Integers, Sequences, FiniteSets

CONSTANTS Inputs,         \* the slices of samples to judge
          InjectionTimes, \* the values of injectedAt
          EndTimes,       \* the values of until
          Buckets,        \* the values of bucket
          MinNum, MinDen

Sample == [at : Nat, ok : BOOLEAN, latency : Nat]

ASSUME InputAssumption == /\ Inputs \subseteq Seq(Sample)
                          /\ InjectionTimes \subseteq Nat /\ EndTimes \subseteq Nat
                          /\ Buckets \subseteq Int
ASSUME RateAssumption == MinNum \in Nat /\ MinDen \in Nat \ {0} /\ MinNum <= MinDen

VARIABLES samples, injectedAt, until, bucket,   \* the arguments
          pc,
          k,              \* samples already binned
          bins,           \* the map from a bin's index to its counts
          maxIdx,
          idx,
          lastUnhealthy,
          dur, recovered  \* the results

args == <<samples, injectedAt, until, bucket>>
vars == <<args, pc, k, bins, maxIdx, idx, lastUnhealthy, dur, recovered>>

Init == /\ samples \in Inputs
        /\ injectedAt \in InjectionTimes /\ until \in EndTimes /\ bucket \in Buckets
        /\ pc = "start" /\ k = 0
        /\ bins = [i \in {} |-> [ok |-> 0, total |-> 0]]
        /\ maxIdx = -1 /\ idx = 0 /\ lastUnhealthy = -1
        /\ dur = 0 /\ recovered = FALSE

Answer(d, r) == pc' = "done" /\ dur' = d /\ recovered' = r

\* A window or a bucket of no width.
NothingToMeasure == /\ pc = "start"
                    /\ bucket <= 0 \/ until <= injectedAt
                    /\ Answer(0, TRUE)
                    /\ UNCHANGED <<args, k, bins, maxIdx, idx, lastUnhealthy>>

Start == /\ pc = "start"
         /\ bucket > 0 /\ until > injectedAt
         /\ pc' = "bin"
         /\ UNCHANGED <<args, k, bins, maxIdx, idx, lastUnhealthy, dur, recovered>>

InWindow(s) == injectedAt <= s.at /\ s.at < until
BinOf(s)    == (s.at - injectedAt) \div bucket

SkipSample == /\ pc = "bin" /\ k < Len(samples)
              /\ ~InWindow(samples[k + 1])
              /\ k' = k + 1
              /\ UNCHANGED <<args, pc, bins, maxIdx, idx, lastUnhealthy, dur, recovered>>

\* The counts of bin i, made on first use.
Count(i) == IF i \in DOMAIN bins THEN bins[i] ELSE [ok |-> 0, total |-> 0]

BinSample ==
  /\ pc = "bin" /\ k < Len(samples)
  /\ InWindow(samples[k + 1])
  /\ LET s == samples[k + 1]
         i == BinOf(s)
     IN  /\ bins' = [j \in DOMAIN bins \union {i} |->
                       IF j = i THEN [ok    |-> Count(i).ok + (IF s.ok THEN 1 ELSE 0),
                                      total |-> Count(i).total + 1]
                                ELSE bins[j]]
         /\ maxIdx' = IF i > maxIdx THEN i ELSE maxIdx
  /\ k' = k + 1
  /\ UNCHANGED <<args, pc, idx, lastUnhealthy, dur, recovered>>

NoSamples == /\ pc = "bin" /\ k = Len(samples)
             /\ maxIdx < 0
             /\ Answer(0, TRUE)
             /\ UNCHANGED <<args, k, bins, maxIdx, idx, lastUnhealthy>>

Binned == /\ pc = "bin" /\ k = Len(samples)
          /\ maxIdx >= 0
          /\ pc' = "scan"
          /\ UNCHANGED <<args, k, bins, maxIdx, idx, lastUnhealthy, dur, recovered>>

\* Mutated: a bin nobody sampled counts as a failure.
Healthy_NeedsData(i) == Count(i).total > 0 /\ Count(i).ok * MinDen >= MinNum * Count(i).total

\* No data in a bin is no evidence of a failure.
Healthy(i) == Count(i).total = 0 \/ Count(i).ok * MinDen >= MinNum * Count(i).total

ScanBin == /\ pc = "scan" /\ idx <= maxIdx
           /\ lastUnhealthy' = IF Healthy(idx) THEN lastUnhealthy ELSE idx
           /\ idx' = idx + 1
           /\ UNCHANGED <<args, pc, k, bins, maxIdx, dur, recovered>>

\* Mutated: the recovery is dated at the last bin below the minimum itself.
Conclude_OffByOne ==
  /\ pc = "scan" /\ idx > maxIdx
  /\ IF lastUnhealthy = maxIdx THEN Answer(until - injectedAt, FALSE)
                               ELSE Answer(lastUnhealthy * bucket, TRUE)
  /\ UNCHANGED <<args, k, bins, maxIdx, idx, lastUnhealthy>>

Conclude == /\ pc = "scan" /\ idx > maxIdx
            /\ IF lastUnhealthy = maxIdx
                 THEN Answer(until - injectedAt, FALSE)
                 ELSE Answer((lastUnhealthy + 1) * bucket, TRUE)
            /\ UNCHANGED <<args, k, bins, maxIdx, idx, lastUnhealthy>>

Returned == pc = "done" /\ UNCHANGED vars

Next == \/ NothingToMeasure \/ Start
        \/ SkipSample \/ BinSample \/ NoSamples \/ Binned
        \/ ScanBin \/ Conclude
        \/ Returned

Spec == Init /\ [][Next]_vars

-----------------------------------------------------------------------------
(* What the answer means, said of the samples themselves. *)

Members(i) == {j \in DOMAIN samples : InWindow(samples[j]) /\ BinOf(samples[j]) = i}
Good(i)    == {j \in Members(i) : samples[j].ok}

\* The success rate in bin i, which has data, is below the minimum.
Below(i) == Members(i) # {} /\ Cardinality(Good(i)) * MinDen < MinNum * Cardinality(Members(i))

Window  == until - injectedAt
Proper  == bucket > 0 /\ Window > 0
AllBins == 0 .. Window     \* no sample of the window falls into a later bin

NeverBelow == \A i \in AllBins : ~Below(i)

\* From bin i + 1 on the rate holds, and there is data to show it.
SustainedAfter(i) == /\ Below(i)
                     /\ \A j \in AllBins : j > i => ~Below(j)
                     /\ \E j \in AllBins : j > i /\ Members(j) # {}

\* Below the minimum in the last bin with data.
StillBelow == \E i \in AllBins : Below(i) /\ \A j \in AllBins : j > i => Members(j) = {}

TypeOK == /\ samples \in Seq(Sample)
          /\ injectedAt \in Nat /\ until \in Nat /\ bucket \in Int
          /\ pc \in {"start", "bin", "scan", "done"}
          /\ k \in 0 .. Len(samples)
          /\ DOMAIN bins \subseteq AllBins
          /\ \A i \in DOMAIN bins : bins[i] \in [ok : Nat, total : Nat]
          /\ maxIdx \in Int /\ maxIdx >= -1 /\ idx \in Nat
          /\ lastUnhealthy \in Int /\ lastUnhealthy >= -1
          /\ dur \in Nat /\ recovered \in BOOLEAN

\* Recovery answers what its comment promises: (0, true) exactly when the rate
\* never dips; otherwise the offset at which the first bin after the last dip
\* begins; and the whole window when the dip reaches into the last bin.
MeasuresRecovery ==
  pc = "done" /\ Proper =>
    \/ NeverBelow /\ dur = 0 /\ recovered
    \/ \E i \in AllBins : SustainedAfter(i) /\ dur = (i + 1) * bucket /\ recovered
    \/ StillBelow /\ dur = Window /\ ~recovered

\* A recovery is always dated strictly inside the observed window, so a recovery
\* timeout of the window's length or more can never be exceeded.
RecoversInsideWindow == pc = "done" /\ recovered /\ Proper => dur < Window
=============================================================================
