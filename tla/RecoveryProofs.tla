--------------------------- MODULE RecoveryProofs ----------------------------
(***************************************************************************)
(* Proofs about Recovery, for every slice of samples, every window, every  *)
(* bucket and every minimum rate: the loop invariants of the two loops, and *)
(* the answer they lead to.  Then about Verdict, for every experiment file: *)
(* it takes the steps of Recovery or none, what Load accepts has its       *)
(* injector, and what passes has recovered in time.                        *)
(***************************************************************************)
EXTENDS Verdict, TLAPS, FiniteSetTheorems, WellFoundedInduction

-----------------------------------------------------------------------------
(* Arithmetic of the bins. *)

LEMMA DivFacts ==
  ASSUME NEW a \in Nat, NEW b \in Nat \ {0}
  PROVE  /\ a \div b \in Nat
         /\ a \div b <= a
         /\ (a \div b) * b <= a
OBVIOUS

LEMMA BinOfFacts ==
  ASSUME injectedAt \in Nat, until \in Nat, bucket \in Int, bucket > 0,
         NEW s \in Sample, InWindow(s)
  PROVE  /\ BinOf(s) \in Nat
         /\ BinOf(s) \in AllBins
         /\ BinOf(s) * bucket < Window
<1>1. s.at \in Nat /\ s.at - injectedAt \in Nat /\ s.at - injectedAt < Window
  BY DEF Sample, InWindow, Window
<1>2. /\ BinOf(s) \in Nat /\ BinOf(s) <= s.at - injectedAt
      /\ BinOf(s) * bucket <= s.at - injectedAt
  BY <1>1, DivFacts DEF BinOf
<1>3. BinOf(s) * bucket \in Int /\ Window \in Int
  BY <1>2 DEF Window
<1> QED BY <1>1, <1>2, <1>3 DEF AllBins

-----------------------------------------------------------------------------
(***************************************************************************)
(* The loop invariants.  After k samples the map holds, for every bin, how *)
(* many of the first k samples fall into it and how many of these were     *)
(* good, and maxIdx is the last bin with data.  Before bin idx is scanned, *)
(* lastUnhealthy is the last of the earlier bins below the minimum.        *)
(***************************************************************************)
Seen(i)     == {j \in 1 .. k : InWindow(samples[j]) /\ BinOf(samples[j]) = i}
SeenGood(i) == {j \in Seen(i) : samples[j].ok}

CountsSeen ==
  \A i \in Nat : /\ Count(i) \in [ok : Nat, total : Nat]
                 /\ Count(i).total = Cardinality(Seen(i))
                 /\ Count(i).ok = Cardinality(SeenGood(i))

MaxIsLast == /\ \A j \in 1 .. k : InWindow(samples[j]) => BinOf(samples[j]) <= maxIdx
             /\ maxIdx >= 0 => \E j \in 1 .. k : InWindow(samples[j]) /\ BinOf(samples[j]) = maxIdx
             /\ maxIdx <= Window

ScanInv == /\ k = Len(samples)
           /\ maxIdx >= 0 /\ idx <= maxIdx + 1
           /\ \/ lastUnhealthy = -1
              \/ lastUnhealthy \in 0 .. idx - 1 /\ Below(lastUnhealthy)
           /\ \A i \in 0 .. idx - 1 : i > lastUnhealthy => ~Below(i)

LoopInv == /\ pc \in {"bin", "scan"} => Proper /\ CountsSeen /\ MaxIsLast
           /\ pc = "start" => k = 0 /\ maxIdx = -1 /\ bins = [i \in {} |-> [ok |-> 0, total |-> 0]]
           /\ pc \in {"start", "bin"} => idx = 0 /\ lastUnhealthy = -1
           /\ pc = "scan" => ScanInv
           /\ MeasuresRecovery
           /\ RecoversInsideWindow

Inv == TypeOK /\ LoopInv

LEMMA InitInv == Init => Inv
<1> SUFFICES ASSUME Init PROVE Inv
  OBVIOUS
<1>1. samples \in Seq(Sample) /\ injectedAt \in Nat /\ until \in Nat /\ bucket \in Int
  BY InputAssumption DEF Init
<1>2. DOMAIN bins = {}
  BY DEF Init
<1>3. TypeOK
  <2>1. k \in 0 .. Len(samples)
    BY <1>1 DEF Init
  <2>2. pc \in {"start", "bin", "scan", "done"} /\ recovered \in BOOLEAN
    BY DEF Init
  <2>3. /\ maxIdx \in Int /\ maxIdx >= -1 /\ idx \in Nat
        /\ lastUnhealthy \in Int /\ lastUnhealthy >= -1 /\ dur \in Nat
    BY DEF Init
  <2> QED BY <1>1, <1>2, <2>1, <2>2, <2>3 DEF TypeOK
<1>4. LoopInv
  BY DEF Init, LoopInv, MeasuresRecovery, RecoversInsideWindow
<1> QED BY <1>3, <1>4 DEF Inv

\* Seen sets are finite, and with all samples seen they are the members.
LEMMA SeenFacts ==
  ASSUME TypeOK, NEW i
  PROVE  /\ IsFiniteSet(Seen(i)) /\ IsFiniteSet(SeenGood(i))
         /\ Cardinality(Seen(i)) \in Nat /\ Cardinality(SeenGood(i)) \in Nat
         /\ Cardinality(Seen(i)) = 0 <=> Seen(i) = {}
         /\ k = Len(samples) => Seen(i) = Members(i) /\ SeenGood(i) = Good(i)
<1>1. k \in Nat /\ IsFiniteSet(1 .. k)
  BY FS_Interval DEF TypeOK
<1>2. IsFiniteSet(Seen(i)) /\ IsFiniteSet(SeenGood(i))
  <2>1. Seen(i) \subseteq 1 .. k /\ SeenGood(i) \subseteq 1 .. k
    BY DEF Seen, SeenGood
  <2> QED BY <1>1, <2>1, FS_Subset
<1>3. /\ Cardinality(Seen(i)) \in Nat /\ Cardinality(SeenGood(i)) \in Nat
      /\ Cardinality(Seen(i)) = 0 <=> Seen(i) = {}
  BY <1>2, FS_CardinalityType, FS_EmptySet
<1>4. ASSUME k = Len(samples) PROVE Seen(i) = Members(i) /\ SeenGood(i) = Good(i)
  <2>1. DOMAIN samples = 1 .. k
    BY <1>4 DEF TypeOK
  <2> QED BY <2>1 DEF Seen, Members, SeenGood, Good
<1> QED BY <1>2, <1>3, <1>4

\* With every sample binned, a bin is healthy exactly when it is not below.
LEMMA HealthyMeans ==
  ASSUME TypeOK, CountsSeen, k = Len(samples), NEW i \in Nat
  PROVE  Healthy(i) <=> ~Below(i)
<1>1. /\ Count(i).total = Cardinality(Members(i)) /\ Count(i).ok = Cardinality(Good(i))
      /\ Cardinality(Members(i)) \in Nat /\ Cardinality(Good(i)) \in Nat
      /\ Cardinality(Members(i)) = 0 <=> Members(i) = {}
  BY SeenFacts DEF CountsSeen
<1> DEFINE g == Cardinality(Good(i))
           m == Cardinality(Members(i))
<1>2. g * MinDen \in Nat /\ MinNum * m \in Nat
  BY <1>1, RateAssumption
<1> QED BY <1>1, <1>2 DEF Healthy, Below

-----------------------------------------------------------------------------
(* The steps. *)

\* The one step that changes the counts keeps them.
LEMMA BinSampleCounts ==
  ASSUME TypeOK, LoopInv, BinSample
  PROVE  TypeOK' /\ CountsSeen' /\ MaxIsLast'
<1> DEFINE s == samples[k + 1]
           i == BinOf(s)
<1>1. /\ k \in Nat /\ k + 1 \in 1 .. Len(samples) /\ samples \in Seq(Sample)
      /\ s \in Sample /\ InWindow(s) /\ k' = k + 1
      /\ UNCHANGED <<samples, injectedAt, until, bucket, pc, idx, lastUnhealthy, dur, recovered>>
  BY DEF TypeOK, BinSample, args
<1>2. Proper /\ CountsSeen /\ MaxIsLast
  BY DEF LoopInv, BinSample
<1>3. i \in Nat /\ i \in AllBins
  BY <1>1, <1>2, BinOfFacts DEF TypeOK, Proper
<1>4. \A x : (InWindow(x)' <=> InWindow(x)) /\ BinOf(x)' = BinOf(x)
  BY <1>1 DEF InWindow, BinOf
<1>5. \A n \in Nat :
        /\ n # i          => Count(n)' = Count(n)
        /\ n = i /\ s.ok  => Count(n)' = [ok |-> Count(n).ok + 1, total |-> Count(n).total + 1]
        /\ n = i /\ ~s.ok => Count(n)' = [ok |-> Count(n).ok + 0, total |-> Count(n).total + 1]
  BY DEF BinSample, Count
<1>6. 1 .. k + 1 = (1 .. k) \union {k + 1} /\ k + 1 \notin 1 .. k
  BY <1>1
<1>7. \A n \in Nat : /\ Seen(n)' = IF n = i THEN Seen(n) \union {k + 1} ELSE Seen(n)
                     /\ k + 1 \notin Seen(n)
  BY <1>1, <1>4, <1>6 DEF Seen
<1>8. \A n \in Nat : /\ SeenGood(n)' = IF n = i /\ s.ok THEN SeenGood(n) \union {k + 1} ELSE SeenGood(n)
                     /\ k + 1 \notin SeenGood(n)
  BY <1>1, <1>7 DEF SeenGood
<1> HIDE DEF s, i
<1>9. CountsSeen'
  <2> SUFFICES ASSUME NEW n \in Nat
               PROVE  /\ Count(n)' \in [ok : Nat, total : Nat]
                      /\ Count(n)'.total = Cardinality(Seen(n)')
                      /\ Count(n)'.ok = Cardinality(SeenGood(n)')
    BY DEF CountsSeen
  <2>1. /\ Count(n) \in [ok : Nat, total : Nat]
        /\ Count(n).total = Cardinality(Seen(n)) /\ Count(n).ok = Cardinality(SeenGood(n))
    BY <1>2 DEF CountsSeen
  <2>2. IsFiniteSet(Seen(n)) /\ IsFiniteSet(SeenGood(n))
    BY SeenFacts
  <2>3. /\ Cardinality(Seen(n) \union {k + 1}) = Cardinality(Seen(n)) + 1
        /\ Cardinality(SeenGood(n) \union {k + 1}) = Cardinality(SeenGood(n)) + 1
    BY <1>7, <1>8, <2>2, FS_AddElement
  <2> DEFINE o == Count(n).ok
             t == Count(n).total
  <2>4. o \in Nat /\ t \in Nat
    BY <2>1
  <2> HIDE DEF o, t
  <2>5. CASE n # i
    BY <1>5, <1>7, <1>8, <2>1, <2>5
  <2>6. CASE n = i /\ s.ok
    <3>1. Count(n)' = [ok |-> o + 1, total |-> t + 1]
      BY <1>5, <2>6 DEF o, t
    <3>2. Cardinality(Seen(n)') = t + 1 /\ Cardinality(SeenGood(n)') = o + 1
      BY <1>7, <1>8, <2>1, <2>3, <2>6 DEF o, t
    <3> QED BY <2>4, <3>1, <3>2
  <2>7. CASE n = i /\ ~s.ok
    <3>1. Count(n)' = [ok |-> o + 0, total |-> t + 1]
      BY <1>5, <2>7 DEF o, t
    <3>2. Cardinality(Seen(n)') = t + 1 /\ Cardinality(SeenGood(n)') = o
      BY <1>7, <1>8, <2>1, <2>3, <2>7 DEF o, t
    <3> QED BY <2>4, <3>1, <3>2
  <2> QED BY <2>5, <2>6, <2>7
<1>10. maxIdx' = (IF i > maxIdx THEN i ELSE maxIdx)
  BY DEF BinSample, s, i
<1>11. MaxIsLast'
  <2>1. \A j \in 1 .. k : InWindow(samples[j]) => BinOf(samples[j]) <= maxIdx'
    <3> SUFFICES ASSUME NEW j \in 1 .. k, InWindow(samples[j]) PROVE BinOf(samples[j]) <= maxIdx'
      OBVIOUS
    <3>1. BinOf(samples[j]) <= maxIdx /\ samples[j] \in Sample
      BY <1>1, <1>2 DEF MaxIsLast
    <3>2. BinOf(samples[j]) \in Nat
      BY <1>1, <1>2, <3>1, BinOfFacts DEF TypeOK, Proper
    <3> QED BY <1>3, <1>10, <3>1, <3>2 DEF TypeOK
  <2>2. BinOf(samples[k + 1]) <= maxIdx'
    BY <1>3, <1>10 DEF TypeOK, s, i
  <2>3. \A j \in 1 .. k + 1 : InWindow(samples[j]) => BinOf(samples[j]) <= maxIdx'
    BY <1>6, <2>1, <2>2
  <2>4. \E j \in 1 .. k + 1 : InWindow(samples[j]) /\ BinOf(samples[j]) = maxIdx'
    <3>1. CASE i > maxIdx
      <4>1. k + 1 \in 1 .. k + 1 /\ maxIdx' = i
        BY <1>1, <1>6, <1>10, <3>1
      <4> QED BY <1>1, <4>1 DEF s, i
    <3>2. CASE ~(i > maxIdx)
      BY <1>2, <1>3, <1>6, <1>10, <3>2 DEF MaxIsLast, TypeOK
    <3> QED BY <3>1, <3>2
  <2>5. maxIdx' <= Window
    BY <1>2, <1>3, <1>10 DEF MaxIsLast, TypeOK, AllBins, Window
  <2>6. \A j : /\ InWindow(samples[j])' <=> InWindow(samples[j])
               /\ BinOf(samples[j])' = BinOf(samples[j])
    BY <1>1 DEF InWindow, BinOf
  <2>7. Window' = Window /\ k' = k + 1
    BY <1>1 DEF Window
  <2> QED BY <2>3, <2>4, <2>5, <2>6, <2>7 DEF MaxIsLast
<1>12. TypeOK'
  <2>1. DOMAIN bins' = DOMAIN bins \union {i}
    BY DEF BinSample, s, i
  <2>2. \A n \in DOMAIN bins' : n \in Nat /\ bins'[n] = Count(n)'
    BY <1>3, <2>1 DEF Count, TypeOK, AllBins
  <2>3. \A n \in DOMAIN bins' : bins'[n] \in [ok : Nat, total : Nat]
    BY <1>9, <2>2 DEF CountsSeen
  <2>4. DOMAIN bins' \subseteq AllBins'
    BY <1>1, <1>3, <2>1 DEF TypeOK, AllBins, Window
  <2>5. k' \in 0 .. Len(samples') /\ maxIdx' \in Int /\ maxIdx' >= -1
    BY <1>1, <1>3, <1>10 DEF TypeOK
  <2> QED BY <1>1, <2>3, <2>4, <2>5 DEF TypeOK
<1> QED BY <1>9, <1>11, <1>12

\* A step that leaves the arguments, k and the counts alone leaves what was
\* seen alone.
LEMMA SeenUnchanged ==
  ASSUME UNCHANGED <<args, k, bins, maxIdx>>
  PROVE  /\ CountsSeen' <=> CountsSeen
         /\ MaxIsLast' <=> MaxIsLast
         /\ Proper' <=> Proper
         /\ \A i : Below(i)' <=> Below(i)
         /\ (NeverBelow' <=> NeverBelow) /\ (StillBelow' <=> StillBelow)
         /\ \A i : SustainedAfter(i)' <=> SustainedAfter(i)
BY DEF args, CountsSeen, MaxIsLast, Proper, Below, NeverBelow, StillBelow, SustainedAfter, Seen,
       SeenGood, Count, Members, Good, InWindow, BinOf, AllBins, Window

\* A skipped sample is in no bin.
LEMMA SkipSampleCounts ==
  ASSUME TypeOK, LoopInv, SkipSample
  PROVE  TypeOK' /\ CountsSeen' /\ MaxIsLast'
<1>1. /\ k \in Nat /\ k + 1 \in 1 .. Len(samples) /\ ~InWindow(samples[k + 1]) /\ k' = k + 1
      /\ UNCHANGED <<samples, injectedAt, until, bucket, pc, bins, maxIdx, idx, lastUnhealthy,
                     dur, recovered>>
  BY DEF TypeOK, SkipSample, args
<1>2. CountsSeen /\ MaxIsLast
  BY DEF LoopInv, SkipSample
<1>3. 1 .. k + 1 = (1 .. k) \union {k + 1}
  BY <1>1
<1>4. \A n : Seen(n)' = Seen(n) /\ SeenGood(n)' = SeenGood(n) /\ Count(n)' = Count(n)
  BY <1>1, <1>3 DEF Seen, SeenGood, Count, InWindow, BinOf
<1>5. CountsSeen'
  BY <1>2, <1>4 DEF CountsSeen
<1>6. MaxIsLast'
  BY <1>1, <1>2, <1>3 DEF MaxIsLast, InWindow, BinOf, Window
<1>7. TypeOK'
  BY <1>1 DEF TypeOK, AllBins, Window
<1> QED BY <1>5, <1>6, <1>7

\* All samples binned: every bin with data is between 0 and maxIdx, and there is
\* one there.
LEMMA DataUpToMax ==
  ASSUME TypeOK, Proper, MaxIsLast, k = Len(samples)
  PROVE  /\ \A i \in AllBins : Members(i) # {} => i <= maxIdx
         /\ maxIdx >= 0 => /\ maxIdx \in AllBins /\ Members(maxIdx) # {}
                           /\ maxIdx * bucket < Window
<1>1. DOMAIN samples = 1 .. k
  BY DEF TypeOK
<1>2. \A i \in AllBins : Members(i) # {} => i <= maxIdx
  BY <1>1 DEF Members, MaxIsLast
<1>3. ASSUME maxIdx >= 0
      PROVE  maxIdx \in AllBins /\ Members(maxIdx) # {} /\ maxIdx * bucket < Window
  <2>1. PICK j \in 1 .. k : InWindow(samples[j]) /\ BinOf(samples[j]) = maxIdx
    BY <1>3 DEF MaxIsLast
  <2>2. samples[j] \in Sample
    BY <1>1 DEF TypeOK
  <2>3. maxIdx \in AllBins /\ maxIdx * bucket < Window
    BY <2>1, <2>2, BinOfFacts DEF TypeOK, Proper
  <2>4. j \in Members(maxIdx)
    BY <1>1, <2>1 DEF Members
  <2> QED BY <2>3, <2>4
<1> QED BY <1>2, <1>3

\* The two ways the scan ends.
LEMMA ConcludeAnswers ==
  ASSUME TypeOK, LoopInv, Conclude
  PROVE  MeasuresRecovery' /\ RecoversInsideWindow'
<1>1. /\ Proper /\ MaxIsLast /\ ScanInv /\ k = Len(samples) /\ idx = maxIdx + 1 /\ maxIdx \in Nat
      /\ bucket \in Nat \ {0} /\ Window \in Nat \ {0} /\ lastUnhealthy \in Int
      /\ lastUnhealthy >= -1 /\ lastUnhealthy <= maxIdx
  BY DEF TypeOK, LoopInv, Conclude, ScanInv, Proper, Window
<1>2. /\ UNCHANGED <<args, k, bins, maxIdx>> /\ Window' = Window /\ AllBins' = AllBins
      /\ bucket' = bucket
  BY DEF Conclude, args, Window, AllBins
<1>3. /\ \A i \in AllBins : Members(i) # {} => i <= maxIdx
      /\ maxIdx \in AllBins /\ Members(maxIdx) # {} /\ maxIdx * bucket < Window
  BY <1>1, DataUpToMax
<1>4. \A i \in AllBins : i > lastUnhealthy => ~Below(i)
  <2> SUFFICES ASSUME NEW i \in AllBins, i > lastUnhealthy, Below(i) PROVE FALSE
    OBVIOUS
  <2>1. i \in Nat /\ i <= maxIdx
    BY <1>3 DEF Below, AllBins
  <2>2. i \in 0 .. idx - 1
    BY <1>1, <2>1
  <2> QED BY <1>1, <2>2 DEF ScanInv
<1>5. lastUnhealthy # -1 => lastUnhealthy \in AllBins /\ Below(lastUnhealthy)
  BY <1>1, <1>3 DEF ScanInv, AllBins
<1>6. CASE lastUnhealthy = maxIdx
  <2>1. StillBelow
    <3>1. Below(maxIdx)
      BY <1>1, <1>5, <1>6
    <3>2. \A j \in AllBins : j > maxIdx => Members(j) = {}
      BY <1>1, <1>3 DEF AllBins
    <3> QED BY <1>3, <3>1, <3>2 DEF StillBelow
  <2>2. dur' = Window' /\ recovered' = FALSE
    BY <1>2, <1>6 DEF Conclude, Answer, Window
  <2> QED BY <1>2, <2>1, <2>2, SeenUnchanged DEF MeasuresRecovery, RecoversInsideWindow
<1>7. CASE lastUnhealthy # maxIdx
  <2>1. dur' = (lastUnhealthy + 1) * bucket /\ recovered' = TRUE
    BY <1>7 DEF Conclude, Answer
  <2>2. dur' < Window
    <3>1. lastUnhealthy + 1 <= maxIdx
      BY <1>1, <1>7
    <3>2. (lastUnhealthy + 1) * bucket <= maxIdx * bucket
      BY <1>1, <3>1
    <3>3. (lastUnhealthy + 1) * bucket \in Int /\ maxIdx * bucket \in Int
      BY <1>1
    <3> QED BY <1>1, <1>3, <2>1, <3>2, <3>3
  <2>3. CASE lastUnhealthy = -1
    <3>1. NeverBelow
      BY <1>4, <2>3 DEF NeverBelow, AllBins
    <3>2. dur' = 0
      BY <1>1, <2>1, <2>3
    <3> QED BY <1>2, <2>1, <2>2, <3>1, <3>2, SeenUnchanged DEF MeasuresRecovery, RecoversInsideWindow
  <2>4. CASE lastUnhealthy # -1
    <3>1. SustainedAfter(lastUnhealthy)
      BY <1>1, <1>3, <1>4, <1>5, <1>7, <2>4 DEF SustainedAfter
    <3>2. lastUnhealthy \in AllBins
      BY <1>5, <2>4
    <3>3. \E i \in AllBins : SustainedAfter(i)' /\ dur' = (i + 1) * bucket
      BY <1>2, <2>1, <3>1, <3>2, SeenUnchanged
    <3> QED BY <1>2, <2>1, <2>2, <3>3 DEF MeasuresRecovery, RecoversInsideWindow
  <2> QED BY <2>3, <2>4
<1> QED BY <1>6, <1>7

\* An answer once given stays; none is given before the end.
LEMMA NoAnswerYet ==
  ASSUME pc' # "done" PROVE MeasuresRecovery' /\ RecoversInsideWindow'
BY DEF MeasuresRecovery, RecoversInsideWindow

LEMMA StepInv == Inv /\ [Next]_vars => Inv'
<1> SUFFICES ASSUME TypeOK, LoopInv, [Next]_vars PROVE TypeOK' /\ LoopInv'
  BY DEF Inv
<1>1. CASE NothingToMeasure
  <2>1. ~Proper' /\ pc' = "done"
    BY <1>1 DEF NothingToMeasure, Answer, Proper, Window, TypeOK, args
  <2>2. TypeOK'
    BY <1>1 DEF NothingToMeasure, Answer, TypeOK, args, AllBins, Window
  <2> QED BY <2>1, <2>2 DEF LoopInv, MeasuresRecovery, RecoversInsideWindow
<1>2. CASE Start
  <2>1. k = 0 /\ maxIdx = -1 /\ DOMAIN bins = {}
    BY <1>2 DEF Start, LoopInv
  <2>2. Proper /\ CountsSeen /\ MaxIsLast
    <3>1. \A i : Seen(i) = {} /\ SeenGood(i) = {}
      BY <2>1 DEF Seen, SeenGood
    <3>2. CountsSeen
      BY <2>1, <3>1, FS_EmptySet DEF CountsSeen, Count
    <3> QED BY <1>2, <2>1, <3>2 DEF Start, Proper, Window, MaxIsLast, TypeOK
  <2>3. UNCHANGED <<args, k, bins, maxIdx, idx, lastUnhealthy, dur, recovered>> /\ pc' = "bin"
    BY <1>2 DEF Start
  <2>4. TypeOK'
    BY <2>3 DEF TypeOK, args, AllBins, Window
  <2> QED BY <1>2, <2>2, <2>3, <2>4, SeenUnchanged, NoAnswerYet DEF Start, LoopInv
<1>3. CASE SkipSample
  <2>1. pc' = "bin" /\ Proper' /\ idx' = 0 /\ lastUnhealthy' = -1
    BY <1>3 DEF SkipSample, LoopInv, Proper, Window, args
  <2> QED BY <1>3, <2>1, SkipSampleCounts, NoAnswerYet DEF LoopInv
<1>4. CASE BinSample
  <2>1. pc' = "bin" /\ Proper' /\ idx' = 0 /\ lastUnhealthy' = -1
    BY <1>4 DEF BinSample, LoopInv, Proper, Window, args
  <2> QED BY <1>4, <2>1, BinSampleCounts, NoAnswerYet DEF LoopInv
<1>5. CASE NoSamples
  <2>1. /\ pc' = "done" /\ dur' = 0 /\ recovered' = TRUE
        /\ UNCHANGED <<args, k, bins, maxIdx, idx, lastUnhealthy>>
    BY <1>5 DEF NoSamples, Answer
  <2>2. Proper /\ MaxIsLast /\ k = Len(samples) /\ maxIdx < 0
    BY <1>5 DEF NoSamples, LoopInv
  <2>3. NeverBelow
    <3>1. \A i \in AllBins : Members(i) = {}
      BY <2>2, DataUpToMax DEF AllBins, TypeOK
    <3> QED BY <3>1 DEF NeverBelow, Below
  <2>4. 0 < Window
    BY <2>2 DEF Proper
  <2>5. TypeOK'
    BY <2>1 DEF TypeOK, args, AllBins, Window
  <2>6. Window' = Window
    BY <2>1 DEF args, Window
  <2> QED
    BY <2>1, <2>3, <2>4, <2>5, <2>6, SeenUnchanged
    DEF LoopInv, MeasuresRecovery, RecoversInsideWindow
<1>6. CASE Binned
  <2>1. /\ pc' = "scan" /\ k = Len(samples) /\ maxIdx >= 0 /\ idx = 0 /\ lastUnhealthy = -1
        /\ UNCHANGED <<args, k, bins, maxIdx, idx, lastUnhealthy, dur, recovered>>
        /\ Proper /\ CountsSeen /\ MaxIsLast
    BY <1>6 DEF Binned, LoopInv
  <2>2. ScanInv'
    <3>1. k' = Len(samples') /\ maxIdx' = maxIdx /\ idx' = 0 /\ lastUnhealthy' = -1
      BY <2>1 DEF args
    <3>2. \A i \in 0 .. idx' - 1 : i > lastUnhealthy' => ~Below(i)'
      BY <3>1
    <3>3. maxIdx' >= 0 /\ idx' <= maxIdx' + 1
      BY <2>1, <3>1 DEF TypeOK
    <3> QED BY <3>1, <3>2, <3>3 DEF ScanInv
  <2>3. TypeOK'
    BY <2>1 DEF TypeOK, args, AllBins, Window
  <2> QED BY <2>1, <2>2, <2>3, SeenUnchanged, NoAnswerYet DEF LoopInv
<1>7. CASE ScanBin
  <2>1. /\ pc' = "scan" /\ k = Len(samples) /\ idx <= maxIdx /\ idx' = idx + 1 /\ idx \in Nat
        /\ UNCHANGED <<args, k, bins, maxIdx, dur, recovered>>
        /\ lastUnhealthy' = (IF Healthy(idx) THEN lastUnhealthy ELSE idx)
        /\ Proper /\ CountsSeen /\ MaxIsLast /\ ScanInv
    BY <1>7 DEF ScanBin, LoopInv, ScanInv, TypeOK
  <2>2. Healthy(idx) <=> ~Below(idx)
    BY <2>1, HealthyMeans
  <2>3. \A i : Below(i)' <=> Below(i)
    BY <2>1, SeenUnchanged
  <2>4. /\ lastUnhealthy' \in Int /\ lastUnhealthy' >= -1
        /\ \/ lastUnhealthy' = -1
           \/ lastUnhealthy' \in 0 .. idx /\ Below(lastUnhealthy')
        /\ \A i \in 0 .. idx : i > lastUnhealthy' => ~Below(i)
    <3>1. CASE Healthy(idx)
      <4>1. lastUnhealthy' = lastUnhealthy /\ ~Below(idx)
        BY <2>1, <2>2, <3>1
      <4>2. \A i \in 0 .. idx : i = idx \/ i \in 0 .. idx - 1
        BY <2>1
      <4> QED BY <2>1, <4>1, <4>2 DEF ScanInv, TypeOK
    <3>2. CASE ~Healthy(idx)
      BY <2>1, <2>2, <3>2 DEF ScanInv, TypeOK
    <3> QED BY <3>1, <3>2
  <2>5. ScanInv'
    <3>1. idx' - 1 = idx /\ k' = Len(samples') /\ maxIdx' >= 0 /\ idx' <= maxIdx' + 1
      BY <2>1 DEF ScanInv, TypeOK, args
    <3>2. \A i \in 0 .. idx' - 1 : i > lastUnhealthy' => ~Below(i)'
      BY <2>3, <2>4, <3>1
    <3>3. \/ lastUnhealthy' = -1
          \/ lastUnhealthy' \in 0 .. idx' - 1 /\ Below(lastUnhealthy)'
      BY <2>1, <2>4, <3>1
      DEF Below, Members, Good, InWindow, BinOf, args
    <3> QED BY <3>1, <3>2, <3>3 DEF ScanInv
  <2>6. TypeOK'
    BY <2>1, <2>4 DEF TypeOK, args, AllBins, Window
  <2> QED BY <2>1, <2>5, <2>6, SeenUnchanged, NoAnswerYet DEF LoopInv
<1>8. CASE Conclude
  <2>1. /\ pc' = "done" /\ recovered' \in BOOLEAN
        /\ UNCHANGED <<args, k, bins, maxIdx, idx, lastUnhealthy>>
    BY <1>8 DEF Conclude, Answer
  <2>2. dur' \in Nat
    BY <1>8 DEF Conclude, Answer, LoopInv, Proper, Window, TypeOK
  <2>3. TypeOK'
    BY <2>1, <2>2 DEF TypeOK, args, AllBins, Window
  <2> QED BY <1>8, <2>1, <2>3, ConcludeAnswers DEF LoopInv
<1>9. CASE UNCHANGED vars
  <2>1. UNCHANGED <<args, pc, k, bins, maxIdx, idx, lastUnhealthy, dur, recovered>>
    BY <1>9 DEF vars
  <2>2. TypeOK'
    BY <2>1 DEF TypeOK, args, AllBins, Window
  <2>3. LoopInv'
    <3>1. Window' = Window /\ AllBins' = AllBins
      BY <2>1 DEF args, Window, AllBins
    <3>2. MeasuresRecovery' /\ RecoversInsideWindow'
      BY <2>1, <3>1, SeenUnchanged DEF LoopInv, MeasuresRecovery, RecoversInsideWindow, args
    <3>3. pc = "scan" => ScanInv'
      <4> SUFFICES ASSUME ScanInv PROVE ScanInv'
        BY DEF LoopInv
      <4>1. Below(lastUnhealthy)' <=> Below(lastUnhealthy)
        BY <2>1 DEF Below, Members, Good, InWindow, BinOf, args
      <4>2. \A i : Below(i)' <=> Below(i)
        BY <2>1, SeenUnchanged
      <4> QED BY <2>1, <4>1, <4>2 DEF ScanInv, args
    <3> QED BY <2>1, <3>2, <3>3, SeenUnchanged DEF LoopInv
  <2> QED BY <2>2, <2>3
<1> QED
  BY <1>1, <1>2, <1>3, <1>4, <1>5, <1>6, <1>7, <1>8, <1>9 DEF Next, Returned

LEMMA AlwaysInv == Spec => []Inv
BY InitInv, StepInv, PTL DEF Spec

\* The arguments and the loops' variables stay in their ranges.
THEOREM RecoveryTypeCorrect == Spec => []TypeOK
<1>1. Inv => TypeOK
  BY DEF Inv
<1> QED BY <1>1, AlwaysInv, PTL

\* For every slice of samples, window, bucket and minimum rate, Recovery gives
\* the answer its comment promises.
THEOREM RecoveryIsMeasured == Spec => []MeasuresRecovery
<1>1. Inv => MeasuresRecovery
  BY DEF Inv, LoopInv
<1> QED BY <1>1, AlwaysInv, PTL

\* A reported recovery is always shorter than the observed window.
THEOREM RecoveryInsideWindow == Spec => []RecoversInsideWindow
<1>1. Inv => RecoversInsideWindow
  BY DEF Inv, LoopInv
<1> QED BY <1>1, AlwaysInv, PTL

-----------------------------------------------------------------------------
(***************************************************************************)
(* Verdict.  Its own variables are set next to those of Recovery, and only *)
(* by actions that leave Recovery alone.                                   *)
(***************************************************************************)
LEMMA StepsOfRecovery == VerdictNext => Next \/ UNCHANGED vars
BY DEF VerdictNext, Load, SummarizeFault, MeasureRecovery, Judge, Over, measure, vars

\* Within Verdict, too, Recovery is what Recovery is: whatever holds of the loops
\* holds in the run that loads, summarises and judges around them.
THEOREM VerdictRunsRecovery == VerdictSpec => Spec
<1>1. VerdictInit => Init
  BY DEF VerdictInit
<1>2. [VerdictNext]_<<measure, verdictVars>> => [Next]_vars
  <2>1. UNCHANGED <<measure, verdictVars>> => UNCHANGED vars
    BY DEF measure, vars
  <2> QED BY <2>1, StepsOfRecovery
<1> QED BY <1>1, <1>2, PTL DEF VerdictSpec, Spec

\* The answer on which a verdict rests is the one that the comment of Recovery
\* promises, whatever the experiment.
THEOREM VerdictMeasuresRecovery == VerdictSpec => []MeasuresRecovery
BY VerdictRunsRecovery, RecoveryIsMeasured, PTL

-----------------------------------------------------------------------------
(* Least and greatest elements: the induction that these proofs need. *)

LEMMA LeastNat ==
  ASSUME NEW T \in SUBSET Nat, T # {}
  PROVE  \E m \in T : \A n \in T : m <= n
<1>1. PICK m \in T : \A n \in T : <<n, m>> \notin OpToRel(<, Nat)
  BY NatLessThanWellFounded, WFMin
<1>2. \A n \in T : ~(n < m)
  BY <1>1 DEF OpToRel
<1> QED BY <1>2

LEMMA GreatestOf ==
  ASSUME NEW S, IsFiniteSet(S), S # {}, NEW f, \A x \in S : f[x] \in Nat
  PROVE  \E m \in S : \A x \in S : f[x] <= f[m]
<1> DEFINE above(x) == {y \in S : f[y] > f[x]}
           T == {Cardinality(above(x)) : x \in S}
<1>1. \A x \in S : IsFiniteSet(above(x)) /\ Cardinality(above(x)) \in Nat
  BY FS_Subset, FS_CardinalityType
<1>2. T \in SUBSET Nat /\ T # {}
  BY <1>1
<1>3. PICK m \in S : \A x \in S : Cardinality(above(m)) <= Cardinality(above(x))
  <2>1. PICK c \in T : \A d \in T : c <= d
    <3> HIDE DEF T
    <3> QED BY <1>2, LeastNat
  <2>2. PICK m \in S : c = Cardinality(above(m))
    OBVIOUS
  <2>3. \A x \in S : Cardinality(above(x)) \in T
    OBVIOUS
  <2>4. \A x \in S : Cardinality(above(m)) <= Cardinality(above(x))
    BY <2>1, <2>2, <2>3
  <2> QED BY <2>4
<1>4. ASSUME NEW x \in S, ~(f[x] <= f[m]) PROVE FALSE
  <2>1. x \in above(m) /\ above(x) \subseteq above(m) \ {x}
    BY <1>4
  <2>2. /\ IsFiniteSet(above(m) \ {x})
        /\ Cardinality(above(m) \ {x}) = Cardinality(above(m)) - 1
    BY <1>1, <2>1, FS_RemoveElement
  <2>3. Cardinality(above(x)) <= Cardinality(above(m) \ {x})
    BY <2>1, <2>2, FS_Subset
  <2>4. Cardinality(above(m)) \in Nat /\ Cardinality(above(x)) \in Nat
    BY <1>1, <1>4
  <2>5. Cardinality(above(m)) <= Cardinality(above(x))
    BY <1>3, <1>4
  <2> HIDE DEF above
  <2> QED BY <2>2, <2>3, <2>4, <2>5
<1> QED BY <1>4

-----------------------------------------------------------------------------
(* The samples of the fault window, by position. *)

\* The instance of Measure brings a copy of Cardinality.
LEMMA SameCardinality == \A S : M!Cardinality(S) = Cardinality(S)
BY DEF M!Cardinality, Cardinality

LEMMA WindowFacts ==
  ASSUME TypeOK
  PROVE  /\ IsFiniteSet(DOMAIN samples)
         /\ \A j \in DOMAIN samples : samples[j] \in Sample
         /\ IsFiniteSet(FaultWindow) /\ IsFiniteSet(Ok)
         /\ M!InWindow(samples, injectedAt, until) = FaultWindow
<1>1. IsFiniteSet(DOMAIN samples) /\ \A j \in DOMAIN samples : samples[j] \in Sample
  <2>1. DOMAIN samples = 1 .. Len(samples) /\ Len(samples) \in Nat
    BY DEF TypeOK
  <2> QED BY <2>1, FS_Interval DEF TypeOK
<1>2. IsFiniteSet(FaultWindow)
  BY <1>1, FS_Subset DEF FaultWindow
<1>3. IsFiniteSet(Ok)
  BY <1>2, FS_Subset DEF Ok
<1> QED BY <1>1, <1>2, <1>3 DEF FaultWindow, InWindow, M!InWindow

\* A bin is a part of the window.
LEMMA BinFacts ==
  ASSUME TypeOK, NEW i
  PROVE  /\ Members(i) = {j \in FaultWindow : BinOf(samples[j]) = i}
         /\ IsFiniteSet(Members(i)) /\ IsFiniteSet(Good(i))
         /\ Cardinality(Members(i)) \in Nat /\ Cardinality(Good(i)) \in Nat
         /\ Cardinality(Members(i)) = 0 <=> Members(i) = {}
         /\ Cardinality(Good(i)) = 0 <=> Good(i) = {}
<1>1. Members(i) = {j \in FaultWindow : BinOf(samples[j]) = i}
  BY DEF Members, FaultWindow
<1>2. IsFiniteSet(Members(i)) /\ IsFiniteSet(Good(i))
  BY <1>1, WindowFacts, FS_Subset DEF Good
<1> QED BY <1>1, <1>2, FS_CardinalityType, FS_EmptySet

LEMMA SummarizeFacts ==
  ASSUME NEW W
  PROVE  LET good == {j \in W : samples[j].ok}
         IN  /\ M!Summarize(samples, W).total = Cardinality(W)
             /\ M!Summarize(samples, W).succeeded = Cardinality(good)
             /\ M!Summarize(samples, W).p95 =
                  IF good = {} THEN 0 ELSE M!Percentile(samples, good, 95)
BY SameCardinality DEF M!Summarize

\* In a window that has requests, what BuildVerdict compares is what a bin is judged by.
LEMMA RateBelowMeans ==
  ASSUME NEW W, IsFiniteSet(W), W # {}, NEW th
  PROVE  M!RateBelow(M!Summarize(samples, W), th) <=>
           Cardinality({j \in W : samples[j].ok}) * th.den < th.num * Cardinality(W)
<1>1. Cardinality(W) # 0
  BY FS_EmptySet
<1> QED BY <1>1, SummarizeFacts DEF M!RateBelow

\* The last bin of the window that has data.
LEMMA LastSampledBin ==
  ASSUME TypeOK, Proper, FaultWindow # {}
  PROVE  \E l \in AllBins : /\ Members(l) # {}
                           /\ \A j \in FaultWindow : BinOf(samples[j]) <= l
<1> DEFINE f == [j \in FaultWindow |-> BinOf(samples[j])]
<1>1. \A j \in FaultWindow : BinOf(samples[j]) \in Nat /\ BinOf(samples[j]) \in AllBins
  BY WindowFacts, BinOfFacts DEF FaultWindow, TypeOK, Proper
<1>2. PICK m \in FaultWindow : \A j \in FaultWindow : f[j] <= f[m]
  <2>1. \A j \in FaultWindow : f[j] \in Nat
    BY <1>1
  <2> HIDE DEF f
  <2> QED BY <2>1, WindowFacts, GreatestOf
<1>3. m \in Members(BinOf(samples[m]))
  BY BinFacts
<1> QED BY <1>1, <1>2, <1>3

-----------------------------------------------------------------------------
(* Percentiles. *)

Within(S, v) == {j \in S : samples[j].latency <= v}
Less(S, v)   == {j \in S : samples[j].latency < v}

LEMMA WithinFacts ==
  ASSUME NEW S, IsFiniteSet(S), NEW v
  PROVE  /\ IsFiniteSet(Within(S, v)) /\ Cardinality(Within(S, v)) \in Nat
         /\ IsFiniteSet(Less(S, v)) /\ Cardinality(Less(S, v)) \in Nat
<1>1. IsFiniteSet(Within(S, v)) /\ IsFiniteSet(Less(S, v))
  BY FS_Subset DEF Within, Less
<1> QED BY <1>1, FS_CardinalityType

\* Of any samples there is a slowest.
LEMMA SlowestOf ==
  ASSUME NEW S, IsFiniteSet(S), S # {}, \A j \in S : samples[j].latency \in Nat
  PROVE  \E m \in S : \A j \in S : samples[j].latency <= samples[m].latency
<1> DEFINE f == [j \in S |-> samples[j].latency]
<1>1. \A j \in S : f[j] \in Nat
  OBVIOUS
<1>2. PICK m \in S : \A j \in S : f[j] <= f[m]
  <2> HIDE DEF f
  <2> QED BY <1>1, GreatestOf
<1> QED BY <1>2

\* The rank-th smallest latency exists, for every rank up to the number of samples.
LEMMA RankedFacts ==
  ASSUME NEW S, IsFiniteSet(S), \A j \in S : samples[j].latency \in Nat,
         NEW rank \in 1 .. Cardinality(S)
  PROVE  LET v == M!Ranked(samples, S, rank)
         IN  /\ v \in {samples[j].latency : j \in S}
             /\ Cardinality(Less(S, v)) < rank
             /\ Cardinality(Within(S, v)) >= rank
<1> DEFINE L == {samples[j].latency : j \in S}
           T == {v \in L : Cardinality(Within(S, v)) >= rank}
<1>1. S # {} /\ Cardinality(S) \in Nat /\ rank \in Nat /\ rank >= 1 /\ rank <= Cardinality(S)
  BY FS_EmptySet, FS_CardinalityType
<1>2. T \in SUBSET Nat /\ T # {}
  <2>1. PICK m \in S : \A j \in S : samples[j].latency <= samples[m].latency
    BY <1>1, SlowestOf
  <2>2. Within(S, samples[m].latency) = S
    BY <2>1 DEF Within
  <2>3. samples[m].latency \in T
    BY <1>1, <2>2
  <2> QED BY <2>3
<1>3. PICK v \in T : \A u \in T : v <= u
  <2> HIDE DEF T
  <2> QED BY <1>2, LeastNat
<1>4. Cardinality(Less(S, v)) < rank
  <2>1. CASE Less(S, v) = {}
    BY <1>1, <2>1, FS_EmptySet
  <2>2. CASE Less(S, v) # {}
    <3>1. IsFiniteSet(Less(S, v)) /\ \A j \in Less(S, v) : samples[j].latency \in Nat
      BY WithinFacts DEF Less
    <3>2. PICK m \in Less(S, v) : \A j \in Less(S, v) : samples[j].latency <= samples[m].latency
      BY <2>2, <3>1, SlowestOf
    <3>3. m \in S /\ samples[m].latency < v /\ v \in Nat /\ samples[m].latency \in Nat
      BY <1>2, <3>2 DEF Less
    <3>4. Less(S, v) = Within(S, samples[m].latency)
      BY <3>2, <3>3 DEF Less, Within
    <3>5. samples[m].latency \notin T
      BY <1>3, <3>3
    <3>6. ~(Cardinality(Within(S, samples[m].latency)) >= rank)
      BY <3>3, <3>5
    <3> QED BY <1>1, <3>4, <3>6, WithinFacts
  <2> QED BY <2>1, <2>2
<1>5. v \in L /\ Cardinality(Within(S, v)) >= rank
  OBVIOUS
<1>6. \E w \in L : /\ M!Cardinality({j \in S : samples[j].latency < w}) < rank
                   /\ M!Cardinality({j \in S : samples[j].latency <= w}) >= rank
  BY <1>4, <1>5, SameCardinality DEF Less, Within
<1>7. LET w == M!Ranked(samples, S, rank)
      IN  /\ w \in L
          /\ M!Cardinality({j \in S : samples[j].latency < w}) < rank
          /\ M!Cardinality({j \in S : samples[j].latency <= w}) >= rank
  BY <1>6, Zenon DEF M!Ranked
<1> QED BY <1>7, SameCardinality DEF Less, Within

\* The rank of the 95th percentile, rounded up, exists and is the least that covers 95 %.
LEMMA RankOf95 ==
  ASSUME NEW n \in Nat \ {0}
  PROVE  LET r == M!AtLeastOne((95 * n + 99) \div 100)
         IN  /\ r \in 1 .. n
             /\ \A m \in Nat : m >= r <=> 100 * m >= 95 * n
BY DEF M!AtLeastOne

LEMMA P95Facts ==
  ASSUME NEW S, IsFiniteSet(S), S # {}, \A j \in S : samples[j].latency \in Nat
  PROVE  LET v == M!Percentile(samples, S, 95)
         IN  /\ v \in Nat
             /\ 100 * Cardinality(Within(S, v)) >= 95 * Cardinality(S)
             /\ \A j \in S : samples[j].latency < v =>
                  100 * Cardinality(Within(S, samples[j].latency)) < 95 * Cardinality(S)
<1> DEFINE n == Cardinality(S)
           r == M!AtLeastOne((95 * n + 99) \div 100)
           v == M!Percentile(samples, S, 95)
<1>1. n \in Nat \ {0}
  BY FS_CardinalityType, FS_EmptySet
<1>2. v = M!Ranked(samples, S, r)
  BY SameCardinality DEF M!Percentile
<1> HIDE DEF n
<1>3. r \in 1 .. n /\ \A m \in Nat : m >= r <=> 100 * m >= 95 * n
  BY <1>1, RankOf95
<1> HIDE DEF r, v
<1>4. /\ v \in {samples[j].latency : j \in S}
      /\ Cardinality(Less(S, v)) < r /\ Cardinality(Within(S, v)) >= r
  BY <1>2, <1>3, RankedFacts DEF n
<1>5. v \in Nat
  BY <1>4
<1>6. 100 * Cardinality(Within(S, v)) >= 95 * n
  BY <1>3, <1>4, WithinFacts
<1>7. ASSUME NEW j \in S, samples[j].latency < v
      PROVE  100 * Cardinality(Within(S, samples[j].latency)) < 95 * n
  <2>1. samples[j].latency \in Nat
    OBVIOUS
  <2>2. Within(S, samples[j].latency) \subseteq Less(S, v)
    BY <1>5, <1>7, <2>1 DEF Within, Less
  <2>3. Cardinality(Within(S, samples[j].latency)) <= Cardinality(Less(S, v))
    BY <2>2, WithinFacts, FS_Subset
  <2>4. ~(Cardinality(Within(S, samples[j].latency)) >= r)
    BY <1>3, <1>4, <2>3, WithinFacts
  <2> QED BY <1>1, <1>3, <2>4, WithinFacts
<1> QED BY <1>5, <1>6, <1>7 DEF n, v

-----------------------------------------------------------------------------
(* What holds of every bin holds of the window. *)

LEMMA BinHolds ==
  ASSUME TypeOK, Proper, NeverBelow, NEW i \in Nat
  PROVE  Cardinality(Good(i)) * MinDen >= MinNum * Cardinality(Members(i))
<1> USE RateAssumption
<1>1. CASE Members(i) = {}
  <2>1. Good(i) = {}
    BY <1>1 DEF Good
  <2> QED BY <1>1, <2>1, FS_EmptySet
<1>2. CASE Members(i) # {}
  <2>1. i \in AllBins
    <3>1. PICK j \in DOMAIN samples : InWindow(samples[j]) /\ BinOf(samples[j]) = i
      BY <1>2 DEF Members
    <3> QED BY <3>1, WindowFacts, BinOfFacts DEF TypeOK, Proper
  <2>2. ~(Cardinality(Good(i)) * MinDen < MinNum * Cardinality(Members(i)))
    BY <1>2, <2>1 DEF NeverBelow, Below
  <2>3. Cardinality(Good(i)) \in Nat /\ Cardinality(Members(i)) \in Nat
    BY BinFacts
  <2>4. Cardinality(Good(i)) * MinDen \in Int /\ MinNum * Cardinality(Members(i)) \in Int
    BY <2>3
  <2> QED BY <2>2, <2>4
<1> QED BY <1>1, <1>2

Upto(n)     == {j \in FaultWindow : BinOf(samples[j]) <= n}
UptoGood(n) == {j \in Upto(n) : samples[j].ok}

LEMMA UptoFacts ==
  ASSUME TypeOK, NEW n
  PROVE  /\ IsFiniteSet(Upto(n)) /\ IsFiniteSet(UptoGood(n))
         /\ Cardinality(Upto(n)) \in Nat /\ Cardinality(UptoGood(n)) \in Nat
<1>1. IsFiniteSet(Upto(n)) /\ IsFiniteSet(UptoGood(n))
  BY WindowFacts, FS_Subset DEF Upto, UptoGood
<1> QED BY <1>1, FS_CardinalityType

LEMMA DisjointAdd ==
  ASSUME NEW S, NEW T, IsFiniteSet(S), IsFiniteSet(T), S \intersect T = {}
  PROVE  Cardinality(S \union T) = Cardinality(S) + Cardinality(T)
<1>1. Cardinality(S \intersect T) = 0
  BY FS_EmptySet
<1>2. Cardinality(S) \in Nat /\ Cardinality(T) \in Nat
  BY FS_CardinalityType
<1>3. Cardinality(S \union T) = Cardinality(S) + Cardinality(T) - Cardinality(S \intersect T)
  BY FS_Union
<1> QED BY <1>1, <1>2, <1>3

\* One bin more adds its samples.
LEMMA UptoGrows ==
  ASSUME TypeOK, Proper, NEW n \in Nat \ {0}
  PROVE  /\ Cardinality(Upto(n)) = Cardinality(Upto(n - 1)) + Cardinality(Members(n))
         /\ Cardinality(UptoGood(n)) = Cardinality(UptoGood(n - 1)) + Cardinality(Good(n))
<1>1. \A j \in FaultWindow : BinOf(samples[j]) \in Nat
  BY WindowFacts, BinOfFacts DEF FaultWindow, TypeOK, Proper
<1>2. /\ Upto(n) = Upto(n - 1) \union Members(n) /\ Upto(n - 1) \intersect Members(n) = {}
  BY <1>1, BinFacts DEF Upto
<1>3. UptoGood(n) = UptoGood(n - 1) \union Good(n) /\ UptoGood(n - 1) \intersect Good(n) = {}
  BY <1>2 DEF UptoGood, Good
<1>4. Cardinality(Upto(n)) = Cardinality(Upto(n - 1)) + Cardinality(Members(n))
  <2>1. IsFiniteSet(Upto(n - 1)) /\ IsFiniteSet(Members(n))
    BY UptoFacts, BinFacts
  <2> QED BY <1>2, <2>1, DisjointAdd
<1>5. Cardinality(UptoGood(n)) = Cardinality(UptoGood(n - 1)) + Cardinality(Good(n))
  <2>1. IsFiniteSet(UptoGood(n - 1)) /\ IsFiniteSet(Good(n))
    BY UptoFacts, BinFacts
  <2> QED BY <1>3, <2>1, DisjointAdd
<1> QED BY <1>4, <1>5

LEMMA RatesAdd ==
  ASSUME NEW a \in Nat, NEW b \in Nat, NEW c \in Nat, NEW d \in Nat,
         NEW num \in Nat, NEW den \in Nat, a * den >= num * b, c * den >= num * d
  PROVE  (a + c) * den >= num * (b + d)
<1>1. (a + c) * den = a * den + c * den /\ num * (b + d) = num * b + num * d
  OBVIOUS
<1>2. /\ a * den \in Int /\ c * den \in Int /\ num * b \in Int /\ num * d \in Int
  OBVIOUS
<1> QED BY <1>1, <1>2

LEMMA UptoHolds ==
  ASSUME TypeOK, Proper, NeverBelow
  PROVE  \A n \in Nat : Cardinality(UptoGood(n)) * MinDen >= MinNum * Cardinality(Upto(n))
<1> DEFINE holds(n) == Cardinality(UptoGood(n)) * MinDen >= MinNum * Cardinality(Upto(n))
           T == {n \in Nat : ~holds(n)}
<1>1. CASE T = {}
  BY <1>1
<1>2. CASE T # {}
  <2>1. PICK n \in T : \A m \in T : n <= m
    <3>1. T \in SUBSET Nat
      OBVIOUS
    <3> HIDE DEF T
    <3> QED BY <1>2, <3>1, LeastNat
  <2>2. CASE n = 0
    <3>1. \A j \in FaultWindow : BinOf(samples[j]) \in Nat
      BY WindowFacts, BinOfFacts DEF FaultWindow, TypeOK, Proper
    <3>2. Upto(0) = Members(0)
      BY <3>1, BinFacts DEF Upto
    <3>3. UptoGood(0) = Good(0)
      BY <3>2 DEF UptoGood, Good
    <3> QED BY <2>2, <3>2, <3>3, BinHolds
  <2>3. CASE n # 0
    <3>1. n \in Nat \ {0} /\ n - 1 \in Nat /\ ~(n <= n - 1)
      BY <2>3
    <3>2. n - 1 \notin T
      BY <2>1, <3>1
    <3>3. holds(n - 1)
      BY <3>1, <3>2
    <3>4. Cardinality(Good(n)) * MinDen >= MinNum * Cardinality(Members(n))
      BY BinHolds
    <3>5. holds(n)
      BY <3>1, <3>3, <3>4, UptoGrows, UptoFacts, BinFacts, RatesAdd, RateAssumption
    <3> QED BY <3>5
  <2> QED BY <2>2, <2>3
<1> QED BY <1>1, <1>2

LEMMA WindowHolds ==
  ASSUME TypeOK, Proper, NeverBelow
  PROVE  Cardinality(Ok) * MinDen >= MinNum * Cardinality(FaultWindow)
<1>1. Window \in Nat
  BY DEF TypeOK, Proper, Window
<1>2. \A j \in FaultWindow : BinOf(samples[j]) \in AllBins
  BY WindowFacts, BinOfFacts DEF FaultWindow, TypeOK, Proper
<1>3. Upto(Window) = FaultWindow
  BY <1>1, <1>2 DEF Upto, AllBins
<1>4. UptoGood(Window) = Ok
  BY <1>3 DEF UptoGood, Ok
<1> QED BY <1>1, <1>3, <1>4, UptoHolds

-----------------------------------------------------------------------------
(* Recovery as a function. *)

SampledBins == {i \in AllBins : Members(i) # {}}
BelowBins   == {i \in AllBins : Below(i)}
LastOf(S)   == CHOOSE i \in S : \A j \in S : j <= i

LEMMA LastOfIs ==
  ASSUME NEW S, S \subseteq Nat, NEW m \in S, \A j \in S : j <= m
  PROVE  LastOf(S) = m
<1>1. \E i \in S : \A j \in S : j <= i
  OBVIOUS
<1>2. LastOf(S) \in S /\ \A j \in S : j <= LastOf(S)
  BY <1>1, Zenon DEF LastOf
<1>3. LastOf(S) \in Nat /\ m \in Nat /\ m <= LastOf(S) /\ LastOf(S) <= m
  BY <1>2
<1> QED BY <1>3

\* RecoveryOf, said in the bins of the samples.
LEMMA RecoveryOfMeans ==
  ASSUME TypeOK, Proper
  PROVE  M!RecoveryOf(samples, injectedAt, until, [num |-> MinNum, den |-> MinDen], bucket) =
           IF BelowBins = {} THEN [dur |-> 0, recovered |-> TRUE]
           ELSE IF LastOf(BelowBins) = LastOf(SampledBins)
             THEN [dur |-> Window, recovered |-> FALSE]
           ELSE [dur |-> (LastOf(BelowBins) + 1) * bucket, recovered |-> TRUE]
<1> DEFINE th == [num |-> MinNum, den |-> MinDen]
           window == M!InWindow(samples, injectedAt, until)
           bin(j) == (samples[j].at - injectedAt) \div bucket
           counts(i) == M!Summarize(samples, {j \in window : bin(j) = i})
           sampled == {bin(j) : j \in window}
           below == {i \in sampled : M!RateBelow(counts(i), th)}
           last(S) == CHOOSE i \in S : \A j \in S : j <= i
<1>1. M!RecoveryOf(samples, injectedAt, until, th, bucket) =
        IF bucket <= 0 \/ until <= injectedAt \/ below = {}
          THEN [dur |-> 0, recovered |-> TRUE]
        ELSE IF last(below) = last(sampled)
          THEN [dur |-> until - injectedAt, recovered |-> FALSE]
        ELSE [dur |-> (last(below) + 1) * bucket, recovered |-> TRUE]
  BY Zenon DEF M!RecoveryOf
<1>2. window = FaultWindow
  BY WindowFacts
<1>3. \A j \in window : bin(j) = BinOf(samples[j]) /\ bin(j) \in AllBins
  BY <1>2, WindowFacts, BinOfFacts DEF FaultWindow, TypeOK, Proper, BinOf
<1> HIDE DEF window
<1>4. \A i : {j \in window : bin(j) = i} = Members(i)
  <2> HIDE DEF bin
  <2> QED BY <1>2, <1>3, BinFacts
<1>5. sampled = SampledBins
  <2> HIDE DEF bin
  <2>1. ASSUME NEW i \in sampled PROVE i \in SampledBins
    <3>1. PICK j \in window : i = bin(j)
      OBVIOUS
    <3> QED BY <1>3, <1>4, <3>1 DEF SampledBins
  <2>2. ASSUME NEW i \in SampledBins PROVE i \in sampled
    <3>1. PICK j \in window : bin(j) = i
      BY <1>4 DEF SampledBins
    <3> QED BY <3>1
  <2> QED BY <2>1, <2>2
<1>6. \A i \in SampledBins : M!RateBelow(counts(i), th) <=> Below(i)
  <2> SUFFICES ASSUME NEW i \in SampledBins PROVE M!RateBelow(counts(i), th) <=> Below(i)
    OBVIOUS
  <2>1. counts(i) = M!Summarize(samples, Members(i))
    BY <1>4
  <2>2. IsFiniteSet(Members(i)) /\ Members(i) # {}
    BY BinFacts DEF SampledBins
  <2>3. th.num = MinNum /\ th.den = MinDen
    OBVIOUS
  <2> HIDE DEF th, counts
  <2>4. M!RateBelow(counts(i), th) <=>
          Cardinality({j \in Members(i) : samples[j].ok}) * th.den
            < th.num * Cardinality(Members(i))
    BY <2>1, <2>2, RateBelowMeans
  <2> QED BY <2>2, <2>3, <2>4 DEF Below, Good
<1>7. below = BelowBins
  <2>1. \A i \in AllBins : Below(i) => i \in SampledBins
    BY DEF Below, SampledBins
  <2>2. SampledBins \subseteq AllBins
    BY DEF SampledBins
  <2> HIDE DEF counts, th, sampled
  <2> QED BY <1>5, <1>6, <2>1, <2>2 DEF BelowBins
<1>8. \A S : last(S) = LastOf(S)
  BY DEF LastOf
<1>9. ~(bucket <= 0 \/ until <= injectedAt) /\ until - injectedAt = Window
  BY DEF TypeOK, Proper, Window
<1> HIDE DEF below, sampled, last, th
<1>10. CASE BelowBins = {}
  BY <1>1, <1>7, <1>10 DEF th
<1>11. CASE BelowBins # {} /\ LastOf(BelowBins) = LastOf(SampledBins)
  BY <1>1, <1>5, <1>7, <1>8, <1>9, <1>11, Zenon DEF th
<1>12. CASE BelowBins # {} /\ LastOf(BelowBins) # LastOf(SampledBins)
  BY <1>1, <1>5, <1>7, <1>8, <1>9, <1>12, Zenon DEF th
<1> QED BY <1>10, <1>11, <1>12

\* A window or a bucket of no width is measured as no dip.
NothingInv == pc = "done" /\ ~Proper => dur = 0 /\ recovered

LEMMA NothingAlways == Spec => []NothingInv
<1>1. Init => NothingInv
  BY DEF Init, NothingInv
<1>2. Inv /\ NothingInv /\ [Next]_vars => NothingInv'
  <2> SUFFICES ASSUME Inv, NothingInv, [Next]_vars, pc' = "done", ~Proper'
               PROVE  dur' = 0 /\ recovered'
    BY DEF NothingInv
  <2>1. Proper' <=> Proper
    BY DEF Next, NothingToMeasure, Start, SkipSample, BinSample, NoSamples, Binned, ScanBin,
           Conclude, Returned, vars, args, Proper, Window
  <2>2. CASE NothingToMeasure
    BY <2>2 DEF NothingToMeasure, Answer
  <2>3. CASE NoSamples \/ Conclude
    BY <2>1, <2>3 DEF NoSamples, Conclude, Inv, LoopInv
  <2>4. CASE Start \/ SkipSample \/ BinSample \/ Binned \/ ScanBin
    BY <2>4 DEF Start, SkipSample, BinSample, Binned, ScanBin
  <2>5. CASE Returned \/ UNCHANGED vars
    BY <2>1, <2>5 DEF Returned, vars, NothingInv
  <2> QED BY <2>2, <2>3, <2>4, <2>5 DEF Next
<1> QED BY <1>1, <1>2, AlwaysInv, PTL DEF Spec

\* The answer that MeasuresRecovery describes is the one that RecoveryOf computes.
LEMMA MeasuredIsComputed ==
  ASSUME TypeOK, MeasuresRecovery, NothingInv
  PROVE  ComputesRecoveryOf
<1> DEFINE answer == M!RecoveryOf(samples, injectedAt, until,
                                  [num |-> MinNum, den |-> MinDen], bucket)
<1> SUFFICES ASSUME pc = "done" PROVE [dur |-> dur, recovered |-> recovered] = answer
  BY DEF ComputesRecoveryOf
<1>1. AllBins \subseteq Nat /\ SampledBins \subseteq Nat /\ BelowBins \subseteq Nat
  BY DEF AllBins, SampledBins, BelowBins
<1>2. recovered \in BOOLEAN
  BY DEF TypeOK
<1>3. CASE ~Proper
  <2>1. dur = 0 /\ recovered
    BY <1>3 DEF NothingInv
  <2>2. bucket <= 0 \/ until <= injectedAt
    BY <1>3 DEF TypeOK, Proper, Window
  <2>3. answer = [dur |-> 0, recovered |-> TRUE]
    BY <2>2, Zenon DEF M!RecoveryOf
  <2>4. recovered = TRUE
    BY <1>2, <2>1
  <2> HIDE DEF answer
  <2> QED BY <2>1, <2>3, <2>4
<1>4. CASE Proper /\ NeverBelow /\ dur = 0 /\ recovered
  <2>1. BelowBins = {}
    BY <1>4 DEF BelowBins, NeverBelow
  <2>2. answer = [dur |-> 0, recovered |-> TRUE]
    BY <1>4, <2>1, RecoveryOfMeans
  <2>3. recovered = TRUE
    BY <1>2, <1>4
  <2> HIDE DEF answer
  <2> QED BY <1>4, <2>2, <2>3
<1>5. ASSUME Proper, NEW i \in AllBins, SustainedAfter(i), dur = (i + 1) * bucket, recovered
      PROVE  [dur |-> dur, recovered |-> recovered] = answer
  <2>1. i \in BelowBins /\ \A j \in BelowBins : j <= i
    <3>1. \A j \in AllBins : j > i => ~Below(j)
      BY <1>5 DEF SustainedAfter
    <3>2. Below(i)
      BY <1>5 DEF SustainedAfter
    <3> QED BY <1>1, <3>1, <3>2 DEF BelowBins
  <2>2. LastOf(BelowBins) = i
    BY <1>1, <2>1, LastOfIs
  <2>3. LastOf(SampledBins) # i
    <3>1. PICK j \in AllBins : j > i /\ Members(j) # {}
      BY <1>5 DEF SustainedAfter
    <3>2. FaultWindow # {}
      BY <3>1, BinFacts
    <3>3. PICK l \in AllBins : Members(l) # {} /\ \A m \in FaultWindow : BinOf(samples[m]) <= l
      BY <1>5, <3>2, LastSampledBin
    <3>4. l \in SampledBins /\ \A m \in SampledBins : m <= l
      BY <3>3, BinFacts DEF SampledBins
    <3>5. LastOf(SampledBins) = l
      BY <1>1, <3>4, LastOfIs
    <3>6. j <= l
      BY <3>1, <3>4 DEF SampledBins
    <3> QED BY <1>1, <3>1, <3>5, <3>6
  <2>4. answer = [dur |-> (i + 1) * bucket, recovered |-> TRUE]
    BY <1>5, <2>1, <2>2, <2>3, RecoveryOfMeans
  <2>5. recovered = TRUE
    BY <1>2, <1>5
  <2> HIDE DEF answer
  <2> QED BY <1>5, <2>4, <2>5
<1>6. CASE Proper /\ StillBelow /\ dur = Window /\ ~recovered
  <2>1. PICK i \in AllBins : Below(i) /\ \A j \in AllBins : j > i => Members(j) = {}
    BY <1>6 DEF StillBelow
  <2>2. i \in SampledBins /\ \A j \in SampledBins : j <= i
    BY <1>1, <2>1 DEF SampledBins, Below
  <2>3. i \in BelowBins /\ \A j \in BelowBins : j <= i
    BY <2>1, <2>2 DEF BelowBins, SampledBins, Below
  <2>4. LastOf(BelowBins) = i /\ LastOf(SampledBins) = i
    BY <1>1, <2>2, <2>3, LastOfIs
  <2>5. answer = [dur |-> Window, recovered |-> FALSE]
    BY <1>6, <2>3, <2>4, RecoveryOfMeans
  <2>6. recovered = FALSE
    BY <1>2, <1>6
  <2> HIDE DEF answer
  <2> QED BY <1>6, <2>5, <2>6
<1> QED BY <1>3, <1>4, <1>5, <1>6 DEF MeasuresRecovery

\* The two loops compute the function that other modules use in their place: what
\* is proved of RecoveryOf or of the loops holds of both.
THEOREM LoopsComputeRecoveryOf == VerdictSpec => []ComputesRecoveryOf
<1>1. TypeOK /\ MeasuresRecovery /\ NothingInv => ComputesRecoveryOf
  BY MeasuredIsComputed
<1> QED
  BY <1>1, VerdictRunsRecovery, RecoveryTypeCorrect, RecoveryIsMeasured, NothingAlways, PTL

-----------------------------------------------------------------------------
(* An experiment keeps the fields of its type, and the defaults only add. *)
FileInv == DOMAIN exp = Fields /\ \A f \in Numbers : exp[f] \in Int

LEMMA DefaultsKeepFields ==
  ASSUME NEW e, DOMAIN e = Fields, \A f \in Numbers : e[f] \in Int
  PROVE  /\ DOMAIN ApplyDefaults(e) = Fields
         /\ \A f \in Numbers : ApplyDefaults(e)[f] \in Int
<1>1. \A n \in Int : \A d \in {20, 2000, 1, 30} : OrElse(n, d) \in Int
  BY DEF OrElse
<1> QED BY <1>1 DEF ApplyDefaults, Fields, Numbers, Texts

\* The switch of newInjector has a case for what Validate lets through, and aims it
\* at a selector or a dependency that is given.
LEMMA ValidHasInjector ==
  ASSUME NEW e, DOMAIN e = Fields, \A f \in Numbers : e[f] \in Int, Problems(e) = {}
  PROVE  /\ NewInjector(e) # NoInjector
         /\ NewInjector(e).kind = e.type
         /\ NewInjector(e).object # Blank /\ NewInjector(e).count >= 1
         /\ e.namespace # Blank /\ e.target # Blank /\ e.concurrency >= 1
<1>1. e.type \in FaultTypes
  BY DEF Problems
<1>2. e.type \in PodFaults => e.selector # Blank
  BY DEF Problems
<1>3. e.type = "dependency-partition" => e.dependency # Blank
  BY DEF Problems
<1>4. e.namespace # Blank /\ e.target # Blank
  BY DEF Problems
<1>5. e.count \in Int /\ e.concurrency \in Int /\ ~(e.count < 1) /\ ~(e.concurrency < 1)
  BY DEF Problems, Numbers
<1>6. e.count >= 1 /\ e.concurrency >= 1
  BY <1>5
<1>7. CASE e.type \in PodFaults
  BY <1>2, <1>4, <1>6, <1>7 DEF NewInjector, NoInjector, PodFaults
<1>8. CASE e.type = "dependency-partition"
  BY <1>3, <1>4, <1>6, <1>8 DEF NewInjector, NoInjector, PodFaults, FaultTypes
<1> QED BY <1>1, <1>7, <1>8 DEF FaultTypes

(***************************************************************************)
(* What a verdict rests on: the summary of the window, taken before the    *)
(* measurement of the same window, whose arguments stay; the minimum rate  *)
(* of the accepted file; and the reasons, read when the loops are done.    *)
(***************************************************************************)
SummaryInv ==
  stage \in {"measuring", "judged"} =>
    summary = M!Summarize(samples, M!InWindow(samples, injectedAt, until))

MinimumInv ==
  /\ stage = "load" => exp \in Files
  /\ stage \notin {"load", "rejected"} => exp.minSuccessRate = MinNum /\ MinNum >= 1

JudgedInv ==
  stage = "judged" =>
    /\ pc = "done"
    /\ pass = M!Pass(Thresholds, summary, [dur |-> dur, recovered |-> recovered])

VerdictInv == FileInv /\ AcceptedFaultHasItsInjector /\ SummaryInv /\ MinimumInv /\ JudgedInv

LEMMA VerdictInitInv == VerdictInit => VerdictInv
BY FileAssumption
DEF VerdictInit, VerdictInv, FileInv, AcceptedFaultHasItsInjector, SummaryInv, MinimumInv,
    JudgedInv

\* A valid file asks for the minimum rate that its recovery is measured by.
LEMMA ValidMinimum ==
  ASSUME NEW e \in Files, Problems(ApplyDefaults(e)) = {}
  PROVE  ApplyDefaults(e).minSuccessRate = MinNum /\ MinNum >= 1
<1>1. DOMAIN e = Fields /\ \A f \in Numbers : e[f] \in Int
  BY FileAssumption
<1>2. ApplyDefaults(e).minSuccessRate = e.minSuccessRate
  BY <1>1 DEF ApplyDefaults, Fields, Numbers, Texts
<1>3. ApplyDefaults(e).minSuccessRate \in 1 .. RateScale
  BY DEF Problems
<1>4. e.minSuccessRate = MinNum
  BY <1>2, <1>3, MinimumAssumption
<1> QED BY <1>2, <1>3, <1>4, RateAssumption

LEMMA VerdictStepInv ==
  VerdictInv /\ [VerdictNext]_<<measure, verdictVars>> => VerdictInv'
<1> SUFFICES ASSUME VerdictInv, [VerdictNext]_<<measure, verdictVars>> PROVE VerdictInv'
  OBVIOUS
<1> USE DEF VerdictInv
<1>1. CASE Load
  <2>1. FileInv'
    BY <1>1, DefaultsKeepFields DEF Load, FileInv
  <2>2. stage' = "loaded" => Problems(exp') = {} /\ injector' = NewInjector(exp')
    BY <1>1 DEF Load
  <2>3. stage' = "rejected" => Problems(exp') # {}
    BY <1>1, <2>1, ValidHasInjector DEF Load, FileInv
  <2>4. stage' \in {"loaded", "rejected"}
    BY <1>1 DEF Load
  <2>5. AcceptedFaultHasItsInjector'
    BY <2>1, <2>2, <2>3, <2>4, ValidHasInjector DEF AcceptedFaultHasItsInjector, FileInv
  <2>6. MinimumInv'
    <3>1. exp \in Files /\ exp' = ApplyDefaults(exp)
      BY <1>1 DEF Load, MinimumInv
    <3>2. stage' = "loaded" => exp'.minSuccessRate = MinNum /\ MinNum >= 1
      BY <2>2, <3>1, ValidMinimum
    <3> QED BY <2>4, <3>2 DEF MinimumInv
  <2> QED BY <2>1, <2>4, <2>5, <2>6 DEF JudgedInv, SummaryInv
<1>2. CASE SummarizeFault
  <2>1. FileInv' /\ AcceptedFaultHasItsInjector' /\ MinimumInv'
    BY <1>2 DEF SummarizeFault, FileInv, AcceptedFaultHasItsInjector, MinimumInv
  <2>2. SummaryInv' /\ JudgedInv'
    BY <1>2 DEF SummarizeFault, SummaryInv, JudgedInv, measure, args
  <2> QED BY <2>1, <2>2
<1>3. CASE MeasureRecovery
  <2>1. UNCHANGED args /\ stage = "measuring" /\ UNCHANGED verdictVars
    BY <1>3
    DEF MeasureRecovery, Next, NothingToMeasure, Start, SkipSample, BinSample, NoSamples,
        Binned, ScanBin, Conclude, Returned, vars
  <2> QED
    BY <2>1
    DEF verdictVars, args, FileInv, AcceptedFaultHasItsInjector, SummaryInv, MinimumInv, JudgedInv
<1>4. CASE Judge
  <2>1. FileInv' /\ AcceptedFaultHasItsInjector' /\ SummaryInv' /\ MinimumInv'
    BY <1>4
    DEF Judge, FileInv, AcceptedFaultHasItsInjector, SummaryInv, MinimumInv, measure, args
  <2>2. JudgedInv'
    <3>1. /\ pc = "done" /\ UNCHANGED <<pc, dur, recovered, exp, summary>>
          /\ pass' = M!Pass(Thresholds, summary, [dur |-> dur, recovered |-> recovered])
      BY <1>4 DEF Judge, measure
    <3>2. Thresholds' = Thresholds
      BY <3>1 DEF Thresholds
    <3> QED BY <3>1, <3>2 DEF JudgedInv
  <2> QED BY <2>1, <2>2
<1>5. CASE Over \/ UNCHANGED <<measure, verdictVars>>
  <2>1. UNCHANGED <<args, pc, dur, recovered, exp, injector, stage, summary, pass>>
    BY <1>5 DEF Over, measure, verdictVars
  <2> QED
    BY <2>1
    DEF args, FileInv, AcceptedFaultHasItsInjector, SummaryInv, MinimumInv, JudgedInv, Thresholds
<1> QED BY <1>1, <1>2, <1>3, <1>4, <1>5 DEF VerdictNext

LEMMA AlwaysVerdictInv == VerdictSpec => []VerdictInv
BY VerdictInitInv, VerdictStepInv, PTL DEF VerdictSpec

\* A PASS has no reason against it.
LEMMA PassedFacts ==
  ASSUME VerdictInv, stage = "judged", pass
  PROVE  /\ pc = "done" /\ recovered /\ ~(dur > exp.recoveryTimeout)
         /\ summary.total # 0
         /\ ~M!RateBelow(summary, Thresholds)
         /\ ~(summary.p95 > exp.maxP95)
<1> DEFINE r == [dur |-> dur, recovered |-> recovered]
<1>1. pc = "done" /\ M!Reasons(Thresholds, summary, r) = {}
  BY DEF VerdictInv, JudgedInv, M!Pass
<1>2. r.recovered
  BY <1>1, Zenon DEF M!Reasons
<1>3. ~(r.recovered /\ r.dur > Thresholds.timeout)
  BY <1>1, Zenon DEF M!Reasons
<1>4. ~(summary.total = 0)
  BY <1>1, Zenon DEF M!Reasons
<1>5. ~M!RateBelow(summary, Thresholds)
  BY <1>1, Zenon DEF M!Reasons
<1>6. ~(summary.p95 > Thresholds.maxP95)
  BY <1>1, Zenon DEF M!Reasons
<1>7. r.dur = dur /\ (r.recovered <=> recovered)
  OBVIOUS
<1>8. Thresholds.timeout = exp.recoveryTimeout /\ Thresholds.maxP95 = exp.maxP95
  BY DEF Thresholds
<1> QED BY <1>1, <1>2, <1>3, <1>4, <1>5, <1>6, <1>7, <1>8

\* Once taken, the summary is that of the samples of the window.
LEMMA SummaryFacts ==
  ASSUME TypeOK, VerdictInv, stage \in {"measuring", "judged"}
  PROVE  /\ summary.total = Cardinality(FaultWindow)
         /\ summary.p95 = IF Ok = {} THEN 0 ELSE M!Percentile(samples, Ok, 95)
         /\ FaultWindow # {} =>
              (M!RateBelow(summary, Thresholds) <=>
                 Cardinality(Ok) * MinDen < MinNum * Cardinality(FaultWindow))
<1>1. summary = M!Summarize(samples, FaultWindow)
  BY WindowFacts DEF VerdictInv, SummaryInv
<1>2. exp.minSuccessRate = MinNum
  BY DEF VerdictInv, MinimumInv
<1>3. Thresholds.num = MinNum /\ Thresholds.den = MinDen
  BY <1>2, ScaleAssumption DEF Thresholds
<1>4. ASSUME FaultWindow # {}
      PROVE  M!RateBelow(summary, Thresholds) <=>
               Cardinality(Ok) * MinDen < MinNum * Cardinality(FaultWindow)
  BY <1>1, <1>3, <1>4, WindowFacts, RateBelowMeans DEF Ok
<1>5. /\ summary.total = Cardinality(FaultWindow)
      /\ summary.p95 = IF Ok = {} THEN 0 ELSE M!Percentile(samples, Ok, 95)
  BY <1>1, SummarizeFacts DEF Ok
<1> QED BY <1>4, <1>5

LEMMA SummaryP95 ==
  ASSUME TypeOK, VerdictInv, stage \in {"measuring", "judged"}, Ok # {}
  PROVE  /\ summary.p95 \in Nat
         /\ 100 * Cardinality(Within(Ok, summary.p95)) >= 95 * Cardinality(Ok)
         /\ \A j \in Ok : samples[j].latency < summary.p95 =>
              100 * Cardinality(Within(Ok, samples[j].latency)) < 95 * Cardinality(Ok)
<1>1. summary.p95 = M!Percentile(samples, Ok, 95)
  BY SummaryFacts
<1>2. IsFiniteSet(Ok) /\ \A j \in Ok : samples[j].latency \in Nat
  BY WindowFacts DEF Ok, FaultWindow, Sample
<1> QED BY <1>1, <1>2, P95Facts

LEMMA AlwaysVerdictFacts ==
  VerdictSpec => [](TypeOK /\ MeasuresRecovery /\ VerdictInv)
BY VerdictRunsRecovery, RecoveryTypeCorrect, RecoveryIsMeasured, AlwaysVerdictInv, PTL

-----------------------------------------------------------------------------
\* Every experiment file that Load accepts can be run: newInjector knows its fault and
\* has something to aim it at.  What Load rejects, Validate objected to.
THEOREM AcceptedCanBeRun == VerdictSpec => []AcceptedFaultHasItsInjector
<1>1. VerdictInv => AcceptedFaultHasItsInjector
  BY DEF VerdictInv
<1> QED BY <1>1, AlwaysVerdictInv, PTL

\* The p95 of a summary is the least latency within which 95 % of the successful
\* requests of the window were answered, for every number of samples.
THEOREM P95IsTheNearestRank == VerdictSpec => []P95IsNearestRank
<1>1. TypeOK /\ VerdictInv => P95IsNearestRank
  BY SummaryP95 DEF P95IsNearestRank, Within
<1> QED BY <1>1, AlwaysVerdictFacts, PTL

\* If the loops find no dip in any bin, the summary of the whole window finds none.
THEOREM NoDipNoFailure == VerdictSpec => []NoDipMeansWindowHolds
<1>1. TypeOK /\ MeasuresRecovery /\ VerdictInv => NoDipMeansWindowHolds
  <2> SUFFICES ASSUME TypeOK, MeasuresRecovery, VerdictInv, stage = "judged", Proper,
                      FaultWindow # {}, recovered, dur = 0
               PROVE  ~M!RateBelow(summary, Thresholds)
    BY DEF NoDipMeansWindowHolds
  <2>1. pc = "done"
    BY DEF VerdictInv, JudgedInv
  <2>2. ASSUME NEW i \in AllBins, dur = (i + 1) * bucket PROVE FALSE
    <3>1. i + 1 >= 1 /\ i + 1 \in Nat /\ bucket \in Nat /\ bucket >= 1
      BY DEF AllBins, TypeOK, Proper
    <3>2. (i + 1) * bucket >= bucket
      BY <3>1
    <3> QED BY <2>2, <3>1, <3>2
  <2>3. NeverBelow
    BY <2>1, <2>2 DEF MeasuresRecovery
  <2>4. Cardinality(Ok) * MinDen >= MinNum * Cardinality(FaultWindow)
    BY <2>3, WindowHolds
  <2>5. Cardinality(Ok) \in Nat /\ Cardinality(FaultWindow) \in Nat
    BY WindowFacts, FS_CardinalityType
  <2>6. ~(Cardinality(Ok) * MinDen < MinNum * Cardinality(FaultWindow))
    BY <2>4, <2>5, RateAssumption
  <2> QED BY <2>6, SummaryFacts
<1> QED BY <1>1, AlwaysVerdictFacts, PTL

\* A PASS rests on evidence: requests, good ones among them, fast ones among these,
\* and a last sampled bin with a good one; and it says that the service was never below
\* the minimum or recovered within the timeout.
THEOREM PassHasEvidence == VerdictSpec => []PassNeedsEvidence
<1>1. TypeOK /\ MeasuresRecovery /\ VerdictInv => PassNeedsEvidence
  <2> SUFFICES ASSUME TypeOK, MeasuresRecovery, VerdictInv, stage = "judged", pass, Proper
               PROVE  /\ Ok # {}
                      /\ Cardinality(Ok) * MinDen >= MinNum * Cardinality(FaultWindow)
                      /\ 100 * Cardinality({j \in Ok : samples[j].latency <= exp.maxP95})
                           >= 95 * Cardinality(Ok)
                      /\ \E j \in Ok : \A i \in FaultWindow : BinOf(samples[i]) <= BinOf(samples[j])
                      /\ RecoveredInTime
    BY DEF PassNeedsEvidence
  <2>1. /\ Cardinality(FaultWindow) \in Nat /\ Cardinality(Ok) \in Nat
        /\ Cardinality(FaultWindow) # 0 /\ FaultWindow # {}
    BY PassedFacts, SummaryFacts, WindowFacts, FS_CardinalityType, FS_EmptySet
  <2>2. Cardinality(Ok) * MinDen >= MinNum * Cardinality(FaultWindow)
    <3>1. ~(Cardinality(Ok) * MinDen < MinNum * Cardinality(FaultWindow))
      BY <2>1, PassedFacts, SummaryFacts
    <3> QED BY <2>1, <3>1, RateAssumption
  <2>3. MinNum \in Nat /\ MinNum >= 1 /\ MinDen \in Nat
    BY RateAssumption DEF VerdictInv, MinimumInv
  <2>4. \A g \in Nat, w \in Nat : w >= 1 /\ g * MinDen >= MinNum * w => g # 0
    BY <2>3
  <2>5. Ok # {}
    BY <2>1, <2>2, <2>4, FS_EmptySet
  <2>6. 100 * Cardinality(Within(Ok, exp.maxP95)) >= 95 * Cardinality(Ok)
    <3>1. /\ summary.p95 \in Nat
          /\ 100 * Cardinality(Within(Ok, summary.p95)) >= 95 * Cardinality(Ok)
      BY <2>5, SummaryP95
    <3>2. exp.maxP95 \in Int /\ summary.p95 <= exp.maxP95
      BY <3>1, PassedFacts DEF VerdictInv, FileInv, Numbers
    <3>3. Within(Ok, summary.p95) \subseteq Within(Ok, exp.maxP95)
      <4>1. \A j \in Ok : samples[j].latency \in Nat
        BY WindowFacts DEF Ok, FaultWindow, Sample
      <4> QED BY <3>1, <3>2, <4>1 DEF Within
    <3>4. Cardinality(Within(Ok, summary.p95)) <= Cardinality(Within(Ok, exp.maxP95))
      BY <3>3, WithinFacts, WindowFacts, FS_Subset
    <3>5. /\ Cardinality(Within(Ok, summary.p95)) \in Nat
          /\ Cardinality(Within(Ok, exp.maxP95)) \in Nat
      BY WithinFacts, WindowFacts
    <3> QED BY <2>1, <3>1, <3>4, <3>5
  <2>7. PICK l \in AllBins : Members(l) # {} /\ \A j \in FaultWindow : BinOf(samples[j]) <= l
    BY <2>1, LastSampledBin
  <2>8. ~Below(l)
    <3>1. CASE NeverBelow
      BY <3>1 DEF NeverBelow
    <3>2. ASSUME NEW i \in AllBins, SustainedAfter(i) PROVE ~Below(l)
      <4>1. PICK j \in AllBins : j > i /\ Members(j) # {}
        BY <3>2 DEF SustainedAfter
      <4>2. j <= l
        BY <2>7, <4>1, BinFacts
      <4>3. l > i
        BY <4>1, <4>2 DEF AllBins
      <4> QED BY <3>2, <4>3 DEF SustainedAfter
    <3> QED BY <3>1, <3>2, PassedFacts DEF MeasuresRecovery
  <2>9. PICK j \in Good(l) : TRUE
    <3>1. Cardinality(Good(l)) \in Nat /\ Cardinality(Members(l)) \in Nat
      BY BinFacts
    <3>2. Cardinality(Members(l)) >= 1
      BY <2>7, <3>1, BinFacts
    <3>3. ~(Cardinality(Good(l)) * MinDen < MinNum * Cardinality(Members(l)))
      BY <2>7, <2>8 DEF Below
    <3>4. Cardinality(Good(l)) * MinDen >= MinNum * Cardinality(Members(l))
      BY <2>3, <3>1, <3>3
    <3>5. Cardinality(Good(l)) # 0
      BY <2>4, <3>1, <3>2, <3>4
    <3> QED BY <3>5, BinFacts
  <2>10. j \in Ok /\ BinOf(samples[j]) = l
    BY <2>9, BinFacts DEF Good, Ok
  <2>11. RecoveredInTime
    <3>1. pc = "done" /\ recovered /\ ~(dur > exp.recoveryTimeout)
      BY PassedFacts
    <3>2. dur <= exp.recoveryTimeout
      BY <3>1 DEF TypeOK, VerdictInv, FileInv, Numbers
    <3> QED BY <3>1, <3>2 DEF MeasuresRecovery, RecoveredInTime
  <2> QED BY <2>2, <2>5, <2>6, <2>7, <2>10, <2>11 DEF Within
<1> QED BY <1>1, AlwaysVerdictFacts, PTL
=============================================================================
