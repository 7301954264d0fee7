----------------------------- MODULE MCVerdict -------------------------------
(* Every slice of up to MaxSamples samples around a window of two bins and a    *)
(* half, judged against two experiments; and files with one or two fields wrong. *)
EXTENDS Verdict

CONSTANTS MaxSamples, Word

Slices(kinds, n) == UNION {[1 .. m -> kinds] : m \in 0 .. n}
Samples(ok, latencies) == [at : 0 .. 6, ok : ok, latency : latencies]

\* Answers that differ in time and outcome, or in time and latency.
Timed == Slices(Samples(BOOLEAN, {1}), MaxSamples)
Slow  == Slices(Samples({TRUE}, {1, 2}) \union Samples({FALSE}, {3}), MaxSamples - 1)

\* Twenty requests or so, a few of them slow: the slowest is not the p95 any more.
Long  == {[i \in 1 .. n |-> [at |-> 1, ok |-> TRUE, latency |-> IF i <= slow THEN 2 ELSE 1]] :
            n \in {19, 20, 21, 40}, slow \in 0 .. 3}

AllSlices  == Timed \union Slow \union Long
Injections == {1}
Ends       == {1, 6}
Widths     == {0, 2}

\* A strict hypothesis, and a lenient one whose timeout lies inside the window.
Strict  == [name |-> Word, target |-> Word, namespace |-> Word, type |-> "pod-kill",
            selector |-> Word, dependency |-> Blank, count |-> 0, rps |-> 1,
            concurrency |-> 0, timeoutMs |-> 0, minSuccessRate |-> MinNum, maxP95 |-> 1,
            baseline |-> 0, fault |-> 1, recoveryTimeout |-> 0]
Lenient == [Strict EXCEPT !.maxP95 = 2, !.recoveryTimeout = 2]

\* Every type, with any two texts blank or given, or with one number out of bounds.
Typed == {[Strict EXCEPT !.type = t, !.dependency = Word] : t \in FaultTypes \union {"none"}}
Wrong == {[e EXCEPT ![f] = Blank, ![g] = Blank] : e \in Typed, f \in Texts, g \in Texts}
           \union {[e EXCEPT ![f] = n] : e \in Typed, f \in Numbers, n \in {-1, MinDen + 1}}

AllFiles == {Strict, Lenient} \union Typed \union Wrong

\* Bounds: only the two experiments meet every slice, and a window or bin of no
\* width only slices of one sample.
MCInit == /\ exp \in Files
          /\ samples \in (IF exp \in {Strict, Lenient} THEN Inputs ELSE {<<>>})
          /\ until \in EndTimes /\ bucket \in Buckets
          /\ Len(samples) > 1 => until = 6 /\ bucket > 0
          /\ VerdictInit
MCSpec == MCInit /\ [][VerdictNext]_<<measure, verdictVars>>
=============================================================================
