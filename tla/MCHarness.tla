----------------------------- MODULE MCHarness -------------------------------
(* Short runs for TLC: a baseline of at most one unit, a fault window of one. *)
EXTENDS Harness

\* Every bin must reach one half, and the last dip may end one unit after the fault.
Hypothesis == [num |-> 1, den |-> 2, maxP95 |-> 0, timeout |-> 1]

\* A target that answers every request with 200, and a run that no signal interrupts.
HealthyNext == /\ Next
               /\ \A i \in DOMAIN samples' : samples'[i].outcome # "fail"
               /\ ~ctxDone'
HealthySpec == Init /\ [][HealthyNext]_vars

\* run_test.go, TestExecutePassesAgainstHealthyServer: a run against a server
\* that answers every request with 200 passes, if the judged window holds an
\* answered request at all.
HealthyTargetPasses ==
  (\E j \in InWindow(Measured, injectedAt, FaultEnd) : Measured[j].ok) => verdict # "fail"
=============================================================================
