------------------------------- MODULE LoadRun -------------------------------
(***************************************************************************)
(* What probe.Run promises its caller, without the channels and goroutines *)
(* that keep the promise: ticks are taken one after the other until the    *)
(* run is stopped, every taken tick becomes exactly one sample, and the    *)
(* samples are handed over, final, once none is missing.                   *)
(***************************************************************************)
EXTENDS Naturals, Sequences

CONSTANTS Ticks,        \* the instants a tick can carry
          Outcomes      \* what can become of a tick

VARIABLES taken,        \* the ticks the run has accepted so far
          samples,      \* the samples recorded, in the order of recording
          phase         \* "running", "draining" or "returned"

runVars == <<taken, samples, phase>>

Recorded == {samples[i].at : i \in DOMAIN samples}

RunInit == /\ taken = {}
           /\ samples = <<>>
           /\ phase = "running"

\* Ticks come in order of time; none is accepted after the stop.
Take == /\ phase = "running"
        /\ \E t \in Ticks : /\ \A u \in taken : u < t
                            /\ taken' = taken \union {t}
        /\ UNCHANGED <<samples, phase>>

Record == /\ phase # "returned"
          /\ \E t \in taken \ Recorded, o \in Outcomes :
               samples' = Append(samples, [at |-> t, outcome |-> o])
          /\ UNCHANGED <<taken, phase>>

StopTaking == /\ phase = "running"
              /\ phase' = "draining"
              /\ UNCHANGED <<taken, samples>>

HandOver == /\ phase = "draining"
            /\ Recorded = taken
            /\ phase' = "returned"
            /\ UNCHANGED <<taken, samples>>

RunNext == Take \/ Record \/ StopTaking \/ HandOver

RunSpec == RunInit /\ [][RunNext]_runVars
=============================================================================
