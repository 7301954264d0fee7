------------------------------ MODULE LoadCount ------------------------------
(***************************************************************************)
(* What Generator.Run of loadgen promises its caller ("one sample per tick *)
(* plus a count"), without the channels and goroutines that keep the       *)
(* promise.  It is the promise of LoadRun, by counting, with what loadgen  *)
(* adds to it: only a signal aborts a request or keeps one that could be   *)
(* sent from being sent, and the number of saturated ticks is handed over  *)
(* with the samples.                                                       *)
(***************************************************************************)
EXTENDS Naturals

CONSTANT Outcomes       \* what can become of a tick, "aborted", "unsent" and "saturated" among them

VARIABLES sendable,     \* whether a request can be made at all
          signalled,
          waiting,      \* how many of the ticks taken are not samples yet
          samples,      \* how many samples of each outcome are recorded
          phase,        \* "running", "draining" or "returned"
          reported      \* the count of saturated ticks that is handed over

countVars == <<sendable, signalled, waiting, samples, phase, reported>>

CountInit == /\ sendable \in BOOLEAN
             /\ signalled = FALSE /\ waiting = 0 /\ samples = [o \in Outcomes |-> 0]
             /\ phase = "running" /\ reported = 0

\* SIGINT or SIGTERM, at any moment.
Interrupt == /\ ~signalled /\ signalled' = TRUE
             /\ UNCHANGED <<sendable, waiting, samples, phase, reported>>

Take == /\ phase = "running"
        /\ waiting' = waiting + 1
        /\ UNCHANGED <<sendable, signalled, samples, phase, reported>>

Record(o) == /\ phase # "returned" /\ waiting > 0
             /\ o = "aborted" => signalled
             /\ o = "unsent" => signalled \/ ~sendable
             /\ waiting' = waiting - 1
             /\ samples' = [samples EXCEPT ![o] = @ + 1]
             /\ UNCHANGED <<sendable, signalled, phase, reported>>

StopTaking == /\ phase = "running" /\ phase' = "draining"
              /\ UNCHANGED <<sendable, signalled, waiting, samples, reported>>

HandOver == /\ phase = "draining" /\ waiting = 0
            /\ phase' = "returned" /\ reported' = samples["saturated"]
            /\ UNCHANGED <<sendable, signalled, waiting, samples>>

CountNext == Interrupt \/ Take \/ (\E o \in Outcomes : Record(o)) \/ StopTaking \/ HandOver

CountSpec == CountInit /\ [][CountNext]_countVars
=============================================================================
