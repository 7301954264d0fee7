------------------------------ MODULE Generator ------------------------------
(***************************************************************************)
(* Generator.Run and doRequest of loadgen (loadgen/main.go).  The pipeline *)
(* has the shape of Prober, but two contexts: dispatchCtx, which ends with *)
(* the duration of the load or with ctx, stops the tick loop, and ctx      *)
(* alone, which a signal ends, aborts requests.                            *)
(*                                                                         *)
(* Jobs, workers and samples carry nothing that tells one from another     *)
(* but a sample's outcome, so they are counted: a channel or a set of      *)
(* workers is a number, one that holds samples a number per outcome.  A    *)
(* failed request, one that was never sent and a saturated tick are all    *)
(* samples with OK = false; the model keeps them apart.                    *)
(***************************************************************************)
EXTENDS Integers

CONSTANTS Concurrency,   \* workers, and the capacity of both channels
          MaxTicks       \* bound: how often the ticker fires in a behaviour

ASSUME GeneratorAssumption == Concurrency \in Nat \ {0} /\ MaxTicks \in Nat

VARIABLES
  sendable,              \* whether a request can be made of cfg.Target; run does not ask
  expired, signalled,    \* the deadline of dispatchCtx has passed; ctx is done
  fired, ready,          \* firings of the ticker so far; whether ticker.C holds one
  pc,                    \* where the goroutine that called Run is
  jobs, jobsClosed,
  idle, inflight, exited,    \* workers waiting for a job, in doRequest, returned
  sending,               \* workers that hold a sample, by outcome
  results, resultsClosed,
  collectorDone,
  samples,               \* the slice Run returns, by outcome
  saturated,             \* the counter Run returns
  ticks,                 \* history: ticks received from ticker.C
  sent, late             \* history: requests sent; those of them sent after the loop

envVars    == <<sendable, expired, signalled, fired>>
callerVars == <<pc, saturated, ticks>>
workerVars == <<idle, inflight, exited, sending, sent, late>>
closeVars  == <<jobsClosed, resultsClosed, collectorDone>>
vars == <<envVars, ready, callerVars, jobs, workerVars, results, samples, closeVars>>

Answer   == {"ok", "fail"}
Outcomes == Answer \union {"aborted", "unsent", "saturated"}

None == [o \in Outcomes |-> 0]
Total(f) == f["ok"] + f["fail"] + f["aborted"] + f["unsent"] + f["saturated"]
Put(f, o)  == [f EXCEPT ![o] = @ + 1]
Drop(f, o) == [f EXCEPT ![o] = @ - 1]

Init == /\ sendable \in BOOLEAN
        /\ expired = FALSE /\ signalled = FALSE
        /\ fired = 0 /\ ready = FALSE
        /\ pc = "select" /\ saturated = 0 /\ ticks = 0
        /\ jobs = 0 /\ results = None /\ samples = None
        /\ idle = Concurrency /\ inflight = 0 /\ exited = 0 /\ sending = None
        /\ sent = 0 /\ late = 0
        /\ jobsClosed = FALSE /\ resultsClosed = FALSE /\ collectorDone = FALSE

DispatchOver == expired \/ signalled

\* Mutated: requests run on dispatchCtx.
RequestAborts_Dispatch == DispatchOver

\* The context of a request is done.
RequestAborts == signalled

-----------------------------------------------------------------------------
(* The deadline, the signal, the ticker. *)

Expire == /\ ~expired /\ expired' = TRUE
          /\ UNCHANGED <<sendable, signalled, fired, ready, callerVars, jobs, workerVars, results, samples, closeVars>>

Signal == /\ ~signalled /\ signalled' = TRUE
          /\ UNCHANGED <<sendable, expired, fired, ready, callerVars, jobs, workerVars, results, samples, closeVars>>

\* A tick that finds ticker.C full is dropped.
TickerFire == /\ fired < MaxTicks /\ pc # "returned"
              /\ fired' = fired + 1 /\ ready' = TRUE
              /\ UNCHANGED <<sendable, expired, signalled, callerVars, jobs, workerVars, results, samples, closeVars>>

-----------------------------------------------------------------------------
(* The goroutine that called Run. *)

TakeTick == /\ pc = "select" /\ ready
            /\ ready' = FALSE
            /\ ticks' = ticks + 1

\* Mutated: the queue was made larger than the pool.
Dispatch_LargerQueue ==
  /\ TakeTick
  /\ jobs < 2 * Concurrency /\ jobs' = jobs + 1
  /\ UNCHANGED <<envVars, pc, saturated, workerVars, results, samples, closeVars>>

Dispatch == /\ TakeTick
            /\ jobs < Concurrency /\ jobs' = jobs + 1
            /\ UNCHANGED <<envVars, pc, saturated, workerVars, results, samples, closeVars>>

Saturate == /\ TakeTick
            /\ jobs >= Concurrency
            /\ pc' = "saturated"
            /\ UNCHANGED <<envVars, saturated, jobs, workerVars, results, samples, closeVars>>

\* Mutated: the counter is forgotten.
RecordSaturated_NotCounted ==
  /\ pc = "saturated"
  /\ Total(results) < Concurrency
  /\ results' = Put(results, "saturated")
  /\ pc' = "select"
  /\ UNCHANGED <<envVars, ready, saturated, ticks, jobs, workerVars, samples, closeVars>>

RecordSaturated == /\ pc = "saturated"
                   /\ Total(results) < Concurrency
                   /\ results' = Put(results, "saturated")
                   /\ saturated' = saturated + 1
                   /\ pc' = "select"
                   /\ UNCHANGED <<envVars, ready, ticks, jobs, workerVars, samples, closeVars>>

\* Mutated: break without its label leaves the select, not the loop.
Stop_BreaksSelect == pc = "select" /\ DispatchOver /\ UNCHANGED vars

\* dispatchCtx.Done() wins the outer select, and close(jobs).
Stop == /\ pc = "select" /\ DispatchOver
        /\ pc' = "waiting" /\ jobsClosed' = TRUE
        /\ UNCHANGED <<envVars, ready, saturated, ticks, jobs, workerVars, results, samples, resultsClosed, collectorDone>>

\* workers.Wait() returns, and close(results).
WorkersDone == /\ pc = "waiting" /\ exited = Concurrency
               /\ pc' = "draining" /\ resultsClosed' = TRUE
               /\ UNCHANGED <<envVars, ready, saturated, ticks, jobs, workerVars, results, samples, jobsClosed, collectorDone>>

\* Mutated: <-collected is missing.
Return_NoWait ==
  /\ pc = "draining"
  /\ pc' = "returned"
  /\ UNCHANGED <<envVars, ready, saturated, ticks, jobs, workerVars, results, samples, closeVars>>

\* <-collected, and return.
Return == /\ pc = "draining" /\ collectorDone
          /\ pc' = "returned"
          /\ UNCHANGED <<envVars, ready, saturated, ticks, jobs, workerVars, results, samples, closeVars>>

-----------------------------------------------------------------------------
(* The workers and the collector. *)

\* doRequest makes a request and hands it to the client.  None can be made of a target
\* that is no URL, and the client sends none to a scheme it does not speak nor on a
\* context that is done: the worker has a sample of a request that was not sent.
BeginRequest ==
  \/ /\ sendable /\ ~RequestAborts
     /\ inflight' = inflight + 1 /\ sent' = sent + 1
     /\ late' = IF pc \in {"select", "saturated"} THEN late ELSE late + 1
     /\ UNCHANGED sending
  \/ /\ ~sendable \/ RequestAborts
     /\ sending' = Put(sending, "unsent")
     /\ UNCHANGED <<inflight, sent, late>>

Receive == /\ idle > 0 /\ jobs > 0
           /\ idle' = idle - 1 /\ jobs' = jobs - 1
           /\ BeginRequest
           /\ UNCHANGED <<envVars, ready, callerVars, exited, results, samples, closeVars>>

\* client.Do returns: an answer, the client's timeout, or a context that ended.
Finish == /\ inflight > 0
          /\ inflight' = inflight - 1
          /\ \E o \in Answer \union (IF RequestAborts THEN {"aborted"} ELSE {}) :
               sending' = Put(sending, o)
          /\ UNCHANGED <<envVars, ready, callerVars, jobs, idle, exited, sent, late, results, samples, closeVars>>

Send(o) == /\ sending[o] > 0
           /\ Total(results) < Concurrency
           /\ sending' = Drop(sending, o) /\ results' = Put(results, o)
           /\ idle' = idle + 1
           /\ UNCHANGED <<envVars, ready, callerVars, jobs, inflight, exited, sent, late, samples, closeVars>>

WorkerExit == /\ idle > 0 /\ jobsClosed /\ jobs = 0
              /\ idle' = idle - 1 /\ exited' = exited + 1
              /\ UNCHANGED <<envVars, ready, callerVars, jobs, inflight, sending, sent, late, results, samples, closeVars>>

Collect(o) == /\ results[o] > 0 /\ ~collectorDone
              /\ results' = Drop(results, o) /\ samples' = Put(samples, o)
              /\ UNCHANGED <<envVars, ready, callerVars, jobs, workerVars, closeVars>>

CollectorDone == /\ resultsClosed /\ ~collectorDone /\ Total(results) = 0
                 /\ collectorDone' = TRUE
                 /\ UNCHANGED <<envVars, ready, callerVars, jobs, workerVars, results, samples, jobsClosed, resultsClosed>>

-----------------------------------------------------------------------------
Caller    == Dispatch \/ Saturate \/ RecordSaturated \/ Stop \/ WorkersDone \/ Return
Sender    == \E o \in Outcomes : Send(o)
Collector == (\E o \in Outcomes : Collect(o)) \/ CollectorDone

Terminated == pc = "returned" /\ UNCHANGED vars

Next == \/ Expire \/ Signal \/ TickerFire
        \/ Caller
        \/ Receive \/ Finish \/ Sender \/ WorkerExit
        \/ Collector
        \/ Terminated

Spec == Init /\ [][Next]_vars

(* As in Prober: goroutines that can run do, the outer select does not pass over *)
(* a done context for ever, and a request ends by its client's timeout.          *)
Fairness == /\ WF_vars(Caller) /\ SF_vars(Stop)
            /\ WF_vars(Receive) /\ WF_vars(Finish) /\ WF_vars(Sender) /\ WF_vars(WorkerExit)
            /\ WF_vars(Collector)

FairSpec == Spec /\ Fairness

-----------------------------------------------------------------------------
(* Properties. *)

\* Every variable stays in its range, neither channel exceeds its buffer, and the
\* workers are the pool: none is lost or made.
TypeOK == /\ sendable \in BOOLEAN
          /\ expired \in BOOLEAN /\ signalled \in BOOLEAN
          /\ fired \in Nat /\ ready \in BOOLEAN
          /\ pc \in {"select", "saturated", "waiting", "draining", "returned"}
          /\ jobs \in 0 .. Concurrency
          /\ idle \in Nat /\ inflight \in Nat /\ exited \in Nat
          /\ sending \in [Outcomes -> Nat]
          /\ idle + inflight + exited + Total(sending) = Concurrency
          /\ results \in [Outcomes -> Nat] /\ Total(results) <= Concurrency
          /\ samples \in [Outcomes -> Nat]
          /\ jobsClosed \in BOOLEAN /\ resultsClosed \in BOOLEAN /\ collectorDone \in BOOLEAN
          /\ saturated \in Nat /\ ticks \in Nat /\ sent \in Nat /\ late \in Nat

\* No goroutine that may still send finds its channel closed.
NoSendAfterClose ==
  /\ resultsClosed => /\ inflight = 0 /\ Total(sending) = 0 /\ jobs = 0
                      /\ pc # "saturated"
  /\ jobsClosed => pc \notin {"select", "saturated"}

\* The counts of the report: requests = len(samples) - saturated.
Requests == Total(samples) - saturated

\* The samples of an outcome, wherever they are.
Seen(o) == sending[o] + results[o] + samples[o]

\* What Run returns adds up: each tick is a request or counted as saturated, and the
\* requests are those that were sent and those that never were, the jobs still queued
\* at a signal and all of a target that no request can be made of.  Only without
\* either are they "real HTTP attempts", the "requests actually sent".
CountsAddUp == pc = "returned" => /\ Requests + saturated = ticks
                                  /\ Requests = sent + samples["unsent"]
                                  /\ samples["unsent"] > 0 => signalled \/ ~sendable

\* The end of the duration aborts no request: those in flight and those queued
\* are sent and run to their own end; only a signal aborts.
DeadlineAbortsNothing ==
  ~signalled => Seen("aborted") = 0 /\ (sendable => Seen("unsent") = 0)

\* dispatchCtx "bounds how long we start new requests": what the pool still begins
\* after the loop is no more than the queue held.
FewLateStarts == late <= Concurrency

\* Run implements LoadCount: ticks are taken until the loop ends and never again, each
\* becomes one sample, and what Run returns is complete and no longer changes.
Phase == CASE pc \in {"select", "saturated"} -> "running"
           [] pc \in {"waiting", "draining"} -> "draining"
           [] pc = "returned" -> "returned"

Promise == INSTANCE LoadCount WITH waiting  <- ticks - Total(samples),
                                   phase    <- Phase,
                                   reported <- IF pc = "returned" THEN saturated ELSE 0

ImplementsLoadCount == Promise!CountSpec

\* Once the duration is over, or a signal came, Run returns.
RunReturns == DispatchOver ~> pc = "returned"
=============================================================================
