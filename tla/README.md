# A formal model of k8s-resilience-harness

TLA+ modules, TLC runs and TLAPS proofs for the harness: the program that drives
constant-rate load at a service, injects a fault into its Kubernetes cluster,
measures the fault window, judges it against a hypothesis and undoes the fault.
`PROJECT.json` lists the runs, the mutants, the source lines behind every
definition, the findings, the hazards and the theorems.

    tlc -workers 2 -config MCProber.cfg MCProber     # a run
    tlapm ProberProofs.tla                           # a proof module

## 1. Inventory of the system

| Part | State it keeps | Operations | Hard behaviour |
|---|---|---|---|
| **Prober** `internal/probe/probe.go` `Run`, `do` | two bounded channels, a worker pool, a collector, a slice | tick, enqueue or saturate, probe, send, collect, stop, return | five kinds of goroutine; two closes; a bounded channel that its own reader may block on; cancellation with requests in flight |
| **Recovery** `probe.go` `Recovery` | bins of counts, the last bad bin | bin the samples, scan the bins | half-open window, truncating division, bins without data |
| **Summary** `metrics.go`, `SummarizeWindow` | none | slice a window, success rate, percentiles | nearest rank, empty windows |
| **Verdict** `report.go` | none | `BuildVerdict`; `Human`, `Write` format it | what passes on no evidence |
| **Run** `cmd/harness/run.go` | the phase, two contexts, the deferred rollback | baseline, inject, observe, join, judge, server view, roll back, report | a signal at any moment, a slow or failing injector, exit status |
| **NodeDrainer** `nodedrain.go` | `cordoned` | list, get, update, evict; get, update | optimistic concurrency, lost answers, refused evictions, pods that arrive |
| **DependencyPartitioner** `partition.go` | `original` | get, patch; patch | lost answers, overlapping or killed runs, other writers |
| **ResourcePresser** `resourcepressure.go` | `podName` | list, create; delete by name | lost answer to the create, random names that collide |
| **PodKiller** `podkill.go` | none | list, delete one by one | pods that go in between, names used again, lost answers |
| **Generator** `loadgen/main.go` | as the prober, and a saturation count | as the prober, with a deadline | two contexts, counts that must add up |
| **testapp** `testapp/` | readiness flag, request counter, in-flight and `redis_up` gauges | handlers, graceful drain | gauges written by concurrent handlers; a pod that is deleted while clients still reach it |
| **Injector** `inject.go` | none: the contract of the four above | `Inject`, `Rollback` | what stands after a failure, a lost answer, a kill |
| **Server view** `internal/prom` | none | four queries | asked for after the window, of pods that stop, start and recover; an empty result counts as zero |
| **Experiment** `experiment.go` | the loaded experiment | load, defaults, validate | what validation lets through |

How they interact. `runExperiment` loads an experiment, makes a context that
SIGINT and SIGTERM cancel, and calls `execute`. `execute` starts the prober in a
goroutine on a context derived from that one, sleeps through the baseline, calls
`Inject` of one injector, defers its `Rollback`, sleeps through the fault phase,
cancels the prober and receives its samples from a channel. From them it
computes the summary and the recovery of the fault window, and from those the
verdict. With `-prometheus` it then waits and asks for the server view. The
rollback runs on a fresh context of 30 s; the report is printed and written, and
the verdict becomes the exit status. The injectors share the API server, and
through it the cluster, with the scheduler, controllers, kubelets and users.

What makes each part correct:

* *Prober*: each tick becomes one sample; no send on a closed channel; no
  deadlock; the slice is final when it is returned; a cancelled run returns.
* *Recovery*, *summary*, *verdict*: the answer is the one the comments define,
  the three agree with each other, and a PASS rests on evidence.
* *Run*: each injection is rolled back once, on every path; only a complete
  window is judged; the exit status tells the verdict; a signal ends the run.
* *Injectors*: a successful `Inject` did what it returns; a `Rollback` that
  returns nil leaves nothing standing that `Inject` knew of, except a zero that the
  partitioner had found; other actors' work stays.
* *Experiment*: what is accepted can be run.
* *Server view*: what it reports was observed.
* *Generator*: every tick is a request or counts as saturated, and a request was sent
  unless a signal or the target kept it from that; the end of the duration aborts
  nothing; the run ends.
* *testapp*: deleting a pod costs its clients nothing; the metrics tell what happened.

## 2. The modules

| Module | Models | Checked by | Proved in |
|---|---|---|---|
| `LoadRun` | what `Prober.Run` promises, without goroutines | `prober` | `ProberProofs` |
| `Prober` | `Prober.Run`, one step per channel operation | `prober` | `ProberProofs` |
| `Experiment` | `applyDefaults`, `Validate`, `newInjector`, as operators | `verdict` | `RecoveryProofs` |
| `Measure` | `SummarizeWindow`, `Summarize`, `percentile`, `Recovery` as a function, `BuildVerdict` | `verdict`, `harness` | `RecoveryProofs` |
| `Recovery` | the loops of `probe.Recovery` | `verdict` | `RecoveryProofs` |
| `Verdict` | from the experiment file to the verdict, on any slice of samples | `verdict` | `RecoveryProofs` |
| `Harness` | `runExperiment`, `execute`, `collectServerView`, `sleepCtx` | `harness`, `harness_healthy` | `HarnessProofs` |
| `Injector` | the contract of `inject.Injector` | the next three, and `harness` | `NodeDrainProofs`, `PartitionProofs`, `PodFaultProofs` |
| `NodeDrain` | `NodeDrainer`, one step per API call, successive runs | `node_drain`, `node_drain_others` | `NodeDrainProofs` |
| `Partition` | `DependencyPartitioner`, several processes | `partition` | `PartitionProofs` |
| `ResourcePressure` | `ResourcePresser`, several processes | `pod_faults` | `PodFaultProofs` |
| `PodKill` | `PodKiller`, one step per API call | `pod_faults` | `PodFaultProofs` |
| `LoadCount` | what `Generator.Run` of loadgen promises, without goroutines | `generator` | `GeneratorProofs` |
| `Generator` | `Generator.Run` and `doRequest` of loadgen, by counting | `generator` | `GeneratorProofs` |
| `TestApp` | one pod of the testapp and its shutdown | `testapp` | `TestAppProofs` |
| `ServerView` | `CollectServerView` and its caller, next to pods that are scraped | `server_view`, `server_view_observed` | `TestAppProofs` |

`Prober` implements `LoadRun` (`ImplementsLoadRun`), `Generator` implements `LoadCount`
(`ImplementsLoadCount`), and `NodeDrain`, `Partition` and
`ResourcePressure` implement `Injector` (`ImplementsInjector`). `Harness` is composed of
`LoadRun`, `Injector` and `Measure`, so what it shows of a run holds of the real pipeline and
of these injectors; of the partitioner unless it found the dependency at zero (`FoundZero`). `Verdict` is composed of `Experiment`, `Recovery` and `Measure`: its steps
between the summary and the judgement are those of `Recovery`. `MC*` modules only give
constants small values, except that `MCHarness` states what a test says, for the run that refutes
it, and `MCPodFaults` has one of two injectors, chosen by the experiment's fault type. Operators whose name has a suffix after `_` and whose comment begins with "Mutated" are
faults one could make in the code: each property is shown to fail when one replaces the
operator it is named after. No specification uses them.

### Prober

A tick is the number of the ticker's firing. `ticker.C` has room for one tick,
and the runtime drops what does not fit (`TickerFire`). `jobs` and `results` hold
`Concurrency` entries, as in the code; the inner select is `Dispatch` or
`Saturate`, its default being taken only when the queue is full; the send of the
saturated sample is a step of its own, because it can block. A worker is idle,
has a request in flight, is sending, or is done. A request ends with status 200,
with anything else, or, once the context is done, aborted; one begun on a
cancelled context is aborted at once. `taken` is history.
Latencies and the HTTP client are abstracted away.

### Experiment, Recovery, Measure, Verdict

An experiment is a record: a text is `Blank` or not, numbers are integers,
`minSuccessRate` counts parts of `RateScale`. `Problems` has one member per check of
`Validate`; `Load` applies the defaults first, as the code does. `NewInjector` is the switch of
`newInjector`, so that the two lists of fault types can disagree.

Times are integers of one unit. The minimum rate is a fraction: the code compares
`float64(ok)/float64(total)` with a decimal, which orders them as the exact
fractions do for the counts a run can reach. The rank of a percentile,
`ceil(p/100*n)` in floats, is `(p*n+99) \div 100`; the two were compared for every
`n` up to 20000 and the percentiles the code asks for. What is summarised is a set of positions of
the slice, and the `rank`-th entry of the sorted latencies is the one that fewer than `rank` are
below and at least `rank` are not above (`Ranked`): the order of the slice decides nothing there.
`Recovery` has an action
per branch of the loops; the bins are a function that grows, as the map does.
`RecoveryOf` is the same answer without loops. `Verdict` loads, summarises, lets `Recovery`
take its steps, then judges; the slice that the probe will have returned is one of
`Recovery`'s arguments and chosen at the start. The experiment's minimum rate is the one
`Recovery` is called with (`MinimumAssumption`).

### Harness

The main goroutine's `pc` names the call it is in. A sleep has a deadline; `wake`
says which case decided its select. Entering a sleep and making its timer are one
step, and a select that is blocked is decided by the first event to come; one that
finds the context done already takes that case, except that a timer of no length
may win. A timer may be up to `Lag` late and `Inject` may take up to `MaxInject`.
Time passes only while the code waits or while it reads the clock on both sides of
a call: elsewhere its passing changes nothing that is judged.

The injector is module `Injector`, instantiated: `InjectorCall` derives the call it is in from
`pc`. At some moment of `Inject` the fault takes effect (`FaultChanges`), after which `Inject` may
return nil or an error; it may return an error without effect; its last change may take effect
with the answer lost, which makes the rollback blind to it; `Rollback` either removes what stands
and returns nil, or returns an error. Other actors may undo a fault at any moment. So
`EveryInjectionIsRolledBack` says that a fault outlives a run only if `Rollback` said so or
was blind; a kill of the process, after which there is no run, is left to the injectors.

A sample that is not OK because the pool was saturated is a "fail" here. The
probe's goroutine runs until the process exits, also after an abort, as in the
code, where nobody joins it then. `SetupFails` stands for all errors before
`execute`; an exit with 0 among them is `-h`.

### Injector, NodeDrain, Partition, ResourcePressure, PodKill

`Injector` has three variables: the call, whether the fault stands, and whether the caller is
blind to it. An injector implements it for each of its runs or processes h: the refinement
mapping takes the call from `pc`, `blind` from the history of lost answers, and `standing` from the
cluster: the last cordon of the node is h's (`NodeDrain`), the dependency is at a zero that h wrote
last, in Inject or in Rollback (`Partition`), a hog of h exists (`ResourcePressure`). History
variables (`owner`, `writer`) tell whose the fault is, so that one left by a killed run is not the
next one's. A partition run that finds the dependency at zero records the zero, and its Rollback
writes it again and returns nil: it does not keep the contract, and `ImplementsInjector` of
`Partition` is about all the others.

Every API call is one step. It can be refused (no effect, an error) or have its
effect and lose the answer (a timeout, a broken connection, a context cancelled in
flight): the code sees an error either way. An `Update` carries the version its
`Get` returned and fails if the node was written to in between, by anyone and however often
(`changed`). An eviction of a pod that is
gone counts as done (`NotFound`). Between two calls the scheduler places pending
pods on schedulable nodes, pods are deleted and terminate, nodes are written to
and, with `OthersCordon`, cordoned and uncordoned by others. A replacement pod is one of
`Pods` that was pending: no pod comes back. `NodeDrain` has runs one after the other
(`Rerun`), any of which may be killed (`Kill`): what it recorded is gone. `Partition` has
several processes, one after the other or overlapping, each of which may be killed; `crossed`
remembers the processes between whose calls somebody else wrote, `inherited` those whose `Get`
returned a count that another process had left and nobody wanted, and `missed`, in `NodeDrain`, the pods
that arrived between the List and the cordon.

`ResourcePressure` has the same failures and the same overlapping or killed processes.
A hog's name is one of `Names`, of which there are fewer than processes, so that names
collide; others delete hogs, and a name is then free for the next. Which node is picked
decides nothing and is left out.

A pod of `PodKill` is a name and an identity, because a selector may match a StatefulSet, whose
names are used again while a `Delete` goes by name. Pods terminate before they are gone, are
replaced by a controller, and are deleted by others at any moment; a `Delete` of one that is
terminating already is accepted. `Rollback` does nothing, so there is nothing to refine.

### Generator

The same pipeline as the prober's, in another program and with two contexts:
`dispatchCtx` ends with the duration or a signal and stops the loop (`DispatchOver`),
requests run on the parent, which only a signal ends (`RequestAborts`). Nothing that is
checked tells one job or worker from another, so channels and pools are counts, and
samples counts per outcome: runs with several workers stay small, and the proofs are
about sums. A saturated tick, a failed request and one that was never sent are all `OK: false` in
the code; the model keeps them apart to say what the two counts of the report mean. A request is not
sent if its context is done when a worker takes the job, or if none can be made of the target
(`sendable`, which `run` does not check): `NewRequestWithContext` returns an error, or the client
refuses the scheme. "Sent" means handed to the client with neither in the way. `late` counts the
requests that begin after the loop has ended. `LoadCount` is the promise of `LoadRun` by counting:
each tick taken waits until it is one more sample, and the samples are handed over, with the
count of saturated ones, once none waits.

### TestApp

A request begins (the gauge goes up), calls Redis or not, is pending between the end of
its Redis call and `setRedisUp`, is answered, and is counted when its handler has returned
to `instrument`. How a Redis call ends is left open: Redis, the timeouts and a client that
gives up all decide it. The main goroutine serves, drains, stops and exits; a process that
exits cuts the requests it still handles. A pod stops because it is deleted, because its
container is signalled, or because its listener failed. Time counts from then on and both
timers are on time. That a deleted pod leaves the endpoints within `Propagation`, less than
`drainDelay`, is an assumption on the cluster (`DelayAssumption`). A connection that waits
unaccepted when the listener closes is not modelled, nor is one kept alive: the client's
transport repeats a request that meets a closed idle connection. Left out are the probes of the
kubelet and the scrapes of Prometheus, which reach a pod that is no longer routed to but touch no
state that is checked, and the code of the status recorder: the status counted is the one answered.

### ServerView

Pods stop, start and end Redis operations, well or not, at any moment until the harness asks.
Each pod that runs is scraped once per `Interval`, in its own phase; one that starts is a new target.
`CollectServerView` makes its four queries in their order, and the first that fails drops the view. All
are evaluated at `FaultEnd`, however late they are made: the count of targets is over the pods whose
last scrape is younger than an interval, the minimum over the scrapes in the window, and an empty
result is 0. That the settle delay lets Prometheus scrape the tail of the window adds nothing here: a
scrape after `FaultEnd` is outside both queries. Three histories say what there was to observe: the
pods that saw an operation fail before the window had ended (`sawRedisGone`), those that ran throughout
(`steady`), and for how long of the window a gauge was 0 (`darkFor`).

## 3. What the runs show

| Run | Bounds | Shows |
|---|---|---|
| `prober` | 2 workers, queues of 2, 4 ticks | No tick is lost or recorded twice, no send after a close, the returned slice is final; `Prober` implements `LoadRun`; a cancelled run returns; every tick becomes a sample. |
| `verdict` | all slices of up to 4 samples in time and outcome, of up to 3 in latency as well, at times 0..6; windows from 1 to 1 and 6, bins of 0 and 2, minimum 2/3; 19 to 40 requests with up to 3 slow ones; files with one number or two texts wrong, for each fault type | What `Load` accepts has its injector; the answer of the loops is the one the comment defines, and `RecoveryOf`'s; p95 is a nearest rank; summary and recovery agree; a PASS has evidence and a recovery in time. |
| `harness` | baseline 1, fault 1, settling 1, injection up to 1, 2 ticks taken | Rollback once, window complete, verdict of all samples, exit status; a signal in any phase ends the run, no timer assumed; with timers, every run ends. |
| `node_drain` | 2 runs, 2 nodes, 3 pods, any number of writes by others, symmetric nodes and pods | What a rollback may leave behind, what a reported pod means, which pods escape an eviction; `Injector`. |
| `partition` | 3 processes, counts 0, 1, 3, symmetric processes | Who answers for a wrong count, and that there is none without a disturbance; an unapplied scale-down is rolled back over nobody; `Injector`, for runs that did not find a zero. |
| `pod_faults` | 3 processes and 2 names of hogs, or 3 names of pods, 3 replacements and counts 1 to 4; all symmetric | Each run works with its own hog; `Injector`. The report of the killed pods misses at most one, no more are hit than asked for, `NotFound` is somebody else's doing. |
| `generator` | 2 workers, queues of 2, 5 ticks, a target that can be asked or cannot | The counts of the report add up, the deadline aborts nothing, little starts late; `Generator` implements `LoadCount`; the run returns. |
| `testapp` | 2 requests, drain and timeout of 2, propagation 1 | Deletion refuses no connection, only a timed-out Shutdown cuts a request, metrics agree with answers, `redis_up` is recent, the process exits. |
| `server_view_observed` | 2 pods, symmetric, a scrape every 2, windows of 1 and 2, settling 1 | A view that is reported was observed: what a minimum of 0 means, which outages and which pods it cannot miss. |
| `harness_healthy` | fault 2, timers on time, no signal, 3 ticks taken | Ends with a FAIL although the window holds an answered request and none that the target failed (section 4). |
| `node_drain_others` | as `node_drain`, one run, no failures | Ends with another actor's cordon removed (section 4). |
| `server_view` | 1 pod, a scrape every 3, windows of 2 and 4, settling 2 | Ends with a minimum of 0 and a Redis that never failed (section 4). |

Bounds. With four ticks and two workers a tick can be in flight, wait, fill the queue, be
saturated behind a full `results`, or be dropped by the runtime; the second worker adds the orders in
which two senders reach `results`. Four samples fill two bins of three with a majority and a
minority each; the third bin is cut short by the window's end; 2/3 lets a bin of three miss one and
a bin of two none. From 20 successful requests on the p95 is not the slowest one. One unit of
baseline, window and settling puts ticks before, in and after the window; every handler of the run
is reached within it. `MaxTicks` ends the ticking early: the probe's ticker can be that slow, and two
ticks let one sample be in the judged slice and another in flight. Two nodes let pods arrive from
elsewhere; three pods allow one evicted, one refused, one late. Two runs are one that is killed or fails and its successor.
Three processes are two that overlap and one that starts from what they left. In `PodKill` three
replacements let a name come back twice within one `Inject`, and counts run from fewer to more than
there are pods. A window of 1 may have no scrape, one of 2 has one of each pod that runs throughout; the
second pod lets the minimum be another pod's than the one that is counted, and settling lets a scrape
come after the window. The properties of `TestApp` are about one request or about two that overlap; with three
requests, without the liveness property and up to symmetry, the invariants hold as well.

The runs with a liveness property use no symmetry; the refinements of `Injector` are safety
properties.

## 4. Where the code and its documents disagree

With a run that TLC ends with a counterexample:

* `harness_healthy`: requests in flight or queued when the probe is cancelled count as failures
  of the target; in a last bin with few requests that is a FAIL. In the trace the request of the
  first bin is answered with 200, that of the last is aborted by `cancelProbe`, and Recovery
  reports "still failing".
* `node_drain_others`: a node that was cordoned before the run is recorded as if the run had
  cordoned it, so the rollback undoes another actor's cordon, against "Rollback uncordons the node
  Inject cordoned".
* `server_view`: a window without a scrape, because it is shorter than the interval or because no
  pod was up, is reported with `redis_up_min=0`, against "0 means at least one pod saw its Redis
  dependency go away". `ServerViewIsObserved` (proved) is what holds: with a scrape in the window, as
  there is if a pod runs throughout and the window is no shorter than the interval, 0 does mean that.

Behaviours of the models that contradict or go beyond the documents, without a run of their
own:

* `recoveryTimeoutSeconds` is not "max time to wait for recovery". Nothing waits beyond
  `faultSeconds`, and `RecoversInsideWindow` (proved) says that a timeout of the window's
  length or more, as in all shipped experiments, never decides.
* One conflict on the uncordoning `Update` leaves the node cordoned (`Uncordon` of
  `NodeDrain`), against "uncordons on rollback so repeated runs don't strand the cluster".
* A scale-down, a cordon or a hog whose answer is lost is not recorded: Rollback returns
  nil and leaves it (`lost` in the three injectors), against "leaving the cluster as it was
  found".
* A partition run that finds the dependency at zero, because another run's fault stands, one that
  overlaps with it or one that was killed, records the zero as the original. Its Rollback scales to
  zero and returns nil (`FoundZero`), even if the other run has restored the count meanwhile,
  against "Rollback reverses any standing cluster state the fault left behind". With two
  overlapping runs no call need fail, no answer be lost and nobody be killed. `WrongCountIsExplained`
  (proved) is what holds.
* The `requests` of loadgen's report are not only "real HTTP attempts", nor its rate only "requests
  actually sent": jobs still queued when a signal comes count, and with a `-target` that no request
  can be made of all of them do, though none is sent (`BeginRequest`). `CountsAddUp` (proved) says
  that there are no others.
* `Validate` "checks the experiment is ... runnable", but accepts a negative `timeoutMs` (no
  timeout at all for the HTTP client), a negative `recoveryTimeoutSeconds` (no run can pass) and any
  rate, of which more than 1e9 per second make `time.NewTicker` panic (`Problems`).
* `PodKiller` may report a pod that others had deleted already and that is still terminating: its
  `Delete` is accepted (`Apply`).
* A pod scheduled onto the node between the List and the cordon is not evicted, against
  "evicts every target pod scheduled there". `InjectedMeansEvicted` (proved) says that after a
  successful `Inject` no others are left there while the run's cordon stands.
* `injectedAt` is read before `Inject` runs, so a slow injection shortens the part of the
  window that has the fault in it.
* "If every worker is busy when a tick fires, that tick is recorded as a failed (saturated)
  sample" (loadgen and probe): it is queued first, and saturated only when as many ticks wait
  as there are workers (`Dispatch`). `FewLateStarts` bounds what this lets start late.
* `testapp_redis_up` is "1 if the last Redis operation succeeded": of two handlers that
  overlap, the one whose operation ended first may set it last. `GaugeIsRecent` is what holds.

`StrandsOnlyOnError`, `WrongCountIsExplained` and `ImplementsInjector` bound the damage: a lost
answer, a reported error and a kill are the only ways a run leaves its cordon, its zero or its hog
behind, except that a partition run that found a zero also leaves a zero. A wrong count other
than zero is one that a run read and restored after somebody else had written. All of it is proved, for any number of
runs or processes.

## 5. Fairness

`Prober!Fairness`: the Go scheduler runs every goroutine that can go on (weak fairness
of the caller, of each worker and of the collector). The outer select picks at random
among ready cases, so a done context cannot lose for ever: strong fairness of `Stop`.
That a request ends is part of a worker's fairness: `http.Client.Timeout` ends it.
Neither a cancellation nor a tick is assumed; `MaxTicks` ends the ticking early, which
only removes help that the ticker could give.

`Generator!Fairness` is the same for the goroutines of loadgen, with the workers as one. Both
rest on the client's timeout: without one (loadgen's `-timeout 0`, a negative `timeoutMs`) a request
to a server that never answers ends only with its context, and a run of loadgen that no signal ends
may wait for it for ever.

`TestApp!Fairness`: time passes, the endpoints of a deleted pod are removed, and the main
goroutine runs when it can. Nothing is assumed of handlers, so `StoppedPodExits` holds while
Redis hangs.

`Harness!PromptSpec`: main and probe are scheduled. `Inject` is assumed to return only
once its context is done, which client-go honours; `Rollback` and the server view have
contexts that expire. No timer is assumed to fire, so `SignalledRunExits` shows that a
signal alone suffices. `EveryRunExits` is under
the further condition `Timely`: time reaches a deadline, the timer then fires, and the
API server answers.

## 6. What is proved

TLAPS proves the following for every value of the constants that the named `ASSUME`s
admit, from nothing but those and the library's theorems.

* **Prober** (any pool and any number of ticks). `TypeOK` is inductive.
  `NoSendAfterClose` needs `ShutdownInv`, which ties the closed channels to the caller's
  `pc` and says that a worker that is done has left an empty closed queue behind;
  `ReturnedSamplesAreFinal` follows from it. `EveryTickAccountedFor` is inductive
  together with `TicksAreNew`: a tick still in the ticker is newer than any taken. The
  lemmas `PoolTakes`, `PoolGives` and `PoolKeeps` say what a step does to the set of ticks
  in the pool. `KeepsPromise` maps each step to a step of `LoadRun` or to a stutter;
  `EmptyAtTheEnd` is why `HandOver` finds nothing missing.
* **Recovery** (any slice, window, bucket and minimum). `LoopInv` says that each count is
  that of the samples seen so far and `maxIdx` the last bin among them, and in the scan
  that `lastUnhealthy` is the last bin below the minimum among those scanned. `HealthyMeans`
  and `ConcludeAnswers` turn that into `MeasuresRecovery`; `RecoversInsideWindow` follows.
* **Verdict** (any file and any slice). `VerdictRunsRecovery`: its steps are those of `Recovery` or
  stutters, so what is proved of the loops holds in it. `VerdictInv` adds that an experiment keeps its
  fields (`FileInv`), that the summary is that of the window measured (`SummaryInv`), that an accepted
  file asks for the minimum measured by (`MinimumInv`), and that the judgement is `BuildVerdict`'s on
  both (`JudgedInv`). The rest is about data: `RecoveryOfMeans` and `MeasuredIsComputed` bring
  the loops' answer and the function together; `RankedFacts` and `P95Facts` say what a nearest
  rank is, `WindowHolds` that a rate which every bin keeps the window keeps.
  An induction over bins or ranks is an argument about a least counterexample: `LeastNat`, from
  the library's `WFMin`, which takes no operator.
* **Harness** (any durations, delays and thresholds). `CallsInv` ties the numbers of calls to
  the phase, `StandInv` the standing fault and `blind` to them: together `EveryInjectionIsRolledBack`.
  `VerdictInv` says when there is a verdict, `ContextInv` relates `stoppedAt` to the
  contexts, `ObservedInv` the timer that fired to the end of the window, and `CompleteInv`
  the returned slice to the ticks taken: together `JudgedWindowIsComplete` and
  `VerdictIsOfAllSamples`.
* **NodeDrain** (any cluster, failures and number of runs). `RecordInv` says in
  which phases `cordoned` is set, to the node picked, and what was read; `OwnInv` that a cordon
  a run has set is still its own to undo, or that run was blind or killed or its rollback told of an
  error. `EvictedInv` says what is reported, and `EscapeInv` that what runs on the node is still to be
  evicted or arrived before the cordon, as long as that stands: together `InjectedMeansEvicted`.
  `NodeDrainKeepsContract`
  maps every step, for every run, to a step of `Injector` or to a stutter: the contract `Harness` is
  built on is kept.
* **Partition** (any number of processes, any counts, failures and other actors). `RecordInv` says
  what a process knows at which call; `UntakenIsUntouched` is inductive with it. `AloneInv`: while
  nothing has gone wrong at most one process holds the count, it is the count the others want, and
  a process about to patch has read what stands: so the count is right at the end. `WriterInv`
  says what the process that wrote last has written and in which state it is, `ReadInv` that what
  a process read and restores is wanted unless it is in `inherited` or `crossed`: together
  `WrongCountIsExplained`, and `PartitionKeepsContract`.
* **ResourcePressure** (any number of processes and names). `OneHog` and `RecordInv` say which process
  has a hog and a name, `OwnHog` that the pod of the recorded name is the process's own unless others
  deleted that: with `NoVictims`, `PressureStands`, and the refinement of `Injector`.
* **PodKill** (any names, counts and number of replacements; `PodFaultProofs` extends it next to
  `ResourcePressure`, so the two share no name). `PodsInv` says that an identity is used once, `ChoiceInv` that what is chosen was found running, `ReachInv` that
  the pods reached and those still to reach are no more than `count`, `ReturnedInv` what is then
  reported and what a `NotFound` shows. With `RangeInv` they give the type.
* **Generator** (any pool and number of ticks). `ShutInv` ties the closed channels and the
  workers that returned to the caller's `pc`. `TickInv` says where each tick is, `SentInv`
  where each request sent is, that an aborted sample needs a signal, and an unsent one a signal or
  a target that cannot be asked, `LateInv` that what
  starts late has left the queue: together `CountsAddUp`, `DeadlineAbortsNothing` and
  `FewLateStarts`. `AllCollected` says that once the collector is done every tick is in the slice;
  `GeneratorKeepsPromise` maps each step to a step of `LoadCount` or to a stutter. `PutFacts` and `DropFacts` say what one more or less of an outcome does to
  a tally and its total.
* **TestApp** (any requests and delays within `DelayAssumption`). `MainInv` says that a
  listener is closed only after `DrainDelay`, and that a deleted pod is routed to no longer
  than `Propagation`: what arrives finds it open. `ClockInv` and `CountersInv` give the type: both
  timers are on time, the gauge and the counter are the sizes of the sets of requests they
  stand for. `GaugeInv` says that whoever is about to set `redis_up` ended last or overlapped the
  one who did.
* **ServerView** (any pods, interval and windows within `ViewAssumption`; in `TestAppProofs`).
  `DueInv` says that a pod that runs is due within an interval, `SteadyInv` that one that ran
  throughout has a scrape that still counts or is due before the window ends, `DarkInv` that the longer a
  gauge has been 0 without a scrape that saw it the sooner the next comes, `GoneInv` that a 0 on record
  is an operation that failed. `ReportInv` says that the queries read what is on record when the window
  is over, which no longer changes: together `ServerViewIsObserved`.

The constants' assumptions are evaluated by TLC in the runs of the modules that state
them: a pool as large as its capacity, a minimum rate that is a fraction of at most one,
durations that are naturals with a fault phase of at least one unit (`Validate` asks for
it), a `None` that is no node, process or request, a known set of failures, finitely many pod names,
counts that are naturals, finitely many pods that Prometheus scrapes, windows of at least one second
that start within the modelled time, a pod that leaves the endpoints before its drain ends, and files that have
the fields of their type and, where the minimum rate they ask for is one at all, ask for the rate
that `Recovery` is called with.

Only model-checked: liveness, which is out of the prover's reach, and the counterexamples of the
three runs that end with one. Every invariant and every refinement of the other runs is also a
theorem, for every value of the constants, the caps `MaxTicks`, `MaxRuns` and `MaxUid`
included. The type
theorems of `Prober`, `Recovery`, `Harness`, `NodeDrain`, `Partition`, `ResourcePressure`, `PodKill` and `Generator`
state properties that no run repeats.

## 7. Not modelled

The values of the two counter queries of the server view, which Prometheus extrapolates and nothing
reads. The YAML parser and `TargetURL`. Logging, build info, the Kubernetes client's construction,
report formatting, manifests, scripts and CI, because no state of a run depends on them. The
value of testapp's Redis counter, which nothing promises anything of. Real time below the unit,
HTTP connections, and more than one signal: the context is cancelled by the first and later ones
change nothing.
