------------------------------- MODULE Harness -------------------------------
(***************************************************************************)
(* One run of the harness (cmd/harness/run.go: runExperiment, execute,     *)
(* sleepCtx): the main goroutine through set-up, baseline, injection,      *)
(* observation, judgement, server view, rollback and report, next to the   *)
(* probe's goroutine, the API calls of the injector and a SIGINT or        *)
(* SIGTERM that may come at any moment.                                    *)
(*                                                                         *)
(* The prober is represented by what it promises, LoadRun, which module    *)
(* Prober is shown to implement, and the injector by its contract, module  *)
(* Injector, which the injectors are shown to implement: a call to Inject  *)
(* may leave a fault standing whatever it returns, and a Rollback that     *)
(* returns nil has removed it unless Inject was given no answer.           *)
(*                                                                         *)
(* Time is a count of units; one unit is the prober's interval and the     *)
(* recovery bucket.  It passes only where the code waits for it or where   *)
(* it reads the clock on both sides of a call.  A sleep is entered and its *)
(* timer made in one step, and a blocked select is decided by the first of *)
(* its events.  Latencies, the baseline summary and every log line are     *)
(* left out.                                                               *)
(***************************************************************************)
EXTENDS Measure, SequencesExt

CONSTANTS Baseline, Fault,   \* exp.Phases, in units
          Settle,            \* promSettleDelay
          UsePrometheus,     \* -prometheus is given
          Th,                \* the thresholds [num, den, maxP95, timeout]
          Lag,               \* bound: how late a timer may be, in units
          MaxInject,         \* bound: how long Inject may take, in units
          MaxTicks           \* bound: how many ticks the probe takes

ASSUME TimesAssumption == /\ Baseline \in Nat /\ Fault \in Nat \ {0} /\ Settle \in Nat \ {0}
                          /\ Lag \in Nat /\ MaxInject \in Nat /\ MaxTicks \in Nat
ASSUME OptionAssumption == UsePrometheus \in BOOLEAN

VARIABLES
  clock,
  ctxDone,        \* the signal context is cancelled
  pc,             \* where the main goroutine is
  wake,           \* what decided its select: "timer", "ctx", or "none" while it waits
  deadline,       \* of the timer it waits for
  injectedAt,
  probeDone,      \* cancelProbe() was called
  taken, samples, phase,     \* the probe's goroutine, as in LoadRun
  standing, blind,           \* the cluster, as in Injector
  verdict,        \* "none", "pass" or "fail"
  failed,         \* execute returns an error
  exitCode,       \* the process's status, -1 while it runs
  injects, rollbacks,        \* history: calls begun
  rollbackErr,    \* history: the call of Rollback returned an error
  writeErr,       \* history: report.Write returned an error
  stoppedAt       \* history: when the probe's context was cancelled, -1 if it was not

mainVars    == <<pc, wake, deadline, injectedAt, failed, exitCode>>
probeVars   == <<taken, samples, phase>>
faultVars   == <<standing, blind>>
historyVars == <<injects, rollbacks, rollbackErr, writeErr>>
vars == <<clock, ctxDone, mainVars, probeDone, probeVars, faultVars, verdict, historyVars,
          stoppedAt>>

Instants == 0 .. Baseline + MaxInject + Fault + Settle + 3 * Lag
Outcomes == {"ok", "fail", "aborted"}

Load == INSTANCE LoadRun WITH Ticks <- Instants

\* The call the run is in.
InjectorCall == IF injects = 0 THEN "idle"
                ELSE IF pc = "injecting" THEN "injecting"
                ELSE IF pc \notin {"reporting", "exited"} THEN "injected"
                ELSE IF rollbackErr THEN "failed" ELSE "rolled back"

Inj == INSTANCE Injector WITH call <- InjectorCall

Init == /\ clock = 0 /\ ctxDone = FALSE
        /\ pc = "setup" /\ wake = "none" /\ deadline = 0 /\ injectedAt = 0
        /\ failed = FALSE /\ exitCode = -1
        /\ probeDone = FALSE /\ Load!RunInit
        /\ standing = FALSE /\ blind = FALSE
        /\ verdict = "none"
        /\ injects = 0 /\ rollbacks = 0 /\ rollbackErr = FALSE /\ writeErr = FALSE
        /\ stoppedAt = -1

FaultEnd == injectedAt + Fault

\* The probe's context is derived from the signal context.
ProbeCancelled == probeDone \/ ctxDone
CancelProbe == /\ probeDone' = TRUE
               /\ stoppedAt' = IF ProbeCancelled THEN stoppedAt ELSE clock

\* sleepCtx, entered: a context that is already done wins over a timer yet to
\* fire; a timer of no length may win.
Sleep(d) == /\ deadline' = clock + d
            /\ wake' \in IF ~ctxDone THEN {"none"} ELSE IF d = 0 THEN {"ctx", "timer"} ELSE {"ctx"}

Sleeping == pc \in {"baseline", "observing", "settling"}

-----------------------------------------------------------------------------
(* Signal and time. *)

\* Mutated: the select of sleepCtx has no case for the context.
Signal_SleepIgnored ==
  /\ pc \notin {"setup", "exited"}
  /\ ~ctxDone
  /\ ctxDone' = TRUE
  /\ stoppedAt' = IF probeDone THEN stoppedAt ELSE clock
  /\ UNCHANGED <<clock, mainVars, probeDone, probeVars, faultVars, verdict, historyVars>>

\* signal.NotifyContext cancels the context; a blocked select takes that case.
Signal == /\ pc \notin {"setup", "exited"}
          /\ ~ctxDone
          /\ ctxDone' = TRUE
          /\ wake' = IF Sleeping /\ wake = "none" THEN "ctx" ELSE wake
          /\ stoppedAt' = IF probeDone THEN stoppedAt ELSE clock
          /\ UNCHANGED <<clock, pc, deadline, injectedAt, failed, exitCode, probeDone, probeVars, faultVars, verdict, historyVars>>

TimerFires == /\ Sleeping /\ wake = "none"
              /\ clock >= deadline
              /\ wake' = "timer"
              /\ UNCHANGED <<clock, ctxDone, pc, deadline, injectedAt, failed, exitCode, probeDone,
                             probeVars, faultVars, verdict, historyVars, stoppedAt>>

Advance == /\ \/ Sleeping /\ clock < deadline + Lag
              \/ pc = "injecting" /\ clock < injectedAt + MaxInject
           /\ clock' = clock + 1
           /\ UNCHANGED <<ctxDone, mainVars, probeDone, probeVars, faultVars, verdict, historyVars,
                          stoppedAt>>

-----------------------------------------------------------------------------
(* The cluster. *)

\* A change that Inject asked for takes effect, or another actor undoes it.
FaultChanges == /\ pc # "exited"
                /\ UNCHANGED <<clock, ctxDone, mainVars, probeDone, probeVars, verdict, historyVars,
                               stoppedAt>>
                /\ Inj!Strike \/ Inj!Disturb

-----------------------------------------------------------------------------
(* The probe's goroutine, which runs from the beginning of the baseline. *)

ProbeTick == /\ pc \notin {"setup", "exited"}
             /\ Cardinality(taken) < MaxTicks
             /\ Load!Take
             /\ clock \in taken'
             /\ UNCHANGED <<clock, ctxDone, mainVars, probeDone, faultVars, verdict, historyVars,
                            stoppedAt>>

\* The target answers a request with 200 or it does not, whatever stands in the
\* cluster; a request still queued or in flight when the probe's context ends fails.
ProbeSample == /\ pc # "exited"
               /\ Load!Record
               /\ Last(samples').outcome = "aborted" => ProbeCancelled
               /\ UNCHANGED <<clock, ctxDone, mainVars, probeDone, faultVars, verdict, historyVars,
                              stoppedAt>>

ProbeStop == /\ pc # "exited"
             /\ ProbeCancelled
             /\ Load!StopTaking
             /\ UNCHANGED <<clock, ctxDone, mainVars, probeDone, faultVars, verdict, historyVars,
                            stoppedAt>>

ProbeReturn == /\ pc # "exited"
               /\ Load!HandOver
               /\ UNCHANGED <<clock, ctxDone, mainVars, probeDone, faultVars, verdict, historyVars,
                              stoppedAt>>

-----------------------------------------------------------------------------
(* The main goroutine. *)

Exit(code) == pc' = "exited" /\ exitCode' = code

\* A bad flag, experiment or kubeconfig ends the run before it begins; -h ends
\* it successfully.
SetupFails == /\ pc = "setup"
              /\ \E code \in {0, 1} : Exit(code)
              /\ UNCHANGED <<clock, ctxDone, wake, deadline, injectedAt, failed, probeDone, probeVars,
                             faultVars, verdict, historyVars, stoppedAt>>

StartBaseline == /\ pc = "setup"
                 /\ pc' = "baseline"
                 /\ Sleep(Baseline)
                 /\ UNCHANGED <<clock, ctxDone, injectedAt, failed, exitCode, probeDone, probeVars, faultVars, verdict, historyVars, stoppedAt>>

\* Nothing was injected, and no rollback is registered yet: cancelProbe, exit.
AbortBaseline == /\ pc = "baseline" /\ wake = "ctx"
                 /\ CancelProbe
                 /\ failed' = TRUE
                 /\ Exit(1)
                 /\ UNCHANGED <<clock, ctxDone, wake, deadline, injectedAt, probeVars, faultVars,
                                verdict, historyVars>>

\* injectedAt is read before Inject is called.
BeginInject == /\ pc = "baseline" /\ wake = "timer"
               /\ injectedAt' = clock
               /\ injects' = injects + 1
               /\ pc' = "injecting"
               /\ UNCHANGED <<clock, ctxDone, wake, deadline, failed, exitCode, probeDone, probeVars, faultVars, verdict, rollbacks, rollbackErr, writeErr, stoppedAt>>

InjectReturns == /\ pc = "injecting"
                 /\ pc' = "observing"
                 /\ Sleep(Fault)
                 /\ UNCHANGED <<clock, ctxDone, injectedAt, failed, exitCode, probeDone, probeVars, verdict,
                                historyVars, stoppedAt>>
                 /\ Inj!Return

\* Mutated: the rollback is registered only after the error check.
InjectFails_NoRollback ==
  /\ pc = "injecting"
  /\ CancelProbe
  /\ failed' = TRUE
  /\ Exit(1)
  /\ UNCHANGED <<clock, ctxDone, wake, deadline, injectedAt, probeVars, faultVars, verdict,
                 historyVars>>

\* The deferred rollback is registered before the error of Inject is looked at.
InjectFails == /\ pc = "injecting"
               /\ failed' = TRUE
               /\ pc' = "rolling back" /\ rollbacks' = rollbacks + 1
               /\ UNCHANGED <<clock, ctxDone, wake, deadline, injectedAt, exitCode, probeDone, probeVars,
                              verdict, injects, rollbackErr, writeErr, stoppedAt>>
               /\ Inj!Return \/ Inj!StrikeUnanswered

AbortObserving == /\ pc = "observing" /\ wake = "ctx"
                  /\ failed' = TRUE
                  /\ pc' = "rolling back" /\ rollbacks' = rollbacks + 1
                  /\ UNCHANGED <<clock, ctxDone, wake, deadline, injectedAt, exitCode, probeDone,
                                 probeVars, faultVars, verdict, injects, rollbackErr, writeErr,
                                 stoppedAt>>

\* Mutated: an interrupted observation is judged like a complete one.
EndObservation_IgnoresCtx ==
  /\ pc = "observing" /\ wake \in {"timer", "ctx"}
  /\ CancelProbe
  /\ pc' = "joining"
  /\ UNCHANGED <<clock, ctxDone, wake, deadline, injectedAt, failed, exitCode, probeVars, faultVars,
                 verdict, historyVars>>

\* Mutated: the probe is joined without being cancelled.
EndObservation_NoCancel ==
  /\ pc = "observing" /\ wake = "timer"
  /\ pc' = "joining"
  /\ UNCHANGED <<clock, ctxDone, wake, deadline, injectedAt, failed, exitCode, probeDone, probeVars, faultVars, verdict, historyVars, stoppedAt>>

EndObservation == /\ pc = "observing" /\ wake = "timer"
                  /\ CancelProbe
                  /\ pc' = "joining"
                  /\ UNCHANGED <<clock, ctxDone, wake, deadline, injectedAt, failed, exitCode, probeVars,
                                 faultVars, verdict, historyVars>>

\* The slice, as the measures read it: only a 200 is OK.
Measured == [i \in DOMAIN samples |->
               [at |-> samples[i].at, ok |-> samples[i].outcome = "ok", latency |-> 0]]

JudgedPass == Pass(Th, Summarize(Measured, InWindow(Measured, injectedAt, FaultEnd)),
                   RecoveryOf(Measured, injectedAt, FaultEnd, Th, 1))

\* What follows the verdict: the server view if there is one to ask for, else
\* the deferred rollback.
AfterVerdict ==
  IF UsePrometheus THEN pc' = "settling" /\ Sleep(Settle) /\ UNCHANGED rollbacks
                   ELSE /\ pc' = "rolling back" /\ rollbacks' = rollbacks + 1
                        /\ UNCHANGED <<wake, deadline>>

\* Mutated: the samples are read without waiting for the probe to return.
Judge_NoJoin ==
  /\ pc = "joining"
  /\ verdict' = IF JudgedPass THEN "pass" ELSE "fail"
  /\ AfterVerdict
  /\ UNCHANGED <<clock, ctxDone, injectedAt, failed, exitCode, probeDone, probeVars, faultVars,
                 injects, rollbackErr, writeErr, stoppedAt>>

\* <-samplesCh, then the measures and the verdict.
Judge == /\ pc = "joining"
         /\ phase = "returned"
         /\ verdict' = IF JudgedPass THEN "pass" ELSE "fail"
         /\ AfterVerdict
         /\ UNCHANGED <<clock, ctxDone, injectedAt, failed, exitCode, probeDone, probeVars, faultVars,
                        injects, rollbackErr, writeErr, stoppedAt>>

\* Mutated: an error of the server view is returned.
ServerView_Fatal ==
  /\ pc = "settling" /\ wake # "none"
  /\ failed' = (wake = "ctx")
  /\ pc' = "rolling back" /\ rollbacks' = rollbacks + 1
  /\ UNCHANGED <<clock, ctxDone, wake, deadline, injectedAt, exitCode, probeDone, probeVars, faultVars, verdict, injects, rollbackErr, writeErr, stoppedAt>>

\* collectServerView: interrupted while it settles, or queried with whatever
\* result, it leaves the verdict alone.
ServerView == /\ pc = "settling" /\ wake # "none"
              /\ pc' = "rolling back" /\ rollbacks' = rollbacks + 1
              /\ UNCHANGED <<clock, ctxDone, wake, deadline, injectedAt, failed, exitCode, probeDone,
                             probeVars, faultVars, verdict, injects, rollbackErr, writeErr,
                             stoppedAt>>

\* Rollback returns, with whatever result its contract allows.  Then the deferred
\* cancelProbe, and execute returns.
RollbackEnds == /\ pc = "rolling back"
                /\ rollbackErr' \in BOOLEAN
                /\ CancelProbe
                /\ IF failed THEN Exit(1) ELSE pc' = "reporting" /\ UNCHANGED exitCode
                /\ UNCHANGED <<clock, ctxDone, wake, deadline, injectedAt, failed, probeVars, verdict,
                               injects, rollbacks, writeErr>>
                /\ Inj!Undo

\* report.Human on stdout, report.Write if -out is given, and the exit status.
Report == /\ pc = "reporting"
          /\ \/ writeErr' = TRUE /\ Exit(1)
             \/ UNCHANGED writeErr /\ Exit(IF verdict = "pass" THEN 0 ELSE 1)
          /\ UNCHANGED <<clock, ctxDone, wake, deadline, injectedAt, failed, probeDone, probeVars, faultVars, verdict, injects, rollbacks, rollbackErr, stoppedAt>>

-----------------------------------------------------------------------------
Time  == TimerFires \/ Advance
Probe == ProbeTick \/ ProbeSample \/ ProbeStop \/ ProbeReturn
Main  == \/ SetupFails \/ StartBaseline \/ AbortBaseline \/ BeginInject
         \/ InjectReturns \/ InjectFails
         \/ AbortObserving \/ EndObservation \/ Judge \/ ServerView
         \/ RollbackEnds \/ Report
Environment == Signal \/ FaultChanges

Exited == pc = "exited" /\ UNCHANGED vars

Next == Time \/ Probe \/ Main \/ Environment \/ Exited

Spec == Init /\ [][Next]_vars

-----------------------------------------------------------------------------
(* Properties. *)

SetUp    == {"setup", "baseline"}
Injected == {"injecting", "observing", "joining", "settling"}

\* Every variable holds a value the code's variable can hold.
TypeOK == /\ clock \in Nat /\ ctxDone \in BOOLEAN
          /\ pc \in SetUp \union Injected \union {"rolling back", "reporting", "exited"}
          /\ wake \in {"none", "timer", "ctx"}
          /\ deadline \in Nat /\ injectedAt \in Nat
          /\ failed \in BOOLEAN /\ exitCode \in {-1, 0, 1}
          /\ probeDone \in BOOLEAN
          /\ taken \in SUBSET Instants
          /\ samples \in Seq([at : Instants, outcome : Outcomes])
          /\ phase \in {"running", "draining", "returned"}
          /\ standing \in BOOLEAN /\ blind \in BOOLEAN
          /\ verdict \in {"none", "pass", "fail"}
          /\ injects \in 0 .. 1 /\ rollbacks \in 0 .. 1
          /\ rollbackErr \in BOOLEAN /\ writeErr \in BOOLEAN
          /\ stoppedAt \in Nat \union {-1}

\* Whatever way a run ends (a failed injection, a signal in any phase, a
\* verdict, an unwritable report), a call of Inject was followed by exactly one
\* call of Rollback, none comes without it, and a fault that still stands at
\* exit is one whose Rollback failed, or of which Inject was told nothing (the
\* deferred function of execute).
EveryInjectionIsRolledBack ==
  /\ rollbacks <= injects
  /\ pc = "exited" => /\ rollbacks = injects
                      /\ standing => rollbackErr \/ blind

\* A verdict is given only on a complete observation: the probe was not stopped
\* before the end of the judged window, it has returned, and every tick it took
\* is in the slice, whenever the signal comes (execute: sleepCtx, cancelProbe,
\* <-samplesCh).
JudgedWindowIsComplete ==
  verdict # "none" => /\ phase = "returned"
                      /\ Load!Recorded = taken
                      /\ stoppedAt >= FaultEnd

\* The verdict is that of the samples the run ends with: none arrives after it
\* was given, and nothing that follows (the settling, the server view, the
\* rollback) changes it.
VerdictIsOfAllSamples ==
  verdict # "none" => verdict = IF JudgedPass THEN "pass" ELSE "fail"

\* The process exits with 0 exactly if the verdict it reached is PASS and the
\* report was written: no failed or interrupted server view and no failed
\* rollback turns it (collectServerView: "a failure never changes the verdict"),
\* and a run without a verdict, once it has injected, exits with 1.
ExitCodeTellsTheVerdict ==
  pc = "exited" => /\ verdict # "none" => (exitCode = 0 <=> verdict = "pass" /\ ~writeErr)
                   /\ verdict = "none" /\ injects = 1 => exitCode = 1

-----------------------------------------------------------------------------
(* Liveness. *)

\* The goroutines are scheduled fairly.  Inject is only known to return once its
\* context is done; Rollback and the server view have contexts that expire.  That
\* time passes or a timer fires is not assumed.
Prompt == Main /\ (pc = "injecting" => ctxDone)

PromptSpec == /\ Spec
              /\ WF_vars(Prompt)
              /\ WF_vars(ProbeStop) /\ WF_vars(ProbeSample) /\ WF_vars(ProbeReturn)

\* After a SIGINT or SIGTERM the run ends without waiting for any timer, in
\* whatever phase the signal finds it: through the rollback, if it has injected.
SignalledRunExits == ctxDone ~> pc = "exited"

\* Timers that fire as well, and an API server that answers Inject.
Timely == /\ WF_vars(Main) /\ WF_vars(TimerFires)
          /\ WF_vars(Sleeping /\ clock < deadline /\ Advance)

\* No run waits for its probe for ever: if timers fire and the API server answers,
\* each one ends, with or without a signal.
EveryRunExits == Timely => (pc = "baseline" ~> pc = "exited")
=============================================================================
