---------------------------- MODULE HarnessProofs ----------------------------
(***************************************************************************)
(* Proofs about Harness, for every timeline, hypothesis, lag and duration  *)
(* of an injection.                                                        *)
(***************************************************************************)
EXTENDS Harness, TLAPS

(***************************************************************************)
(* Type correctness.  The variables are taken in groups: the flags need   *)
(* no arithmetic, and only the call counters need the phase they are in.   *)
(***************************************************************************)
FlagsOK == /\ ctxDone \in BOOLEAN /\ failed \in BOOLEAN /\ probeDone \in BOOLEAN
           /\ standing \in BOOLEAN /\ blind \in BOOLEAN /\ rollbackErr \in BOOLEAN /\ writeErr \in BOOLEAN

TimesOK == /\ clock \in Nat /\ deadline \in Nat /\ injectedAt \in Nat
           /\ stoppedAt \in Nat \union {-1}

StatesOK == /\ pc \in SetUp \union Injected \union {"rolling back", "reporting", "exited"}
            /\ wake \in {"none", "timer", "ctx"}
            /\ verdict \in {"none", "pass", "fail"}
            /\ exitCode \in {-1, 0, 1}

ProbeOK == /\ taken \in SUBSET Instants
           /\ samples \in Seq([at : Instants, outcome : Outcomes])
           /\ phase \in {"running", "draining", "returned"}

CallsOK == injects \in 0 .. 1 /\ rollbacks \in 0 .. 1

LEMMA TypeParts == TypeOK <=> FlagsOK /\ TimesOK /\ StatesOK /\ ProbeOK /\ CallsOK
BY DEF TypeOK, FlagsOK, TimesOK, StatesOK, ProbeOK, CallsOK

LEMMA FlagsStep == FlagsOK /\ [Next]_vars => FlagsOK'
<1> SUFFICES ASSUME FlagsOK, [Next]_vars PROVE FlagsOK'
  OBVIOUS
<1> USE DEF FlagsOK, mainVars, probeVars, faultVars, historyVars
<1>1. CASE Signal
  BY <1>1 DEF Signal
<1>2. CASE TimerFires
  BY <1>2 DEF TimerFires
<1>3. CASE Advance
  BY <1>3 DEF Advance
<1>4. CASE FaultChanges
  BY <1>4 DEF FaultChanges, Inj!Strike, Inj!Disturb
<1>5. CASE ProbeTick
  BY <1>5 DEF ProbeTick
<1>6. CASE ProbeSample
  BY <1>6 DEF ProbeSample
<1>7. CASE ProbeStop
  BY <1>7 DEF ProbeStop
<1>8. CASE ProbeReturn
  BY <1>8 DEF ProbeReturn
<1>9. CASE SetupFails
  BY <1>9 DEF SetupFails, Exit
<1>10. CASE StartBaseline
  BY <1>10 DEF StartBaseline, Sleep
<1>11. CASE AbortBaseline
  BY <1>11 DEF AbortBaseline, CancelProbe, Exit
<1>12. CASE BeginInject
  BY <1>12 DEF BeginInject
<1>13. CASE InjectReturns
  BY <1>13 DEF InjectReturns, Sleep, Inj!Return
<1>14. CASE InjectFails
  BY <1>14 DEF InjectFails, Inj!Return, Inj!StrikeUnanswered
<1>15. CASE AbortObserving
  BY <1>15 DEF AbortObserving
<1>16. CASE EndObservation
  BY <1>16 DEF EndObservation, CancelProbe
<1>17. CASE Judge
  BY <1>17 DEF Judge, AfterVerdict, Sleep
<1>18. CASE ServerView
  BY <1>18 DEF ServerView
<1>19. CASE RollbackEnds
  BY <1>19 DEF RollbackEnds, CancelProbe, Exit, Inj!Undo
<1>20. CASE Report
  BY <1>20 DEF Report, Exit
<1>21. CASE UNCHANGED vars
  BY <1>21 DEF vars
<1> QED
  BY <1>1, <1>2, <1>3, <1>4, <1>5, <1>6, <1>7, <1>8, <1>9, <1>10, <1>11, <1>12, <1>13, <1>14, <1>15,
     <1>16, <1>17, <1>18, <1>19, <1>20, <1>21
  DEF Next, Time, Probe, Main, Environment, Exited

LEMMA TimesStep == TimesOK /\ [Next]_vars => TimesOK'
<1> SUFFICES ASSUME TimesOK, [Next]_vars PROVE TimesOK'
  OBVIOUS
<1> USE TimesAssumption DEF TimesOK, mainVars, probeVars, faultVars, historyVars
<1>1. CASE Signal
  BY <1>1 DEF Signal
<1>2. CASE TimerFires
  BY <1>2 DEF TimerFires
<1>3. CASE Advance
  BY <1>3 DEF Advance
<1>4. CASE FaultChanges
  BY <1>4 DEF FaultChanges
<1>5. CASE ProbeTick
  BY <1>5 DEF ProbeTick
<1>6. CASE ProbeSample
  BY <1>6 DEF ProbeSample
<1>7. CASE ProbeStop
  BY <1>7 DEF ProbeStop
<1>8. CASE ProbeReturn
  BY <1>8 DEF ProbeReturn
<1>9. CASE SetupFails
  BY <1>9 DEF SetupFails, Exit
<1>10. CASE StartBaseline
  BY <1>10 DEF StartBaseline, Sleep
<1>11. CASE AbortBaseline
  BY <1>11 DEF AbortBaseline, CancelProbe, Exit
<1>12. CASE BeginInject
  BY <1>12 DEF BeginInject
<1>13. CASE InjectReturns
  BY <1>13 DEF InjectReturns, Sleep
<1>14. CASE InjectFails
  BY <1>14 DEF InjectFails
<1>15. CASE AbortObserving
  BY <1>15 DEF AbortObserving
<1>16. CASE EndObservation
  BY <1>16 DEF EndObservation, CancelProbe
<1>17. CASE Judge
  <2>1. CASE UsePrometheus
    BY <1>17, <2>1 DEF Judge, AfterVerdict, Sleep
  <2>2. CASE ~UsePrometheus
    BY <1>17, <2>2 DEF Judge, AfterVerdict
  <2> QED BY <2>1, <2>2
<1>18. CASE ServerView
  BY <1>18 DEF ServerView
<1>19. CASE RollbackEnds
  BY <1>19 DEF RollbackEnds, CancelProbe, Exit
<1>20. CASE Report
  BY <1>20 DEF Report, Exit
<1>21. CASE UNCHANGED vars
  BY <1>21 DEF vars
<1> QED
  BY <1>1, <1>2, <1>3, <1>4, <1>5, <1>6, <1>7, <1>8, <1>9, <1>10, <1>11, <1>12, <1>13, <1>14, <1>15,
     <1>16, <1>17, <1>18, <1>19, <1>20, <1>21
  DEF Next, Time, Probe, Main, Environment, Exited

LEMMA StatesStep == StatesOK /\ [Next]_vars => StatesOK'
<1> SUFFICES ASSUME StatesOK, [Next]_vars PROVE StatesOK'
  OBVIOUS
<1> USE DEF StatesOK, SetUp, Injected, mainVars, probeVars, faultVars, historyVars
<1>1. CASE Signal
  BY <1>1 DEF Signal
<1>2. CASE TimerFires
  BY <1>2 DEF TimerFires
<1>3. CASE Advance
  BY <1>3 DEF Advance
<1>4. CASE FaultChanges
  BY <1>4 DEF FaultChanges
<1>5. CASE ProbeTick
  BY <1>5 DEF ProbeTick
<1>6. CASE ProbeSample
  BY <1>6 DEF ProbeSample
<1>7. CASE ProbeStop
  BY <1>7 DEF ProbeStop
<1>8. CASE ProbeReturn
  BY <1>8 DEF ProbeReturn
<1>9. CASE SetupFails
  BY <1>9 DEF SetupFails, Exit
<1>10. CASE StartBaseline
  BY <1>10 DEF StartBaseline, Sleep
<1>11. CASE AbortBaseline
  BY <1>11 DEF AbortBaseline, CancelProbe, Exit
<1>12. CASE BeginInject
  BY <1>12 DEF BeginInject
<1>13. CASE InjectReturns
  BY <1>13 DEF InjectReturns, Sleep
<1>14. CASE InjectFails
  BY <1>14 DEF InjectFails
<1>15. CASE AbortObserving
  BY <1>15 DEF AbortObserving
<1>16. CASE EndObservation
  BY <1>16 DEF EndObservation, CancelProbe
<1>17. CASE Judge
  BY <1>17 DEF Judge, AfterVerdict, Sleep
<1>18. CASE ServerView
  BY <1>18 DEF ServerView
<1>19. CASE RollbackEnds
  BY <1>19 DEF RollbackEnds, CancelProbe, Exit
<1>20. CASE Report
  BY <1>20 DEF Report, Exit
<1>21. CASE UNCHANGED vars
  BY <1>21 DEF vars
<1> QED
  BY <1>1, <1>2, <1>3, <1>4, <1>5, <1>6, <1>7, <1>8, <1>9, <1>10, <1>11, <1>12, <1>13, <1>14, <1>15,
     <1>16, <1>17, <1>18, <1>19, <1>20, <1>21
  DEF Next, Time, Probe, Main, Environment, Exited

\* A step is one of the probe's goroutine or leaves its variables alone.
LEMMA ProbeOrNot ==
  ASSUME [Next]_vars PROVE Load!RunNext \/ UNCHANGED probeVars
<1> USE DEF Load!RunNext, mainVars, probeVars, faultVars, historyVars
<1>1. CASE Signal
  BY <1>1 DEF Signal
<1>2. CASE TimerFires
  BY <1>2 DEF TimerFires
<1>3. CASE Advance
  BY <1>3 DEF Advance
<1>4. CASE FaultChanges
  BY <1>4 DEF FaultChanges
<1>5. CASE ProbeTick
  BY <1>5 DEF ProbeTick
<1>6. CASE ProbeSample
  BY <1>6 DEF ProbeSample
<1>7. CASE ProbeStop
  BY <1>7 DEF ProbeStop
<1>8. CASE ProbeReturn
  BY <1>8 DEF ProbeReturn
<1>9. CASE SetupFails
  BY <1>9 DEF SetupFails, Exit
<1>10. CASE StartBaseline
  BY <1>10 DEF StartBaseline, Sleep
<1>11. CASE AbortBaseline
  BY <1>11 DEF AbortBaseline, CancelProbe, Exit
<1>12. CASE BeginInject
  BY <1>12 DEF BeginInject
<1>13. CASE InjectReturns
  BY <1>13 DEF InjectReturns, Sleep
<1>14. CASE InjectFails
  BY <1>14 DEF InjectFails
<1>15. CASE AbortObserving
  BY <1>15 DEF AbortObserving
<1>16. CASE EndObservation
  BY <1>16 DEF EndObservation, CancelProbe
<1>17. CASE Judge
  BY <1>17 DEF Judge, AfterVerdict, Sleep
<1>18. CASE ServerView
  BY <1>18 DEF ServerView
<1>19. CASE RollbackEnds
  BY <1>19 DEF RollbackEnds, CancelProbe, Exit
<1>20. CASE Report
  BY <1>20 DEF Report, Exit
<1>21. CASE UNCHANGED vars
  BY <1>21 DEF vars
<1> QED
  BY <1>1, <1>2, <1>3, <1>4, <1>5, <1>6, <1>7, <1>8, <1>9, <1>10, <1>11, <1>12, <1>13, <1>14, <1>15,
     <1>16, <1>17, <1>18, <1>19, <1>20, <1>21
  DEF Next, Time, Probe, Main, Environment, Exited

\* Only the probe's goroutine writes them.
LEMMA ProbeStep == ProbeOK /\ [Next]_vars => ProbeOK'
<1> SUFFICES ASSUME ProbeOK, [Next]_vars PROVE ProbeOK'
  OBVIOUS
<1>1. CASE Load!RunNext
  <2>1. CASE Load!Take
    BY <2>1 DEF Load!Take, ProbeOK
  <2>2. CASE Load!Record
    <3>1. PICK t \in taken, o \in Outcomes : samples' = Append(samples, [at |-> t, outcome |-> o])
      BY <2>2 DEF Load!Record
    <3>2. [at |-> t, outcome |-> o] \in [at : Instants, outcome : Outcomes]
      BY DEF ProbeOK
    <3>3. samples' \in Seq([at : Instants, outcome : Outcomes])
      BY <3>1, <3>2 DEF ProbeOK
    <3> QED BY <2>2, <3>3 DEF Load!Record, ProbeOK
  <2>3. CASE Load!StopTaking
    BY <2>3 DEF Load!StopTaking, ProbeOK
  <2>4. CASE Load!HandOver
    BY <2>4 DEF Load!HandOver, ProbeOK
  <2> QED BY <1>1, <2>1, <2>2, <2>3, <2>4 DEF Load!RunNext
<1>2. CASE UNCHANGED probeVars
  BY <1>2 DEF probeVars, ProbeOK
<1> QED BY <1>1, <1>2, ProbeOrNot

\* How many calls were begun in each phase.
CallsInv == \/ pc \in SetUp    /\ injects = 0 /\ rollbacks = 0
            \/ pc \in Injected /\ injects = 1 /\ rollbacks = 0
            \/ pc \in {"rolling back", "reporting"} /\ injects = 1 /\ rollbacks = 1
            \/ pc = "exited"   /\ injects \in {0, 1} /\ rollbacks = injects

LEMMA CallsStep == CallsInv /\ [Next]_vars => CallsInv'
<1> SUFFICES ASSUME CallsInv, [Next]_vars PROVE CallsInv'
  OBVIOUS
<1> USE DEF mainVars, probeVars, faultVars, historyVars
<1>i. pc \in Injected => injects = 1 /\ rollbacks = 0
  BY DEF CallsInv, SetUp, Injected
<1>r. ASSUME pc \in Injected, rollbacks' = rollbacks + 1, injects' = injects, pc' = "rolling back"
      PROVE  CallsInv'
  <2>1. injects = 1 /\ rollbacks = 0
    BY <1>i, <1>r
  <2>2. injects' = 1
    BY <2>1, <1>r
  <2>3. rollbacks' = 0 + 1
    BY <2>1, <1>r
  <2>4. rollbacks' = 1
    BY <2>3
  <2> QED BY <2>2, <2>4, <1>r DEF CallsInv
<1>1. CASE Signal
  BY <1>1 DEF Signal, CallsInv, SetUp, Injected
<1>2. CASE TimerFires
  BY <1>2 DEF TimerFires, CallsInv, SetUp, Injected
<1>3. CASE Advance
  BY <1>3 DEF Advance, CallsInv, SetUp, Injected
<1>4. CASE FaultChanges
  BY <1>4 DEF FaultChanges, CallsInv, SetUp, Injected
<1>5. CASE ProbeTick
  BY <1>5 DEF ProbeTick, CallsInv, SetUp, Injected
<1>6. CASE ProbeSample
  BY <1>6 DEF ProbeSample, CallsInv, SetUp, Injected
<1>7. CASE ProbeStop
  BY <1>7 DEF ProbeStop, CallsInv, SetUp, Injected
<1>8. CASE ProbeReturn
  BY <1>8 DEF ProbeReturn, CallsInv, SetUp, Injected
<1>9. CASE SetupFails
  BY <1>9 DEF SetupFails, Exit, CallsInv, SetUp, Injected
<1>10. CASE StartBaseline
  BY <1>10 DEF StartBaseline, Sleep, CallsInv, SetUp, Injected
<1>11. CASE AbortBaseline
  BY <1>11 DEF AbortBaseline, CancelProbe, Exit, CallsInv, SetUp, Injected
<1>12. CASE BeginInject
  BY <1>12 DEF BeginInject, CallsInv, SetUp, Injected
<1>13. CASE InjectReturns
  BY <1>13 DEF InjectReturns, Sleep, CallsInv, SetUp, Injected
<1>14. CASE InjectFails
  BY <1>14, <1>r DEF InjectFails, Injected
<1>15. CASE AbortObserving
  BY <1>15, <1>r DEF AbortObserving, Injected
<1>16. CASE EndObservation
  BY <1>16 DEF EndObservation, CancelProbe, CallsInv, SetUp, Injected
<1>17. CASE Judge
  <2>1. CASE UsePrometheus
    BY <1>17, <1>i, <2>1 DEF Judge, AfterVerdict, CallsInv, Injected
  <2>2. CASE ~UsePrometheus
    BY <1>17, <1>r, <2>2 DEF Judge, AfterVerdict, Injected
  <2> QED BY <2>1, <2>2
<1>18. CASE ServerView
  BY <1>18, <1>r DEF ServerView, Injected
<1>19. CASE RollbackEnds
  BY <1>19 DEF RollbackEnds, CancelProbe, Exit, CallsInv, SetUp, Injected
<1>20. CASE Report
  BY <1>20 DEF Report, Exit, CallsInv, SetUp, Injected
<1>21. CASE UNCHANGED vars
  BY <1>21 DEF vars, CallsInv, SetUp, Injected
<1> QED
  BY <1>1, <1>2, <1>3, <1>4, <1>5, <1>6, <1>7, <1>8, <1>9, <1>10, <1>11, <1>12, <1>13, <1>14, <1>15,
     <1>16, <1>17, <1>18, <1>19, <1>20, <1>21
  DEF Next, Time, Probe, Main, Environment, Exited

\* Where a fault can stand: not before the injection, and after the rollback only
\* if that failed or could not know of it.
StandInv == /\ pc \in SetUp => ~standing
            /\ pc \in {"reporting", "exited"} => (standing => rollbackErr \/ blind)

LEMMA StandStep == FlagsOK /\ CallsInv /\ StandInv /\ [Next]_vars => StandInv'
<1> SUFFICES ASSUME FlagsOK, CallsInv, StandInv, [Next]_vars PROVE StandInv'
  OBVIOUS
<1> USE DEF StandInv, SetUp, Injected, mainVars, probeVars, faultVars, historyVars
<1>1. CASE Signal
  BY <1>1 DEF Signal
<1>2. CASE TimerFires
  BY <1>2 DEF TimerFires
<1>3. CASE Advance
  BY <1>3 DEF Advance
<1>4. CASE FaultChanges
  <2>1. Inj!Strike => pc = "injecting"
    BY DEF Inj!Strike, InjectorCall
  <2> QED BY <1>4, <2>1 DEF FaultChanges, Inj!Strike, Inj!Disturb
<1>5. CASE ProbeTick
  BY <1>5 DEF ProbeTick
<1>6. CASE ProbeSample
  BY <1>6 DEF ProbeSample
<1>7. CASE ProbeStop
  BY <1>7 DEF ProbeStop
<1>8. CASE ProbeReturn
  BY <1>8 DEF ProbeReturn
<1>9. CASE SetupFails
  BY <1>9 DEF SetupFails, Exit
<1>10. CASE StartBaseline
  BY <1>10 DEF StartBaseline, Sleep
<1>11. CASE AbortBaseline
  BY <1>11 DEF AbortBaseline, CancelProbe, Exit
<1>12. CASE BeginInject
  BY <1>12 DEF BeginInject
<1>13. CASE InjectReturns
  BY <1>13 DEF InjectReturns
<1>14. CASE InjectFails
  BY <1>14 DEF InjectFails
<1>15. CASE AbortObserving
  BY <1>15 DEF AbortObserving
<1>16. CASE EndObservation
  BY <1>16 DEF EndObservation, CancelProbe
<1>17. CASE Judge
  BY <1>17 DEF Judge, AfterVerdict, Sleep
<1>18. CASE ServerView
  BY <1>18 DEF ServerView
<1>19. CASE RollbackEnds
  <2>1. pc' \in {"reporting", "exited"} /\ injects' = injects /\ injects = 1
    BY <1>19 DEF RollbackEnds, Exit, CallsInv
  <2>2. ~rollbackErr' => InjectorCall' = "rolled back"
    BY <2>1 DEF InjectorCall
  <2>3. ~rollbackErr' => ~standing' \/ blind'
    BY <1>19, <2>2 DEF RollbackEnds, Inj!Undo
  <2> QED BY <2>1, <2>3
<1>20. CASE Report
  BY <1>20 DEF Report, Exit
<1>21. CASE UNCHANGED vars
  BY <1>21 DEF vars
<1> QED
  BY <1>1, <1>2, <1>3, <1>4, <1>5, <1>6, <1>7, <1>8, <1>9, <1>10, <1>11, <1>12, <1>13, <1>14, <1>15,
     <1>16, <1>17, <1>18, <1>19, <1>20, <1>21
  DEF Next, Time, Probe, Main, Environment, Exited

TypeInv == FlagsOK /\ TimesOK /\ StatesOK /\ ProbeOK /\ CallsInv /\ StandInv

LEMMA TypeAlways == Spec => []TypeInv
<1>1. Init => FlagsOK /\ StandInv
  BY DEF Init, FlagsOK, StandInv, SetUp
<1>2. Init => TimesOK
  BY DEF Init, TimesOK
<1>3. Init => StatesOK /\ CallsInv
  BY DEF Init, StatesOK, CallsInv, SetUp, Injected
<1>4. Init => ProbeOK
  BY DEF Init, Load!RunInit, ProbeOK
<1> QED
  BY <1>1, <1>2, <1>3, <1>4, FlagsStep, TimesStep, StatesStep, ProbeStep, CallsStep, StandStep, PTL
  DEF Spec, TypeInv

LEMMA CallsInvOK == CallsInv => CallsOK /\ rollbacks <= injects
<1> SUFFICES ASSUME CallsInv PROVE CallsOK /\ rollbacks <= injects
  OBVIOUS
<1>1. \/ injects = 0 /\ rollbacks = 0
      \/ injects = 1 /\ rollbacks = 0
      \/ injects = 1 /\ rollbacks = 1
  BY DEF CallsInv
<1> QED BY <1>1 DEF CallsOK

\* Every variable of a run keeps its type.
THEOREM HarnessTypeCorrect == Spec => []TypeOK
<1>1. TypeInv => TypeOK
  BY TypeParts, CallsInvOK DEF TypeInv
<1> QED BY <1>1, TypeAlways, PTL

\* Whatever way a run ends, an injection begun was followed by exactly one
\* rollback, and only a failed or a blind one leaves the fault standing.
THEOREM InjectionsAreRolledBack == Spec => []EveryInjectionIsRolledBack
<1>1. CallsInv => (pc = "exited" => rollbacks = injects)
  BY DEF CallsInv, SetUp, Injected
<1>2. StandInv => (pc = "exited" => (standing => rollbackErr \/ blind))
  BY DEF StandInv
<1>3. TypeInv => EveryInjectionIsRolledBack
  BY <1>1, <1>2, CallsInvOK DEF TypeInv, EveryInjectionIsRolledBack
<1> QED BY <1>3, TypeAlways, PTL

(***************************************************************************)
(* What is judged, and when.                                               *)
(***************************************************************************)

\* The steps of the probe's goroutine and of the API server leave the main
\* goroutine's variables alone.
Mine == <<clock, ctxDone, pc, wake, deadline, injectedAt, failed, exitCode, probeDone, verdict,
          injects, rollbacks, rollbackErr, writeErr, stoppedAt>>

LEMMA OthersStep == Probe \/ FaultChanges => UNCHANGED Mine
<1> USE DEF Mine, mainVars, historyVars
<1>1. FaultChanges => UNCHANGED Mine
  BY DEF FaultChanges, probeVars
<1>2. Probe => UNCHANGED Mine
  BY DEF Probe, ProbeTick, ProbeSample, ProbeStop, ProbeReturn
<1> QED BY <1>1, <1>2

\* Where a verdict and an error can be.
VerdictInv ==
  /\ pc \in SetUp \union {"injecting", "observing", "joining"} => verdict = "none" /\ ~failed
  /\ pc \in {"settling", "reporting"} => verdict # "none" /\ ~failed
  /\ pc = "rolling back" => (failed <=> verdict = "none")
  /\ pc # "exited" => ~writeErr

LEMMA VerdictStep == StatesOK /\ FlagsOK /\ VerdictInv /\ [Next]_vars => VerdictInv'
<1> SUFFICES ASSUME StatesOK, FlagsOK, VerdictInv, [Next]_vars PROVE VerdictInv'
  OBVIOUS
<1> USE DEF VerdictInv, SetUp, mainVars, probeVars, faultVars, historyVars
<1>u. ASSUME pc' = pc, verdict' = verdict, failed' = failed, writeErr' = writeErr PROVE VerdictInv'
  BY <1>u
<1>1. CASE Probe \/ FaultChanges
  BY <1>1, <1>u, OthersStep DEF Mine
<1>2. CASE Signal
  BY <1>2 DEF Signal
<1>3. CASE Time
  BY <1>3, <1>u DEF Time, TimerFires, Advance
<1>4. CASE SetupFails
  BY <1>4 DEF SetupFails, Exit
<1>5. CASE StartBaseline
  BY <1>5 DEF StartBaseline
<1>6. CASE AbortBaseline
  BY <1>6 DEF AbortBaseline, Exit
<1>7. CASE BeginInject
  BY <1>7 DEF BeginInject
<1>8. CASE InjectReturns
  BY <1>8 DEF InjectReturns
<1>9. CASE InjectFails
  BY <1>9 DEF InjectFails
<1>10. CASE AbortObserving
  BY <1>10 DEF AbortObserving
<1>11. CASE EndObservation
  BY <1>11 DEF EndObservation
<1>12. CASE Judge
  <2>1. verdict' # "none" /\ ~failed' /\ ~writeErr'
    BY <1>12 DEF Judge
  <2>2. pc' \in {"settling", "rolling back"}
    BY <1>12 DEF Judge, AfterVerdict
  <2> QED BY <2>1, <2>2
<1>13. CASE ServerView
  BY <1>13 DEF ServerView
<1>14. CASE RollbackEnds
  BY <1>14 DEF RollbackEnds, Exit
<1>15. CASE Report
  BY <1>15 DEF Report, Exit
<1>16. CASE UNCHANGED vars
  BY <1>16 DEF vars
<1> QED
  BY <1>1, <1>2, <1>3, <1>4, <1>5, <1>6, <1>7, <1>8, <1>9, <1>10, <1>11, <1>12, <1>13, <1>14, <1>15,
     <1>16
  DEF Next, Main, Environment, Exited

\* The exit status that the phases lead to.
LEMMA ExitStep ==
  ASSUME StatesOK, FlagsOK, CallsInv, VerdictInv, ExitCodeTellsTheVerdict, [Next]_vars
  PROVE  ExitCodeTellsTheVerdict'
<1> USE DEF ExitCodeTellsTheVerdict, mainVars, probeVars, faultVars, historyVars
<1>1. CASE pc' # "exited"
  BY <1>1
<1>2. CASE pc = "exited"
  <2>1. UNCHANGED Mine
    BY <1>2, OthersStep
    DEF Next, Time, TimerFires, Sleeping, Advance, Main, SetupFails, StartBaseline, AbortBaseline,
        BeginInject, InjectReturns, InjectFails, AbortObserving, EndObservation, Judge, ServerView,
        RollbackEnds, Report, Environment, Signal, Exited, vars, Mine
  <2> QED BY <2>1, <1>2 DEF Mine
<1>3. ASSUME pc # "exited", pc' = "exited" PROVE ExitCodeTellsTheVerdict'
  <2>1. SetupFails \/ AbortBaseline \/ RollbackEnds \/ Report
    BY <1>3, OthersStep
    DEF Next, Time, TimerFires, Advance, Main, StartBaseline, BeginInject, InjectReturns, InjectFails,
        AbortObserving, EndObservation, Judge, AfterVerdict, ServerView, Environment, Signal, Exited,
        vars, Mine
  <2>2. CASE SetupFails
    <3>1. verdict' = "none" /\ injects' = 0
      BY <2>2 DEF SetupFails, VerdictInv, CallsInv, SetUp, Injected
    <3> QED BY <3>1
  <2>3. CASE AbortBaseline
    <3>1. verdict' = "none" /\ exitCode' = 1
      BY <2>3 DEF AbortBaseline, Exit, VerdictInv, SetUp
    <3> QED BY <3>1
  <2>4. CASE RollbackEnds
    <3>1. failed
      BY <2>4, <1>3 DEF RollbackEnds
    <3>2. verdict' = "none" /\ exitCode' = 1
      BY <2>4, <3>1 DEF RollbackEnds, Exit, VerdictInv
    <3> QED BY <3>2
  <2>5. CASE Report
    <3>1. verdict' = verdict /\ verdict # "none" /\ ~writeErr
      BY <2>5 DEF Report, VerdictInv
    <3>2. \/ writeErr' /\ exitCode' = 1
          \/ ~writeErr' /\ verdict = "pass" /\ exitCode' = 0
          \/ ~writeErr' /\ verdict # "pass" /\ exitCode' = 1
      BY <2>5, <3>1 DEF Report, Exit
    <3> QED BY <3>1, <3>2
  <2> QED BY <2>1, <2>2, <2>3, <2>4, <2>5
<1> QED BY <1>1, <1>2, <1>3

\* The process exits with 0 exactly on a PASS whose report was written.
THEOREM ExitCodeIsTheVerdict == Spec => []ExitCodeTellsTheVerdict
<1>1. Init => VerdictInv /\ ExitCodeTellsTheVerdict
  BY DEF Init, VerdictInv, ExitCodeTellsTheVerdict
<1>2. TypeInv /\ VerdictInv /\ ExitCodeTellsTheVerdict /\ [Next]_vars
        => VerdictInv' /\ ExitCodeTellsTheVerdict'
  BY VerdictStep, ExitStep DEF TypeInv
<1> QED BY <1>1, <1>2, TypeAlways, PTL DEF Spec

\* Which context is done in which phase.
ContextInv ==
  /\ pc \in SetUp \union {"injecting", "observing"} => ~probeDone
  /\ pc \in {"joining", "settling"} \/ verdict # "none" => probeDone
  /\ Sleeping /\ wake = "none" => ~ctxDone

LEMMA ContextStep ==
  ASSUME StatesOK, FlagsOK, VerdictInv, ContextInv, [Next]_vars
  PROVE  ContextInv'
<1> USE DEF ContextInv, SetUp, Sleeping, mainVars, probeVars, faultVars, historyVars
<1>u. ASSUME pc' = pc, wake' = wake, verdict' = verdict, probeDone' = probeDone, ctxDone' = ctxDone
      PROVE  ContextInv'
  BY <1>u
<1>1. CASE Probe \/ FaultChanges
  BY <1>1, <1>u, OthersStep DEF Mine
<1>2. CASE Signal
  BY <1>2 DEF Signal
<1>3. CASE TimerFires
  BY <1>3 DEF TimerFires
<1>4. CASE Advance
  BY <1>4, <1>u DEF Advance
<1>5. CASE SetupFails
  BY <1>5 DEF SetupFails, Exit
<1>6. CASE StartBaseline
  BY <1>6 DEF StartBaseline, Sleep
<1>7. CASE AbortBaseline
  BY <1>7 DEF AbortBaseline, CancelProbe, Exit
<1>8. CASE BeginInject
  BY <1>8 DEF BeginInject
<1>9. CASE InjectReturns
  BY <1>9 DEF InjectReturns, Sleep
<1>10. CASE InjectFails
  BY <1>10 DEF InjectFails
<1>11. CASE AbortObserving
  BY <1>11 DEF AbortObserving
<1>12. CASE EndObservation
  BY <1>12 DEF EndObservation, CancelProbe
<1>13. CASE Judge
  <2>1. probeDone'
    BY <1>13 DEF Judge
  <2>2. CASE UsePrometheus
    BY <1>13, <2>1, <2>2 DEF Judge, AfterVerdict, Sleep
  <2>3. CASE ~UsePrometheus
    BY <1>13, <2>1, <2>3 DEF Judge, AfterVerdict
  <2> QED BY <2>2, <2>3
<1>14. CASE ServerView
  BY <1>14 DEF ServerView
<1>15. CASE RollbackEnds
  BY <1>15 DEF RollbackEnds, CancelProbe, Exit
<1>16. CASE Report
  BY <1>16 DEF Report, Exit
<1>17. CASE UNCHANGED vars
  BY <1>17, <1>u DEF vars
<1> QED
  BY <1>1, <1>2, <1>3, <1>4, <1>5, <1>6, <1>7, <1>8, <1>9, <1>10, <1>11, <1>12, <1>13, <1>14, <1>15,
     <1>16, <1>17
  DEF Next, Time, Main, Environment, Exited

\* Where the clock stands when the fault is observed, and where the probe can
\* have been stopped.
ObservedInv ==
  /\ pc = "injecting" => clock >= injectedAt
  /\ pc = "observing" => deadline >= FaultEnd
  /\ pc = "observing" /\ wake = "timer" => clock >= FaultEnd /\ (ctxDone => stoppedAt >= FaultEnd)
  /\ pc \in {"joining", "settling"} \/ verdict # "none" => stoppedAt >= FaultEnd

LEMMA ObservedStep ==
  ASSUME TimesOK, StatesOK, FlagsOK, VerdictInv, ContextInv, ObservedInv, [Next]_vars
  PROVE  ObservedInv'
<1> USE TimesAssumption DEF TimesOK, ObservedInv, FaultEnd, mainVars, probeVars, faultVars, historyVars
<1>u. ASSUME pc' = pc, wake' = wake, verdict' = verdict, ctxDone' = ctxDone, stoppedAt' = stoppedAt,
             clock' = clock, deadline' = deadline, injectedAt' = injectedAt
      PROVE  ObservedInv'
  BY <1>u
<1>n. ASSUME pc' \notin {"injecting", "observing", "joining", "settling"}, verdict' = verdict,
             verdict = "none" \/ (stoppedAt' = stoppedAt /\ injectedAt' = injectedAt)
      PROVE  ObservedInv'
  BY <1>n
<1>1. CASE Probe \/ FaultChanges
  BY <1>1, <1>u, OthersStep DEF Mine
<1>2. CASE Signal
  <2>1. CASE probeDone
    <3>1. pc \notin {"injecting", "observing"} /\ stoppedAt' = stoppedAt
      BY <1>2, <2>1 DEF Signal, ContextInv, SetUp
    <3> QED BY <1>2, <3>1 DEF Signal
  <2>2. CASE ~probeDone
    <3>1. pc \notin {"joining", "settling"} /\ verdict = "none" /\ stoppedAt' = clock
      BY <1>2, <2>2 DEF Signal, ContextInv
    <3> QED BY <1>2, <3>1 DEF Signal, Sleeping
  <2> QED BY <2>1, <2>2
<1>3. CASE TimerFires
  <2>1. ~ctxDone /\ ~ctxDone'
    BY <1>3 DEF TimerFires, ContextInv
  <2> QED BY <1>3, <2>1 DEF TimerFires
<1>4. CASE Advance
  BY <1>4 DEF Advance
<1>5. CASE SetupFails \/ AbortBaseline
  <2>1. verdict = "none"
    BY <1>5 DEF SetupFails, AbortBaseline, VerdictInv, SetUp
  <2> QED BY <1>5, <1>n, <2>1 DEF SetupFails, AbortBaseline, Exit
<1>6. CASE StartBaseline
  <2>1. verdict = "none"
    BY <1>6 DEF StartBaseline, VerdictInv, SetUp
  <2> QED BY <1>6, <1>n, <2>1 DEF StartBaseline
<1>7. CASE BeginInject
  <2>1. verdict = "none"
    BY <1>7 DEF BeginInject, VerdictInv, SetUp
  <2> QED BY <1>7, <2>1 DEF BeginInject
<1>8. CASE InjectReturns
  <2>1. verdict = "none" /\ verdict' = "none"
    BY <1>8 DEF InjectReturns, VerdictInv
  <2>2. wake' # "timer"
    BY <1>8 DEF InjectReturns, Sleep
  <2>3. deadline' >= injectedAt + Fault
    BY <1>8 DEF InjectReturns, Sleep
  <2> QED BY <1>8, <2>1, <2>2, <2>3 DEF InjectReturns
<1>9. CASE InjectFails \/ AbortObserving
  <2>1. verdict = "none"
    BY <1>9 DEF InjectFails, AbortObserving, VerdictInv
  <2> QED BY <1>9, <1>n, <2>1 DEF InjectFails, AbortObserving
<1>10. CASE EndObservation
  <2>1. ~probeDone
    BY <1>10 DEF EndObservation, ContextInv
  <2>2. stoppedAt' >= FaultEnd
    BY <1>10, <2>1 DEF EndObservation, CancelProbe, ProbeCancelled
  <2>3. pc' = "joining" /\ injectedAt' = injectedAt
    BY <1>10 DEF EndObservation
  <2> QED BY <2>2, <2>3
<1>11. CASE Judge
  <2>1. stoppedAt' >= injectedAt' + Fault
    BY <1>11 DEF Judge
  <2>2. pc' \notin {"injecting", "observing"}
    BY <1>11 DEF Judge, AfterVerdict
  <2> QED BY <2>1, <2>2
<1>12. CASE ServerView \/ Report
  BY <1>12, <1>n DEF ServerView, Report, Exit
<1>13. CASE RollbackEnds
  <2>1. verdict # "none" => stoppedAt' = stoppedAt
    BY <1>13 DEF RollbackEnds, CancelProbe, ProbeCancelled, ContextInv
  <2>2. pc' \in {"exited", "reporting"} /\ verdict' = verdict /\ injectedAt' = injectedAt
    BY <1>13 DEF RollbackEnds, Exit
  <2> QED BY <1>n, <2>1, <2>2
<1>14. CASE UNCHANGED vars
  BY <1>14, <1>u DEF vars
<1> QED
  BY <1>1, <1>2, <1>3, <1>4, <1>5, <1>6, <1>7, <1>8, <1>9, <1>10, <1>11, <1>12, <1>13, <1>14
  DEF Next, Time, Main, Environment, Exited

\* A probe that has returned has recorded every tick, and is left alone by every
\* step after the verdict.
CompleteInv == /\ phase = "returned" => Load!Recorded = taken
               /\ verdict # "none" => phase = "returned"

LEMMA CompleteStep ==
  ASSUME CompleteInv, [Next]_vars
  PROVE  CompleteInv' /\ (verdict # "none" => samples' = samples)
<1> USE DEF CompleteInv
<1>1. CASE Probe
  <2>1. verdict' = verdict /\ Load!RunNext
    BY <1>1, OthersStep
    DEF Probe, ProbeTick, ProbeSample, ProbeStop, ProbeReturn, Load!RunNext, Mine
  <2>2. phase # "returned"
    BY <2>1 DEF Load!RunNext, Load!Take, Load!Record, Load!StopTaking, Load!HandOver
  <2>3. phase' = "returned" => Load!HandOver
    BY <2>1, <2>2 DEF Load!RunNext, Load!Take, Load!Record, Load!StopTaking
  <2>4. Load!HandOver => Load!Recorded' = taken'
    BY DEF Load!HandOver, Load!Recorded
  <2> QED BY <2>1, <2>2, <2>3, <2>4
<1>2. CASE ~Probe
  <2>0. UNCHANGED probeVars
    BY <1>2
    DEF Next, Time, TimerFires, Advance, Main, SetupFails, StartBaseline, AbortBaseline, BeginInject,
        InjectReturns, InjectFails, AbortObserving, EndObservation, Judge, ServerView, RollbackEnds,
        Report, Environment, Signal, FaultChanges, Exited, vars
  <2>1. verdict' = verdict \/ phase = "returned"
    BY <1>2, OthersStep
    DEF Next, Time, TimerFires, Advance, Main, SetupFails, StartBaseline, AbortBaseline, BeginInject,
        InjectReturns, InjectFails, AbortObserving, EndObservation, Judge, ServerView, RollbackEnds,
        Report, Environment, Signal, Exited, vars, Mine
  <2> QED BY <2>0, <2>1 DEF probeVars, Load!Recorded
<1> QED BY <1>1, <1>2

LEMMA ObservedAlways == Spec => [](VerdictInv /\ ContextInv /\ ObservedInv /\ CompleteInv)
<1>1. Init => VerdictInv
  BY DEF Init, VerdictInv
<1>2. Init => ContextInv
  BY DEF Init, ContextInv, Sleeping
<1>3. Init => ObservedInv
  BY DEF Init, ObservedInv
<1>4. Init => CompleteInv
  BY DEF Init, Load!RunInit, CompleteInv
<1>5. TypeInv /\ VerdictInv /\ ContextInv /\ ObservedInv /\ CompleteInv /\ [Next]_vars
        => VerdictInv' /\ ContextInv' /\ ObservedInv' /\ CompleteInv'
  BY VerdictStep, ContextStep, ObservedStep, CompleteStep DEF TypeInv
<1> QED BY <1>1, <1>2, <1>3, <1>4, <1>5, TypeAlways, PTL DEF Spec

\* Whenever the signal comes and however late a timer is, a verdict is given on a
\* window the probe covered to its end, and on all of its samples.
THEOREM WindowIsComplete == Spec => []JudgedWindowIsComplete
<1>1. VerdictInv /\ ObservedInv /\ CompleteInv => JudgedWindowIsComplete
  BY DEF ObservedInv, CompleteInv, JudgedWindowIsComplete
<1> QED BY <1>1, ObservedAlways, PTL

\* The verdict stays that of the samples: it is computed from the slice that no
\* later step changes.
THEOREM VerdictOfAllSamples == Spec => []VerdictIsOfAllSamples
<1>1. Init => VerdictIsOfAllSamples
  BY DEF Init, VerdictIsOfAllSamples
<1>2. ASSUME VerdictInv, CompleteInv, VerdictIsOfAllSamples, [Next]_vars
      PROVE  VerdictIsOfAllSamples'
  <2>1. ASSUME samples' = samples, injectedAt' = injectedAt PROVE JudgedPass' = JudgedPass
    BY <2>1 DEF JudgedPass, Measured, FaultEnd
  <2>2. CASE Judge
    <3>1. verdict' = IF JudgedPass THEN "pass" ELSE "fail"
      BY <2>2 DEF Judge
    <3>2. JudgedPass' = JudgedPass
      BY <2>1, <2>2 DEF Judge, probeVars
    <3> QED BY <3>1, <3>2 DEF VerdictIsOfAllSamples
  <2>3. CASE ~Judge
    <3>1. verdict' = verdict /\ (verdict # "none" => injectedAt' = injectedAt)
      BY <1>2, <2>3, OthersStep
      DEF Next, Time, TimerFires, Advance, Main, SetupFails, StartBaseline, AbortBaseline, BeginInject,
          InjectReturns, InjectFails, AbortObserving, EndObservation, ServerView, RollbackEnds, Report,
          Environment, Signal, Exited, vars, mainVars, Mine, VerdictInv, SetUp
    <3>2. verdict # "none" => samples' = samples
      BY <1>2, CompleteStep
    <3> QED BY <1>2, <2>1, <3>1, <3>2 DEF VerdictIsOfAllSamples
  <2> QED BY <2>2, <2>3
<1> QED BY <1>1, <1>2, ObservedAlways, PTL DEF Spec
=============================================================================
