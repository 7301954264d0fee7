--------------------------- MODULE PodFaultProofs ---------------------------
(***************************************************************************)
(* Proofs about the two injectors whose fault is on pods.  ResourcePressure *)
(* comes first: any number of processes, overlapping or not, any set of    *)
(* names and every failure.  Then PodKill, which shares no variable with   *)
(* it: any pods, any count, any number of replacements, every failure.     *)
(***************************************************************************)
EXTENDS ResourcePressure, PodKill, Integers, TLAPS, FiniteSetTheorems

States == {"list", "create", "injected", "done", "killed"}

StateOK == /\ hogs \in [Names -> Runs \union {None}]
           /\ pc \in [Runs -> States]
           /\ podName \in [Runs -> Names \union {None}]

HistoryOK == /\ injectErr \subseteq Runs /\ rollbackErr \subseteq Runs
             /\ lost \subseteq Runs
             /\ robbed \subseteq Runs /\ victims \subseteq Runs

\* No process has more than one hog, and none before it creates one.
OneHog == /\ \A m, n \in Names : hogs[m] = hogs[n] /\ hogs[m] # None => m = n
          /\ \A n \in Names : hogs[n] # None => pc[hogs[n]] \notin {"list", "create"}

\* What a process has recorded at which call.
RecordInv ==
  \A h \in Runs :
    /\ podName[h] # None => pc[h] \in {"injected", "done"}
    /\ pc[h] = "injected" /\ podName[h] = None => h \in injectErr
    /\ h \in rollbackErr => pc[h] = "done"

\* A process that has still to roll back knows its hog by its name, or the answer to
\* the Create was lost; and the pod of that name is its hog, or others deleted that.
OwnHog ==
  /\ \A h \in Runs, n \in Names :
       pc[h] = "injected" /\ hogs[n] = h => podName[h] = n \/ h \in lost
  /\ \A h \in Runs :
       pc[h] = "injected" /\ podName[h] # None => \/ hogs[podName[h]] = h
                                                  \/ h \in robbed \union victims

TypeInv == StateOK /\ HistoryOK /\ OneHog /\ RecordInv

LEMMA InitType == Init => TypeInv
BY NoneAssumption DEF Init, TypeInv, StateOK, HistoryOK, OneHog, RecordInv, States

LEMMA StepState == TypeInv /\ [Next]_vars => StateOK'
<1> SUFFICES ASSUME TypeInv, [Next]_vars PROVE StateOK'
  OBVIOUS
<1> USE DEF TypeInv, StateOK, States, Step, InjectFails, DeleteByName
<1>1. ASSUME NEW n \in Names, OthersDelete(n) PROVE StateOK'
  BY <1>1 DEF OthersDelete
<1>2. ASSUME NEW h \in Runs, List(h) PROVE StateOK'
  BY <1>2 DEF List
<1>3. ASSUME NEW h \in Runs, Create(h) PROVE StateOK'
  BY <1>3 DEF Create
<1>4. ASSUME NEW h \in Runs, Rollback(h) PROVE StateOK'
  BY <1>4 DEF Rollback
<1>5. ASSUME NEW h \in Runs, Kill(h) PROVE StateOK'
  BY <1>5 DEF Kill
<1>6. CASE UNCHANGED vars
  BY <1>6 DEF vars
<1> QED BY <1>1, <1>2, <1>3, <1>4, <1>5, <1>6 DEF Next, Over

LEMMA StepHistory == TypeInv /\ [Next]_vars => HistoryOK'
<1> SUFFICES ASSUME TypeInv, [Next]_vars PROVE HistoryOK'
  OBVIOUS
<1> USE DEF TypeInv, StateOK, HistoryOK, InjectFails, DeleteByName
<1>1. ASSUME NEW n \in Names, OthersDelete(n) PROVE HistoryOK'
  BY <1>1 DEF OthersDelete
<1>2. ASSUME NEW h \in Runs, List(h) PROVE HistoryOK'
  BY <1>2 DEF List
<1>3. ASSUME NEW h \in Runs, Create(h) PROVE HistoryOK'
  BY <1>3 DEF Create
<1>4. ASSUME NEW h \in Runs, Rollback(h) PROVE HistoryOK'
  BY <1>4 DEF Rollback
<1>5. ASSUME NEW h \in Runs, Kill(h) PROVE HistoryOK'
  BY <1>5 DEF Kill
<1>6. CASE UNCHANGED vars
  BY <1>6 DEF vars
<1> QED BY <1>1, <1>2, <1>3, <1>4, <1>5, <1>6 DEF Next, Over

LEMMA StepOneHog == TypeInv /\ [Next]_vars => OneHog'
<1> SUFFICES ASSUME TypeInv, [Next]_vars PROVE OneHog'
  OBVIOUS
<1> USE NoneAssumption DEF TypeInv, StateOK, OneHog, Step, InjectFails, DeleteByName
<1>1. ASSUME NEW n \in Names, OthersDelete(n) PROVE OneHog'
  BY <1>1 DEF OthersDelete
<1>2. ASSUME NEW h \in Runs, List(h) PROVE OneHog'
  BY <1>2 DEF List
<1>3. ASSUME NEW h \in Runs, Create(h) PROVE OneHog'
  BY <1>3 DEF Create
<1>4. ASSUME NEW h \in Runs, Rollback(h) PROVE OneHog'
  BY <1>4 DEF Rollback
<1>5. ASSUME NEW h \in Runs, Kill(h) PROVE OneHog'
  BY <1>5 DEF Kill
<1>6. CASE UNCHANGED vars
  BY <1>6 DEF vars
<1> QED BY <1>1, <1>2, <1>3, <1>4, <1>5, <1>6 DEF Next, Over

LEMMA StepRecord == TypeInv /\ [Next]_vars => RecordInv'
<1> SUFFICES ASSUME TypeInv, [Next]_vars PROVE RecordInv'
  OBVIOUS
<1> USE NoneAssumption DEF TypeInv, StateOK, RecordInv, Step, InjectFails
<1>1. ASSUME NEW n \in Names, OthersDelete(n) PROVE RecordInv'
  BY <1>1 DEF OthersDelete
<1>2. ASSUME NEW h \in Runs, List(h) PROVE RecordInv'
  BY <1>2 DEF List
<1>3. ASSUME NEW h \in Runs, Create(h) PROVE RecordInv'
  BY <1>3 DEF Create
<1>4. ASSUME NEW h \in Runs, Rollback(h) PROVE RecordInv'
  BY <1>4 DEF Rollback
<1>5. ASSUME NEW h \in Runs, Kill(h) PROVE RecordInv'
  BY <1>5 DEF Kill
<1>6. CASE UNCHANGED vars
  BY <1>6 DEF vars
<1> QED BY <1>1, <1>2, <1>3, <1>4, <1>5, <1>6 DEF Next, Over

LEMMA TypeAlways == Spec => []TypeInv
<1>1. TypeInv /\ [Next]_vars => TypeInv'
  BY StepState, StepHistory, StepOneHog, StepRecord DEF TypeInv
<1> QED BY <1>1, InitType, PTL DEF Spec

\* The variables stay in their ranges, and no process has two hogs.
THEOREM ResourcePressureTypeCorrect == Spec => []TypeOK
<1>1. TypeInv => TypeOK
  BY DEF TypeInv, StateOK, HistoryOK, OneHog, States, TypeOK
<1> QED BY <1>1, TypeAlways, PTL

-----------------------------------------------------------------------------
LEMMA StepOwnHog == TypeInv /\ OwnHog /\ [Next]_vars => OwnHog'
<1> SUFFICES ASSUME TypeInv, OwnHog, [Next]_vars PROVE OwnHog'
  OBVIOUS
<1> USE NoneAssumption DEF TypeInv, StateOK, OwnHog, Step, InjectFails, DeleteByName
<1>1. ASSUME NEW n \in Names, OthersDelete(n) PROVE OwnHog'
  BY <1>1 DEF OthersDelete
<1>2. ASSUME NEW h \in Runs, List(h) PROVE OwnHog'
  BY <1>2 DEF List, OneHog, RecordInv
<1>3. ASSUME NEW h \in Runs, Create(h) PROVE OwnHog'
  BY <1>3 DEF Create, OneHog, RecordInv
<1>4. ASSUME NEW h \in Runs, Rollback(h) PROVE OwnHog'
  BY <1>4 DEF Rollback
<1>5. ASSUME NEW h \in Runs, Kill(h) PROVE OwnHog'
  BY <1>5 DEF Kill
<1>6. CASE UNCHANGED vars
  BY <1>6 DEF vars
<1> QED BY <1>1, <1>2, <1>3, <1>4, <1>5, <1>6 DEF Next, Over

\* No process deletes the hog of another unless others have deleted a hog before.
NoVictims == robbed = {} => victims = {}

LEMMA StepNoVictims == TypeInv /\ OwnHog /\ NoVictims /\ [Next]_vars => NoVictims'
<1> SUFFICES ASSUME TypeInv, OwnHog, NoVictims, [Next]_vars PROVE NoVictims'
  OBVIOUS
<1> USE DEF NoVictims
<1>1. ASSUME NEW n \in Names, OthersDelete(n) PROVE NoVictims'
  BY <1>1 DEF OthersDelete
<1>2. ASSUME NEW h \in Runs, List(h) \/ Create(h) \/ Kill(h) PROVE NoVictims'
  BY <1>2 DEF List, Create, Kill
<1>3. ASSUME NEW h \in Runs, Rollback(h) PROVE NoVictims'
  BY <1>3 DEF Rollback, DeleteByName, OwnHog
<1>4. CASE UNCHANGED vars
  BY <1>4 DEF vars
<1> QED BY <1>1, <1>2, <1>3, <1>4 DEF Next, Over

LEMMA OwnAlways == Spec => [](TypeInv /\ OwnHog /\ NoVictims)
<1>1. Init => OwnHog /\ NoVictims
  BY NoneAssumption DEF Init, OwnHog, NoVictims
<1> QED BY <1>1, StepOwnHog, StepNoVictims, TypeAlways, PTL DEF Spec

\* The pressure of every run that reports success is its own hog, whatever names are
\* drawn and however many processes create and delete hogs by name.
THEOREM PressureIsOwn == Spec => []PressureStands
<1>1. TypeInv /\ OwnHog /\ NoVictims => PressureStands
  BY NoneAssumption DEF TypeInv, StateOK, RecordInv, OwnHog, NoVictims, PressureStands, HogOf
<1> QED BY <1>1, OwnAlways, PTL

-----------------------------------------------------------------------------
(***************************************************************************)
(* The contract of Injector.                                               *)
(***************************************************************************)
Standing(h) == HogOf(h) # {}

Steps(h) == Contract(h)!InjectorNext \/ UNCHANGED Contract(h)!injectorVars

\* Which call a process is in, by the next call it makes.
LEMMA Calls ==
  ASSUME NEW h
  PROVE  /\ pc[h] = "list" => CallOf(h) = "idle"
         /\ pc[h] = "create" => CallOf(h) = "injecting"
         /\ pc[h] = "injected" => CallOf(h) = "injected"
         /\ pc[h] = "done" => CallOf(h) = IF h \in rollbackErr THEN "failed" ELSE "rolled back"
         /\ pc[h] = "killed" => CallOf(h) = "killed"
BY Zenon DEF CallOf

LEMMA CallsNext ==
  ASSUME NEW h
  PROVE  /\ pc'[h] = "create" => CallOf(h)' = "injecting"
         /\ pc'[h] = "injected" => CallOf(h)' = "injected"
         /\ pc'[h] = "done" => CallOf(h)' = IF h \in rollbackErr' THEN "failed" ELSE "rolled back"
         /\ pc'[h] = "killed" => CallOf(h)' = "killed"
BY Zenon DEF CallOf

\* The steps of the contract, for a process of which call and hog are known.
LEMMA ContractSteps ==
  ASSUME NEW h \in Runs,
         \/ Contract(h)!Begin \/ Contract(h)!Strike \/ Contract(h)!StrikeUnanswered
         \/ Contract(h)!Return \/ Contract(h)!Undo \/ Contract(h)!Die \/ Contract(h)!Disturb
         \/ UNCHANGED <<CallOf(h), Standing(h), h \in lost>>
  PROVE  Steps(h)
BY DEF Steps, Contract!InjectorNext, Contract!injectorVars, Standing

\* What others do is to this process a stutter, or undoes its fault.
LEMMA OthersStep ==
  ASSUME NEW h \in Runs, UNCHANGED <<pc[h], h \in rollbackErr, h \in lost>>,
         Standing(h)' => Standing(h)
  PROVE  Steps(h)
<1>1. CallOf(h)' = CallOf(h)
  BY DEF CallOf
<1> QED BY <1>1, ContractSteps DEF Contract!Disturb, Standing

LEMMA ContractStep ==
  ASSUME TypeInv, OwnHog, [Next]_vars, NEW h \in Runs PROVE Steps(h)
<1> USE NoneAssumption DEF TypeInv, StateOK, HistoryOK, Step, InjectFails
<1>0. UNCHANGED hogs => Standing(h)' = Standing(h)
  BY DEF Standing, HogOf
<1>1. ASSUME NEW n \in Names, OthersDelete(n) PROVE Steps(h)
  <2>1. Standing(h)' => Standing(h)
    BY <1>1 DEF OthersDelete, Standing, HogOf
  <2> QED BY <1>1, <2>1, OthersStep DEF OthersDelete
<1>2. ASSUME NEW g \in Runs \ {h}, List(g) \/ Create(g) \/ Rollback(g) \/ Kill(g) PROVE Steps(h)
  <2>1. Standing(h)' => Standing(h)
    BY <1>2 DEF List, Create, Rollback, Kill, DeleteByName, Standing, HogOf
  <2>2. UNCHANGED <<pc[h], h \in rollbackErr, h \in lost>>
    BY <1>2 DEF List, Create, Rollback, Kill
  <2> QED BY <2>1, <2>2, OthersStep
<1>3. CASE List(h)
  <2>1. /\ CallOf(h) = "idle" /\ CallOf(h)' \in {"injecting", "injected"}
        /\ Standing(h)' = Standing(h) /\ UNCHANGED lost
    BY <1>0, <1>3, Calls, CallsNext DEF List
  <2> QED BY <2>1, ContractSteps DEF Contract!Begin, Standing
<1>4. CASE Create(h)
  <2>1. CallOf(h) = "injecting" /\ CallOf(h)' = "injected"
    BY <1>4, Calls, CallsNext DEF Create
  <2>2. CASE UNCHANGED <<hogs, lost>>
    BY <1>0, <2>1, <2>2, ContractSteps DEF Contract!Return, Standing
  <2>3. ASSUME NEW n \in Names, hogs' = [hogs EXCEPT ![n] = h] PROVE Standing(h)'
    BY <2>3 DEF Standing, HogOf
  <2>4. CASE Standing(h)' /\ UNCHANGED lost
    BY <2>1, <2>4, ContractSteps DEF Contract!Strike, Standing
  <2>5. CASE Standing(h)' /\ lost' = lost \union {h}
    BY <2>1, <2>5, ContractSteps DEF Contract!StrikeUnanswered, Standing
  <2> QED BY <1>4, <2>2, <2>3, <2>4, <2>5 DEF Create
<1>5. CASE Rollback(h)
  <2>1. /\ CallOf(h) = "injected" /\ UNCHANGED lost
        /\ CallOf(h)' = IF h \in rollbackErr' THEN "failed" ELSE "rolled back"
    BY <1>5, Calls, CallsNext DEF Rollback
  <2>2. Standing(h)' => Standing(h)
    BY <1>5 DEF Rollback, DeleteByName, Standing, HogOf
  <2>3. h \notin rollbackErr' => ~Standing(h)' \/ h \in lost
    BY <1>5 DEF Rollback, DeleteByName, Standing, HogOf, OwnHog
  <2> QED BY <2>1, <2>2, <2>3, ContractSteps DEF Contract!Undo, Standing
<1>6. CASE Kill(h)
  <2>1. /\ CallOf(h) \in {"injecting", "injected"} /\ CallOf(h)' = "killed"
        /\ Standing(h)' = Standing(h) /\ UNCHANGED lost
    BY <1>0, <1>6, Calls, CallsNext DEF Kill
  <2> QED BY <2>1, ContractSteps DEF Contract!Die, Standing
<1>7. CASE UNCHANGED vars
  BY <1>0, <1>7, OthersStep DEF vars
<1> QED BY <1>1, <1>2, <1>3, <1>4, <1>5, <1>6, <1>7 DEF Next, Over

\* Each process is an Injector: the fault it stands for is its hog.
THEOREM ResourcePressureKeepsContract == Spec => ImplementsInjector
<1>1. Init => \A h \in Runs : Contract(h)!InjectorInit
  <2> SUFFICES ASSUME Init, NEW h \in Runs PROVE Contract(h)!InjectorInit
    OBVIOUS
  <2>1. CallOf(h) = "idle" /\ ~Standing(h) /\ h \notin lost
    BY NoneAssumption, Calls DEF Init, Standing, HogOf
  <2> QED BY <2>1 DEF Contract!InjectorInit, Standing
<1>2. TypeInv /\ OwnHog /\ [Next]_vars =>
        \A h \in Runs : Contract(h)!InjectorNext \/ UNCHANGED Contract(h)!injectorVars
  BY ContractStep DEF Steps
<1> QED BY <1>1, <1>2, OwnAlways, PTL DEF Spec, ImplementsInjector

-----------------------------------------------------------------------------
(* PodKill. *)

\* An identity is used once, a name by one pod at a time.
PodsInv == /\ IsFiniteSet(pods) /\ dying \subseteq pods /\ nextUid \in Nat
           /\ \A p \in pods \union listed : p.uid \in Nat /\ p.uid < nextUid
           /\ \A p, q \in pods : p.name = q.name => p = q

\* What is or was to be killed was found running; what is reported is not any more.
ChoiceInv == /\ chosen \union killed \subseteq NamesOf(listed)
             /\ chosen \intersect killed = {}
             /\ \A p \in listed : p.name \in killed => p \notin Running

\* The Deletes that reached a pod and those still to make are no more than count, and
\* until an answer is lost each pod reached is reported.
ReachInv == /\ count \in Nat /\ IsFiniteSet(hit) /\ IsFiniteSet(chosen)
            /\ phase \in {"list", "delete", "returned"}
            /\ phase = "list" => chosen = {} /\ killed = {} /\ hit = {}
            /\ phase # "returned" =>
                 /\ err = "nil" /\ \A p \in hit : p.name \in killed
                 /\ Cardinality(hit) + Cardinality(chosen) <= count

Unreported == {p \in hit : p.name \notin killed}

ReturnedInv == phase = "returned" =>
                 /\ Cardinality(hit) <= count
                 /\ Cardinality(Unreported) <= (IF err = "lost" THEN 1 ELSE 0)
                 /\ NotFoundMeansDisturbed

KillInv == PodsInv /\ ChoiceInv /\ ReachInv /\ ReturnedInv

LEMMA NoneCounted == Cardinality({}) = 0
BY FS_EmptySet

LEMMA NamesOfFacts ==
  ASSUME NEW S, IsFiniteSet(S)
  PROVE  IsFiniteSet(NamesOf(S)) /\ Cardinality(NamesOf(S)) <= Cardinality(S)
<1> DEFINE f == [p \in S |-> p.name]
<1>1. f \in Surjection(S, NamesOf(S))
  BY DEF Surjection, NamesOf
<1> QED BY <1>1, FS_Surjection

\* The pods of one name are one at most.
LEMMA NamedFacts ==
  ASSUME PodsInv, NEW n
  PROVE  IsFiniteSet(Named(n)) /\ Cardinality(Named(n)) <= 1
<1>1. CASE Named(n) = {}
  BY <1>1, FS_EmptySet
<1>2. CASE Named(n) # {}
  <2>1. PICK p : Named(n) = {p}
    BY <1>2 DEF Named, PodsInv
  <2>2. IsFiniteSet({p}) /\ Cardinality({p}) = 1
    BY FS_Singleton
  <2> QED BY <2>1, <2>2
<1> QED BY <1>1, <1>2

\* No more candidates are kept than count, and each was found.
LEMMA ChooseFacts ==
  ASSUME NEW S, IsFiniteSet(S), count \in Nat, Choose(S)
  PROVE  /\ IsFiniteSet(chosen') /\ Cardinality(chosen') <= count
         /\ chosen' \subseteq NamesOf(S)
<1> DEFINE k == IF count > Cardinality(S) THEN Cardinality(S) ELSE count
<1>1. PICK C \in kSubset(k, S) : chosen' = NamesOf(C)
  BY DEF Choose
<1>2. C \in SUBSET S /\ Cardinality(C) = k
  BY <1>1 DEF kSubset
<1>3. IsFiniteSet(C)
  BY <1>2, FS_Subset
<1>4. IsFiniteSet(NamesOf(C)) /\ Cardinality(NamesOf(C)) <= k
  BY <1>2, <1>3, NamesOfFacts
<1>5. Cardinality(NamesOf(C)) \in Nat /\ Cardinality(S) \in Nat /\ k <= count
  BY <1>4, FS_CardinalityType
<1>6. Cardinality(NamesOf(C)) <= count
  BY <1>4, <1>5
<1> QED BY <1>1, <1>2, <1>4, <1>6 DEF NamesOf

-----------------------------------------------------------------------------
LEMMA InitKill == KillInit => KillInv
<1> SUFFICES ASSUME KillInit PROVE KillInv
  OBVIOUS
<1>1. PICK S \in SUBSET PodNames : pods = {[name |-> n, uid |-> 0] : n \in S}
  BY DEF KillInit
<1>2. IsFiniteSet(pods)
  <2> DEFINE f == [n \in S |-> [name |-> n, uid |-> 0]]
  <2>1. f \in Surjection(S, pods)
    BY <1>1 DEF Surjection
  <2>2. IsFiniteSet(S)
    BY FS_Subset, NamesAssumption
  <2> QED BY <2>1, <2>2, FS_Surjection
<1>3. PodsInv
  <2>1. \A p \in pods : p = [name |-> p.name, uid |-> 0]
    BY <1>1
  <2>2. dying \subseteq pods /\ nextUid = 1 /\ listed = {}
    BY DEF KillInit
  <2>3. \A p \in pods : p.uid = 0
    BY <2>1
  <2>4. \A p, q \in pods : p.name = q.name => p = q
    BY <2>1
  <2> QED BY <1>2, <2>2, <2>3, <2>4 DEF PodsInv
<1>4. ChoiceInv
  BY DEF KillInit, ChoiceInv
<1>5. ReachInv
  <2>1. count \in Nat /\ Cardinality(hit) = 0 /\ Cardinality(chosen) = 0
    BY FS_EmptySet, CountAssumption DEF KillInit
  <2> QED BY <2>1, FS_EmptySet DEF KillInit, ReachInv
<1>6. ReturnedInv
  BY DEF KillInit, ReturnedInv
<1> QED BY <1>3, <1>4, <1>5, <1>6 DEF KillInv

LEMMA StepPods == PodsInv /\ [KillNext]_killVars => PodsInv'
<1> SUFFICES ASSUME PodsInv, [KillNext]_killVars PROVE PodsInv'
  OBVIOUS
<1> USE DEF PodsInv
<1>1. ASSUME NEW n, Replace(n), listed' = listed PROVE PodsInv'
  <2>1. IsFiniteSet(pods')
    BY <1>1, FS_AddElement DEF Replace
  <2>2. nextUid' = nextUid + 1 /\ dying' = dying
        /\ pods' = pods \union {[name |-> n, uid |-> nextUid]} /\ \A p \in pods : p.name # n
    BY <1>1 DEF Replace, Named
  <2> QED BY <1>1, <2>1, <2>2
<1>2. CASE OthersDeletePod /\ listed' = listed
  BY <1>2 DEF OthersDeletePod, Running
<1>3. CASE Terminate /\ listed' = listed
  BY <1>3, FS_RemoveElement DEF Terminate
<1>4. CASE Cluster
  BY <1>1, <1>2, <1>3, <1>4 DEF Cluster
<1>5. CASE ListPods
  BY <1>5 DEF ListPods, Running, cluster
<1>6. ASSUME NEW n, Delete(n) PROVE PodsInv'
  <2>1. pods' = pods /\ nextUid' = nextUid /\ listed' = listed
    BY <1>6 DEF Delete, Apply, Unreached, cluster
  <2>2. dying' \subseteq pods
    BY <1>6 DEF Delete, Apply, Unreached, cluster, Named
  <2> QED BY <2>1, <2>2
<1>7. CASE Returned \/ UNCHANGED killVars
  BY <1>7 DEF Returned, killVars, cluster
<1> QED BY <1>4, <1>5, <1>6, <1>7 DEF KillNext, Inject

\* A pod that does not run any more never runs again.
LEMMA NoReturn ==
  ASSUME PodsInv, [KillNext]_killVars, NEW p \in listed, p \notin Running
  PROVE  p \notin Running'
<1> USE DEF Running, PodsInv
<1>1. ASSUME NEW n, Replace(n) PROVE p \notin Running'
  BY <1>1 DEF Replace
<1>2. CASE OthersDeletePod
  BY <1>2 DEF OthersDeletePod
<1>3. CASE Terminate
  BY <1>3 DEF Terminate
<1>4. CASE Cluster
  BY <1>1, <1>2, <1>3, <1>4 DEF Cluster
<1>5. CASE ListPods \/ Returned \/ UNCHANGED killVars
  BY <1>5 DEF ListPods, Returned, killVars, cluster
<1>6. ASSUME NEW n, Delete(n) PROVE p \notin Running'
  BY <1>6 DEF Delete, Apply, Unreached, cluster
<1> QED BY <1>4, <1>5, <1>6 DEF KillNext, Inject

LEMMA StepChoice == PodsInv /\ ChoiceInv /\ ReachInv /\ [KillNext]_killVars => ChoiceInv'
<1> SUFFICES ASSUME PodsInv, ChoiceInv, ReachInv, [KillNext]_killVars PROVE ChoiceInv'
  OBVIOUS
<1>1. CASE ListPods
  <2>1. killed' = {}
    BY <1>1 DEF ListPods, ReachInv
  <2>2. chosen' \subseteq NamesOf(listed')
    <3>1. CASE UNCHANGED chosen
      BY <1>1, <3>1 DEF ListPods, ReachInv
    <3>2. CASE Choose(Running) /\ listed' = Running
      <4>1. IsFiniteSet(Running)
        BY FS_Difference DEF Running, PodsInv
      <4> QED BY <3>2, <4>1, ChooseFacts DEF ReachInv
    <3> QED BY <1>1, <3>1, <3>2 DEF ListPods
  <2> QED BY <2>1, <2>2 DEF ChoiceInv
<1>2. ASSUME NEW n \in chosen, Delete(n) PROVE ChoiceInv'
  <2>1. listed' = listed
    BY <1>2 DEF Delete
  <2>2. CASE UNCHANGED <<killed, chosen>>
    BY <2>1, <2>2, NoReturn DEF ChoiceInv, NamesOf
  <2>3. CASE Apply(n) /\ Killed(n)
    <3>1. killed' = killed \union {n} /\ chosen' = chosen \ {n}
      BY <2>3 DEF Killed
    <3>2. \A p \in listed : p.name = n => p \notin Running'
      BY <2>3 DEF Apply, Named, Running
    <3>3. \A p \in listed : p.name \in killed => p \notin Running'
      BY NoReturn DEF ChoiceInv
    <3>4. (chosen \union killed)' \subseteq NamesOf(listed)'
      BY <2>1, <3>1 DEF ChoiceInv, NamesOf
    <3> QED BY <2>1, <3>1, <3>2, <3>3, <3>4 DEF ChoiceInv
  <2> QED BY <1>2, <2>2, <2>3 DEF Delete
<1>3. CASE Cluster \/ Returned \/ UNCHANGED killVars
  <2>1. UNCHANGED <<listed, chosen, killed>>
    BY <1>3 DEF Cluster, Returned, killVars
  <2> QED BY <2>1, NoReturn DEF ChoiceInv, NamesOf
<1> QED BY <1>1, <1>2, <1>3 DEF KillNext, Inject

\* A Delete reaches one pod at most.
LEMMA HitGrowsByOne ==
  ASSUME PodsInv, IsFiniteSet(hit), NEW n
  PROVE  /\ IsFiniteSet(hit \union Named(n))
         /\ Cardinality(hit \union Named(n)) <= Cardinality(hit) + 1
<1>1. IsFiniteSet(Named(n)) /\ Cardinality(Named(n)) <= 1
  BY NamedFacts
<1>2. IsFiniteSet(hit \intersect Named(n))
  BY <1>1, FS_Intersection
<1>3. /\ Cardinality(hit) \in Nat /\ Cardinality(Named(n)) \in Nat
      /\ Cardinality(hit \intersect Named(n)) \in Nat
  BY <1>1, <1>2, FS_CardinalityType
<1>4. /\ IsFiniteSet(hit \union Named(n))
      /\ Cardinality(hit \union Named(n)) =
           Cardinality(hit) + Cardinality(Named(n)) - Cardinality(hit \intersect Named(n))
  BY <1>1, FS_Union
<1> QED BY <1>1, <1>3, <1>4

LEMMA StepReach == PodsInv /\ ChoiceInv /\ ReachInv /\ [KillNext]_killVars => ReachInv'
<1> SUFFICES ASSUME PodsInv, ChoiceInv, ReachInv, [KillNext]_killVars PROVE ReachInv'
  OBVIOUS
<1>1. CASE ListPods
  <2>1. /\ count' = count /\ hit' = {} /\ killed' = {}
        /\ phase' \in {"delete", "returned"} /\ count \in Nat
    BY <1>1 DEF ListPods, Fails, ReachInv, Choose
  <2>2. CASE phase' = "returned"
    <3>1. chosen' = chosen
      BY <1>1, <2>2 DEF ListPods
    <3> QED BY <2>1, <2>2, <3>1, FS_EmptySet DEF ReachInv
  <2>3. CASE phase' = "delete"
    <3>1. Choose(Running) /\ err' = err
      BY <1>1, <2>3 DEF ListPods, Fails
    <3>2. IsFiniteSet(Running)
      BY FS_Difference DEF Running, PodsInv
    <3>3. IsFiniteSet(chosen') /\ Cardinality(chosen') <= count
      BY <2>1, <3>1, <3>2, ChooseFacts
    <3>4. Cardinality(hit') = 0 /\ IsFiniteSet(hit') /\ Cardinality(chosen') \in Nat
      BY <2>1, <3>3, FS_EmptySet, FS_CardinalityType
    <3>5. err' = "nil"
      BY <1>1, <3>1 DEF ListPods, ReachInv
    <3> QED BY <2>1, <2>3, <3>3, <3>4, <3>5 DEF ReachInv
  <2> QED BY <2>1, <2>2, <2>3
<1>2. ASSUME NEW n \in chosen, Delete(n) PROVE ReachInv'
  <2>1. /\ count' = count /\ count \in Nat /\ IsFiniteSet(hit) /\ IsFiniteSet(chosen)
        /\ phase = "delete" /\ err = "nil" /\ \A p \in hit : p.name \in killed
        /\ Cardinality(hit) + Cardinality(chosen) <= count
    BY <1>2 DEF Delete, ReachInv
  <2>2. hit' = hit \/ hit' = hit \union Named(n)
    BY <1>2 DEF Delete, Apply, Unreached
  <2>3. IsFiniteSet(hit')
    BY <2>1, <2>2, NamedFacts, FS_Union
  <2>4. CASE phase' = "returned"
    <3>1. IsFiniteSet(chosen')
      BY <1>2, <2>1, FS_RemoveElement DEF Delete, Killed
    <3> QED BY <2>1, <2>3, <2>4, <3>1 DEF ReachInv
  <2>5. CASE phase' # "returned"
    <3>1. Apply(n) /\ Killed(n)
      BY <1>2, <2>5 DEF Delete, Fails
    <3>2. /\ hit' = hit \union Named(n) /\ killed' = killed \union {n}
          /\ chosen' = chosen \ {n} /\ phase' \in {"delete", "returned"} /\ err' = err
      BY <3>1 DEF Apply, Killed
    <3>3. IsFiniteSet(chosen') /\ Cardinality(chosen') = Cardinality(chosen) - 1
      BY <1>2, <2>1, <3>2, FS_RemoveElement
    <3>4. Cardinality(hit') <= Cardinality(hit) + 1
      BY <2>1, <3>2, HitGrowsByOne
    <3>5. Cardinality(hit) \in Nat /\ Cardinality(hit') \in Nat /\ Cardinality(chosen) \in Nat
      BY <2>1, <2>3, FS_CardinalityType
    <3>6. Cardinality(hit') + Cardinality(chosen') <= count
      BY <2>1, <3>3, <3>4, <3>5
    <3>7. \A p \in hit' : p.name \in killed'
      BY <2>1, <3>2 DEF Named
    <3> QED BY <2>1, <2>3, <2>5, <3>2, <3>3, <3>6, <3>7 DEF ReachInv
  <2> QED BY <2>4, <2>5
<1>3. CASE Cluster \/ Returned \/ UNCHANGED killVars
  <2>1. UNCHANGED <<phase, count, chosen, killed, err, hit>>
    BY <1>3 DEF Cluster, Returned, killVars
  <2> QED BY <2>1 DEF ReachInv
<1> QED BY <1>1, <1>2, <1>3 DEF KillNext, Inject

LEMMA StepReturned == KillInv /\ [KillNext]_killVars => ReturnedInv'
<1> SUFFICES ASSUME PodsInv, ChoiceInv, ReachInv, ReturnedInv, [KillNext]_killVars,
                    phase' = "returned"
             PROVE  /\ Cardinality(hit') <= count'
                    /\ Cardinality(Unreported') <= (IF err' = "lost" THEN 1 ELSE 0)
                    /\ NotFoundMeansDisturbed'
  BY DEF KillInv, ReturnedInv
<1>1. CASE ListPods
  <2>1. hit' = {} /\ err' # "NotFound" /\ count' = count /\ count \in Nat /\ Unreported' = {}
    BY <1>1 DEF ListPods, Fails, ReachInv, Unreported
  <2>2. /\ Cardinality(hit') <= count'
        /\ Cardinality(Unreported') <= (IF err' = "lost" THEN 1 ELSE 0)
    BY <2>1, NoneCounted
  <2>3. NotFoundMeansDisturbed'
    BY <2>1 DEF NotFoundMeansDisturbed
  <2> QED BY <2>2, <2>3, Zenon
<1>2. ASSUME NEW n \in chosen, Delete(n)
      PROVE  /\ Cardinality(hit') <= count'
             /\ Cardinality(Unreported') <= (IF err' = "lost" THEN 1 ELSE 0)
             /\ NotFoundMeansDisturbed'
  <2>1. /\ count' = count /\ listed' = listed /\ count \in Nat
        /\ IsFiniteSet(hit) /\ IsFiniteSet(chosen)
        /\ err = "nil" /\ \A p \in hit : p.name \in killed
        /\ Cardinality(hit) + Cardinality(chosen) <= count
    BY <1>2 DEF Delete, ReachInv
  <2>2. Cardinality(hit) \in Nat /\ Cardinality(chosen) \in Nat /\ Cardinality(chosen) >= 1
    <3>1. Cardinality(chosen) # 0
      BY <2>1, FS_EmptySet
    <3> QED BY <2>1, <3>1, FS_CardinalityType
  <2>3. Unreported = {}
    BY <2>1 DEF Unreported
  <2>4. CASE Apply(n) /\ (Killed(n) \/ (Fails("lost") /\ killed' = killed))
    <3>1. hit' = hit \union Named(n)
      BY <2>4 DEF Apply
    <3>2. Cardinality(hit') <= count'
      <4>1. IsFiniteSet(hit') /\ Cardinality(hit') <= Cardinality(hit) + 1
        BY <2>1, <3>1, HitGrowsByOne
      <4>2. Cardinality(hit') \in Nat
        BY <4>1, FS_CardinalityType
      <4> QED BY <2>1, <2>2, <4>1, <4>2
    <3>3. CASE Killed(n)
      <4>1. killed' = killed \union {n} /\ err' = "nil"
        BY <2>1, <3>3 DEF Killed
      <4>2. Unreported' = {}
        BY <2>1, <3>1, <4>1 DEF Unreported, Named
      <4> QED BY <3>2, <4>1, <4>2, NoneCounted DEF NotFoundMeansDisturbed
    <3>4. CASE Fails("lost") /\ killed' = killed
      <4>1. Unreported' \subseteq Named(n) /\ err' = "lost"
        BY <2>1, <3>1, <3>4 DEF Unreported, Fails
      <4>2. Cardinality(Unreported') <= 1
        <5>1. IsFiniteSet(Named(n)) /\ Cardinality(Named(n)) <= 1
          BY NamedFacts
        <5>2. IsFiniteSet(Unreported') /\ Cardinality(Unreported') <= Cardinality(Named(n))
          BY <4>1, <5>1, FS_Subset
        <5>3. Cardinality(Unreported') \in Nat /\ Cardinality(Named(n)) \in Nat
          BY <5>1, <5>2, FS_CardinalityType
        <5> QED BY <5>1, <5>2, <5>3
      <4> QED BY <3>2, <4>1, <4>2 DEF NotFoundMeansDisturbed
    <3> QED BY <2>4, <3>3, <3>4
  <2>5. CASE Unreached /\ Fails("refused") /\ UNCHANGED <<killed, chosen>>
    <3>1. hit' = hit /\ Unreported' = {} /\ err' = "refused"
      BY <2>3, <2>5 DEF Unreached, Fails, Unreported
    <3> QED BY <2>1, <2>2, <3>1, NoneCounted DEF NotFoundMeansDisturbed
  <2>6. CASE /\ Named(n) = {} /\ Unreached /\ Fails("NotFound")
             /\ UNCHANGED <<killed, chosen>>
    <3>1. /\ hit' = hit /\ pods' = pods /\ Unreported' = {} /\ err' = "NotFound"
      BY <2>3, <2>6 DEF Unreached, Fails, Unreported, cluster
    <3>2. PICK p \in listed : p.name = n
      BY DEF ChoiceInv, NamesOf
    <3>3. p \notin pods /\ p \notin hit
      BY <2>1, <2>6, <3>2 DEF Named, ChoiceInv
    <3>4. NotFoundMeansDisturbed'
      <4>1. p \in listed' \ hit' /\ p.name \in chosen' /\ p \notin pods'
        BY <2>1, <2>6, <3>1, <3>2, <3>3
      <4> QED BY <4>1 DEF NotFoundMeansDisturbed
    <3>5. Cardinality(hit') <= count'
      BY <2>1, <2>2, <3>1
    <3>6. Cardinality(Unreported') <= (IF err' = "lost" THEN 1 ELSE 0)
      BY <3>1, NoneCounted
    <3> QED BY <3>4, <3>5, <3>6, Zenon
  <2>7. \/ Apply(n) /\ (Killed(n) \/ (Fails("lost") /\ killed' = killed))
        \/ Unreached /\ Fails("refused") /\ UNCHANGED <<killed, chosen>>
        \/ /\ Named(n) = {} /\ Unreached /\ Fails("NotFound")
           /\ UNCHANGED <<killed, chosen>>
    BY <1>2, Zenon DEF Delete
  <2> QED BY <2>4, <2>5, <2>6, <2>7
<1>3. CASE Returned \/ UNCHANGED killVars
  <2>1. UNCHANGED <<pods, dying, nextUid, phase, count, chosen, killed, err, listed, hit>>
    BY <1>3 DEF Returned, killVars, cluster
  <2> QED BY <2>1 DEF ReturnedInv, Unreported, NotFoundMeansDisturbed
<1>4. CASE Cluster
  BY <1>4 DEF Cluster
<1> QED BY <1>1, <1>2, <1>3, <1>4 DEF KillNext, Inject

LEMMA KillAlways == KillSpec => []KillInv
<1>1. KillInit => KillInv
  BY InitKill
<1>2. KillInv /\ [KillNext]_killVars => KillInv'
  BY StepPods, StepChoice, StepReach, StepReturned DEF KillInv
<1> QED BY <1>1, <1>2, PTL DEF KillSpec

\* What the ranges need: the names and identities of all pods there were, the phase and
\* the error that goes with it.
RangeInv == /\ pods \subseteq [name : PodNames, uid : 0 .. MaxUid]
            /\ nextUid \in 1 .. MaxUid + 1 /\ count \in Counts
            /\ err \in {"nil", "none", "NotFound", "refused", "lost"}
            /\ listed \union hit \subseteq [name : PodNames, uid : 0 .. MaxUid]

LEMMA StepRange == KillInv /\ RangeInv /\ [KillNext]_killVars => RangeInv'
<1> SUFFICES ASSUME KillInv, RangeInv, [KillNext]_killVars PROVE RangeInv'
  OBVIOUS
<1> USE CountAssumption DEF RangeInv, Running, Named
<1>1. ASSUME NEW n \in PodNames, Replace(n), UNCHANGED <<count, err, listed, hit>> PROVE RangeInv'
  BY <1>1 DEF Replace
<1>2. CASE OthersDeletePod /\ UNCHANGED <<count, err, listed, hit>>
  BY <1>2 DEF OthersDeletePod
<1>3. CASE Terminate /\ UNCHANGED <<count, err, listed, hit>>
  BY <1>3 DEF Terminate
<1>4. CASE Cluster
  BY <1>1, <1>2, <1>3, <1>4 DEF Cluster
<1>5. CASE ListPods
  BY <1>5 DEF ListPods, Fails, cluster
<1>6. ASSUME NEW n \in chosen, Delete(n) PROVE RangeInv'
  BY <1>6 DEF Delete, Apply, Killed, Unreached, Fails, cluster
<1>7. CASE Returned \/ UNCHANGED killVars
  BY <1>7 DEF Returned, killVars, cluster
<1> QED BY <1>4, <1>5, <1>6, <1>7 DEF KillNext, Inject

\* Every variable of the killer and of its pods keeps its range.
THEOREM KillTypeCorrect == KillSpec => []KillTypeOK
<1>1. KillInit => RangeInv
  BY CountAssumption DEF KillInit, RangeInv
<1>2. KillInv /\ RangeInv => KillTypeOK
  <2> SUFFICES ASSUME KillInv, RangeInv PROVE KillTypeOK
    OBVIOUS
  <2>1. NamesOf(listed) \subseteq PodNames
    BY DEF RangeInv, NamesOf
  <2> QED BY <2>1 DEF KillInv, PodsInv, ChoiceInv, ReachInv, RangeInv, KillTypeOK
<1> QED BY <1>1, <1>2, StepRange, KillAlways, PTL DEF KillSpec

\* The calls of one Inject reach no more pods than asked for, whatever the cluster does
\* in between, whatever names are used again and whatever answers get lost.
THEOREM KillsNoMoreThanAsked == KillSpec => []BlastRadius
<1>1. KillInv => BlastRadius
  <2> SUFFICES ASSUME KillInv PROVE Cardinality(hit) <= count
    BY DEF BlastRadius
  <2>1. CASE phase = "returned"
    BY <2>1 DEF KillInv, ReturnedInv
  <2>2. CASE phase # "returned"
    <3>1. Cardinality(hit) \in Nat /\ Cardinality(chosen) \in Nat /\ count \in Nat
      BY FS_CardinalityType DEF KillInv, ReachInv
    <3> QED BY <2>2, <3>1 DEF KillInv, ReachInv
  <2> QED BY <2>1, <2>2
<1> QED BY <1>1, KillAlways, PTL

\* The names that Inject returns are those of pods it found running and that are going
\* or gone; it reached at most one pod more, and only when it returns an error.
THEOREM KillReportIsAccurate == KillSpec => []ReportIsAccurate
<1>1. KillInv => ReportIsAccurate
  <2> SUFFICES ASSUME KillInv PROVE ReportIsAccurate
    OBVIOUS
  <2>1. Cardinality(Unreported) <= (IF err = "lost" THEN 1 ELSE 0)
    <3>1. CASE phase = "returned"
      BY <3>1 DEF KillInv, ReturnedInv
    <3>2. CASE phase # "returned"
      <4>1. Unreported = {} /\ err = "nil"
        BY <3>2 DEF KillInv, ReachInv, Unreported
      <4> QED BY <4>1, NoneCounted
    <3> QED BY <3>1, <3>2
  <2>2. killed \subseteq NamesOf(listed)
        /\ \A p \in listed : p.name \in killed => p \notin Running
    BY DEF KillInv, ChoiceInv
  <2> QED BY <2>1, <2>2 DEF ReportIsAccurate, Unreported
<1> QED BY <1>1, KillAlways, PTL

\* Inject fails with NotFound only when another actor killed a pod that it had found
\* running and had not reached.
THEOREM NotFoundIsOthersDoing ==
  KillSpec => []NotFoundMeansDisturbed
<1>1. KillInv => NotFoundMeansDisturbed
  <2>1. KillInv /\ phase # "returned" => err = "nil"
    BY DEF KillInv, ReachInv
  <2>2. KillInv /\ phase = "returned" => NotFoundMeansDisturbed
    BY DEF KillInv, ReturnedInv
  <2> QED BY <2>1, <2>2 DEF NotFoundMeansDisturbed
<1> QED BY <1>1, KillAlways, PTL
=============================================================================
