--------------------------- MODULE NodeDrainProofs ---------------------------
(***************************************************************************)
(* Proofs about NodeDrain, for every cluster, every failure, every other   *)
(* actor and any number of runs.                                           *)
(***************************************************************************)
EXTENDS NodeDrain, TLAPS

(***************************************************************************)
(* Type correctness, the variables taken in groups.                        *)
(***************************************************************************)
CordonsOK == unschedulable \in [Nodes -> BOOLEAN]

PlacesOK == /\ place \in [Pods -> Nodes \union {None}]
            /\ terminating \subseteq Pods /\ gone \subseteq Pods

\* What is picked and recorded in which phase.
RecordInv ==
  /\ pc \in {"list", "get", "update", "evict", "injected", "uncordon", "done"}
  /\ node \in Nodes \union {None}
  /\ cordoned \in {None, node}
  /\ pc \in {"list", "get", "update"} => cordoned = None
  /\ pc \in {"get", "update", "evict", "uncordon"} => node # None
  /\ pc \in {"evict", "uncordon"} => cordoned = node

PodsOK == /\ listed \subseteq Pods /\ missed \subseteq Pods
          /\ todo \union evicted = listed /\ todo \intersect evicted = {}
          /\ pc = "list" => listed = {}

FlagsOK == injectErr \in BOOLEAN /\ changed \in BOOLEAN

RunsOK == /\ run \in 1 .. MaxRuns
          /\ failed \subseteq Runs /\ killed \subseteq Runs /\ blind \subseteq Runs

OwnersOK == owner \in [Nodes -> Runs \union {None, Others}]

LEMMA CordonsStep ==
  ASSUME CordonsOK, [Next]_vars PROVE CordonsOK'
<1> USE DEF CordonsOK, clusterVars
<1>1. CASE Cluster
  BY <1>1 DEF Cluster, Schedule, Delete, Terminate, Touch, SetCordon
<1>2. CASE List
  BY <1>2 DEF List, InjectReturns
<1>3. CASE CordonGet
  BY <1>3 DEF CordonGet, GetNode, InjectReturns
<1>4. CASE CordonUpdate
  BY <1>4 DEF CordonUpdate, Write, WriteFails, InjectReturns
<1>5. ASSUME NEW p \in Pods, Evict(p) PROVE CordonsOK'
  BY <1>5 DEF Evict, EvictFails, Remove, InjectReturns
<1>6. CASE EvictionsDone
  BY <1>6 DEF EvictionsDone, InjectReturns
<1>7. CASE RollbackGet
  BY <1>7 DEF RollbackGet, GetNode, RollbackReturns
<1>8. CASE Uncordon
  BY <1>8 DEF Uncordon, Write, WriteFails, RollbackReturns
<1>9. CASE Kill
  BY <1>9 DEF Kill
<1>10. CASE Rerun
  BY <1>10 DEF Rerun
<1>11. CASE UNCHANGED vars
  BY <1>11 DEF vars, runVars
<1> QED BY <1>1, <1>2, <1>3, <1>4, <1>5, <1>6, <1>7, <1>8, <1>9, <1>10, <1>11 DEF Next, Drainer, Done

LEMMA PlacesStep ==
  ASSUME PlacesOK, [Next]_vars PROVE PlacesOK'
<1> USE DEF PlacesOK, Live, clusterVars
<1>1. CASE Cluster
  BY <1>1 DEF Cluster, Schedule, Delete, Terminate, Touch, SetCordon
<1>2. CASE List
  BY <1>2 DEF List, InjectReturns
<1>3. CASE CordonGet
  BY <1>3 DEF CordonGet, GetNode, InjectReturns
<1>4. CASE CordonUpdate
  BY <1>4 DEF CordonUpdate, Write, WriteFails, InjectReturns
<1>5. ASSUME NEW p \in Pods, Evict(p) PROVE PlacesOK'
  BY <1>5 DEF Evict, EvictFails, Remove, InjectReturns
<1>6. CASE EvictionsDone
  BY <1>6 DEF EvictionsDone, InjectReturns
<1>7. CASE RollbackGet
  BY <1>7 DEF RollbackGet, GetNode, RollbackReturns
<1>8. CASE Uncordon
  BY <1>8 DEF Uncordon, Write, WriteFails, RollbackReturns
<1>9. CASE Kill
  BY <1>9 DEF Kill
<1>10. CASE Rerun
  BY <1>10 DEF Rerun
<1>11. CASE UNCHANGED vars
  BY <1>11 DEF vars, runVars
<1> QED BY <1>1, <1>2, <1>3, <1>4, <1>5, <1>6, <1>7, <1>8, <1>9, <1>10, <1>11 DEF Next, Drainer, Done

LEMMA RecordStep ==
  ASSUME PlacesOK, RecordInv, [Next]_vars PROVE RecordInv'
<1> USE NoneAssumption DEF PlacesOK, RecordInv, Live, clusterVars
<1>1. CASE Cluster
  BY <1>1 DEF Cluster, Schedule, Delete, Terminate, Touch, SetCordon
<1>2. CASE List
  BY <1>2 DEF List, InjectReturns
<1>3. CASE CordonGet
  BY <1>3 DEF CordonGet, GetNode, InjectReturns
<1>4. CASE CordonUpdate
  BY <1>4 DEF CordonUpdate, Write, WriteFails, InjectReturns
<1>5. ASSUME NEW p \in Pods, Evict(p) PROVE RecordInv'
  BY <1>5 DEF Evict, EvictFails, Remove, InjectReturns
<1>6. CASE EvictionsDone
  BY <1>6 DEF EvictionsDone, InjectReturns
<1>7. CASE RollbackGet
  BY <1>7 DEF RollbackGet, GetNode, RollbackReturns
<1>8. CASE Uncordon
  BY <1>8 DEF Uncordon, Write, WriteFails, RollbackReturns
<1>9. CASE Kill
  BY <1>9 DEF Kill
<1>10. CASE Rerun
  BY <1>10 DEF Rerun
<1>11. CASE UNCHANGED vars
  BY <1>11 DEF vars, runVars
<1> QED BY <1>1, <1>2, <1>3, <1>4, <1>5, <1>6, <1>7, <1>8, <1>9, <1>10, <1>11 DEF Next, Drainer, Done

LEMMA PodsStep ==
  ASSUME PlacesOK, PodsOK, [Next]_vars PROVE PodsOK'
<1> USE DEF PlacesOK, PodsOK, Live, clusterVars
<1>1. CASE Cluster
  BY <1>1 DEF Cluster, Schedule, Delete, Terminate, Touch, SetCordon
<1>2. CASE List
  BY <1>2 DEF List, InjectReturns
<1>3. CASE CordonGet
  BY <1>3 DEF CordonGet, GetNode, InjectReturns
<1>4. CASE CordonUpdate
  BY <1>4 DEF CordonUpdate, Write, WriteFails, InjectReturns
<1>5. ASSUME NEW p \in Pods, Evict(p) PROVE PodsOK'
  BY <1>5 DEF Evict, EvictFails, Remove, InjectReturns
<1>6. CASE EvictionsDone
  BY <1>6 DEF EvictionsDone, InjectReturns
<1>7. CASE RollbackGet
  BY <1>7 DEF RollbackGet, GetNode, RollbackReturns
<1>8. CASE Uncordon
  BY <1>8 DEF Uncordon, Write, WriteFails, RollbackReturns
<1>9. CASE Kill
  BY <1>9 DEF Kill
<1>10. CASE Rerun
  BY <1>10 DEF Rerun
<1>11. CASE UNCHANGED vars
  BY <1>11 DEF vars, runVars
<1> QED BY <1>1, <1>2, <1>3, <1>4, <1>5, <1>6, <1>7, <1>8, <1>9, <1>10, <1>11 DEF Next, Drainer, Done

LEMMA FlagsStep ==
  ASSUME FlagsOK, [Next]_vars PROVE FlagsOK'
<1> USE DEF FlagsOK, clusterVars
<1>1. CASE Cluster
  BY <1>1 DEF Cluster, Schedule, Delete, Terminate, Touch, SetCordon
<1>2. CASE List
  BY <1>2 DEF List, InjectReturns
<1>3. CASE CordonGet
  BY <1>3 DEF CordonGet, GetNode, InjectReturns
<1>4. CASE CordonUpdate
  BY <1>4 DEF CordonUpdate, Write, WriteFails, InjectReturns
<1>5. ASSUME NEW p \in Pods, Evict(p) PROVE FlagsOK'
  BY <1>5 DEF Evict, EvictFails, Remove, InjectReturns
<1>6. CASE EvictionsDone
  BY <1>6 DEF EvictionsDone, InjectReturns
<1>7. CASE RollbackGet
  BY <1>7 DEF RollbackGet, GetNode, RollbackReturns
<1>8. CASE Uncordon
  BY <1>8 DEF Uncordon, Write, WriteFails, RollbackReturns
<1>9. CASE Kill
  BY <1>9 DEF Kill
<1>10. CASE Rerun
  BY <1>10 DEF Rerun
<1>11. CASE UNCHANGED vars
  BY <1>11 DEF vars, runVars
<1> QED BY <1>1, <1>2, <1>3, <1>4, <1>5, <1>6, <1>7, <1>8, <1>9, <1>10, <1>11 DEF Next, Drainer, Done

LEMMA RunsStep ==
  ASSUME RunsOK, [Next]_vars PROVE RunsOK'
<1> USE BoundAssumption DEF RunsOK, Runs, runVars
<1>0. ASSUME run' = run, failed' \in {failed, failed \union {run}}, UNCHANGED killed,
             blind' \in {blind, blind \union {run}}
      PROVE  RunsOK'
  <2>1. run \in Runs /\ Runs' = Runs
    BY <1>0
  <2> QED BY <1>0, <2>1 DEF RunsOK
<1>1. CASE Cluster
  BY <1>1 DEF Cluster, Schedule, Delete, Terminate, Touch, SetCordon
<1>2. CASE List
  BY <1>2 DEF List, InjectReturns
<1>3. CASE CordonGet
  BY <1>3 DEF CordonGet, GetNode, InjectReturns
<1>4. CASE CordonUpdate
  <2>1. run' = run /\ blind' \in {blind, blind \union {run}} /\ UNCHANGED <<failed, killed>>
    BY <1>4 DEF CordonUpdate
  <2> QED BY <1>0, <2>1
<1>5. ASSUME NEW p \in Pods, Evict(p) PROVE RunsOK'
  BY <1>5 DEF Evict, EvictFails, Remove, InjectReturns
<1>6. CASE EvictionsDone
  BY <1>6 DEF EvictionsDone, InjectReturns
<1>7. CASE RollbackGet
  <2>1. run' = run /\ failed' \in {failed, failed \union {run}} /\ UNCHANGED <<killed, blind>>
    BY <1>7 DEF RollbackGet, RollbackReturns
  <2> QED BY <1>0, <2>1
<1>8. CASE Uncordon
  <2>1. run' = run /\ failed' \in {failed, failed \union {run}} /\ UNCHANGED <<killed, blind>>
    BY <1>8 DEF Uncordon, RollbackReturns
  <2> QED BY <1>0, <2>1
<1>9. CASE Kill
  BY <1>9 DEF Kill
<1>10. CASE Rerun
  BY <1>10 DEF Rerun
<1>11. CASE UNCHANGED vars
  BY <1>11 DEF vars, runVars
<1> QED BY <1>1, <1>2, <1>3, <1>4, <1>5, <1>6, <1>7, <1>8, <1>9, <1>10, <1>11 DEF Next, Drainer, Done

LEMMA OwnersStep ==
  ASSUME RunsOK, OwnersOK, [Next]_vars PROVE OwnersOK'
<1> USE BoundAssumption DEF RunsOK, OwnersOK, Runs, clusterVars, runVars
<1>1. CASE Cluster
  BY <1>1 DEF Cluster, Schedule, Delete, Terminate, Touch, SetCordon
<1>2. CASE List
  BY <1>2 DEF List, InjectReturns
<1>3. CASE CordonGet
  BY <1>3 DEF CordonGet, GetNode, InjectReturns
<1>4. CASE CordonUpdate
  BY <1>4 DEF CordonUpdate, Write, WriteFails, InjectReturns
<1>5. ASSUME NEW p \in Pods, Evict(p) PROVE OwnersOK'
  BY <1>5 DEF Evict, EvictFails, Remove, InjectReturns
<1>6. CASE EvictionsDone
  BY <1>6 DEF EvictionsDone, InjectReturns
<1>7. CASE RollbackGet
  BY <1>7 DEF RollbackGet, GetNode, RollbackReturns
<1>8. CASE Uncordon
  BY <1>8 DEF Uncordon, Write, WriteFails, RollbackReturns
<1>9. CASE Kill
  BY <1>9 DEF Kill
<1>10. CASE Rerun
  BY <1>10 DEF Rerun
<1>11. CASE UNCHANGED vars
  BY <1>11 DEF vars, runVars
<1> QED BY <1>1, <1>2, <1>3, <1>4, <1>5, <1>6, <1>7, <1>8, <1>9, <1>10, <1>11 DEF Next, Drainer, Done

TypeInv == /\ CordonsOK /\ PlacesOK /\ RecordInv /\ PodsOK /\ FlagsOK
           /\ RunsOK /\ OwnersOK

LEMMA TypeAlways == Spec => []TypeInv
<1>1. Init => CordonsOK /\ PlacesOK /\ PodsOK /\ FlagsOK
  BY DEF Init, CordonsOK, PlacesOK, PodsOK, FlagsOK
<1>2. Init => RecordInv /\ RunsOK /\ OwnersOK
  BY BoundAssumption DEF Init, RecordInv, RunsOK, OwnersOK, Runs
<1>3. TypeInv /\ [Next]_vars => TypeInv'
  BY CordonsStep, PlacesStep, RecordStep, PodsStep, FlagsStep,
     RunsStep, OwnersStep DEF TypeInv
<1> QED BY <1>1, <1>2, <1>3, PTL DEF Spec, TypeInv

\* Every variable of the injector and of the cluster keeps its type.
THEOREM NodeDrainTypeCorrect == Spec => []TypeOK
<1>1. TypeInv => TypeOK
  BY DEF TypeInv, CordonsOK, PlacesOK, RecordInv, PodsOK, FlagsOK,
         RunsOK, OwnersOK, TypeOK
<1> QED BY <1>1, TypeAlways, PTL

(***************************************************************************)
(* What a rollback leaves.                                                 *)
(***************************************************************************)

\* A node that a run has cordoned is cordoned, and until Rollback returns it is the
\* one that is recorded, unless the answer was lost.
OwnInv == \A n \in Nodes : owner[n] \in Runs =>
            /\ unschedulable[n]
            /\ \/ owner[n] = run /\ pc # "done" /\ cordoned = n
               \/ owner[n] \in blind \union failed \union killed

LEMMA OwnStep ==
  ASSUME CordonsOK, RecordInv, RunsOK, OwnersOK, OwnInv, [Next]_vars PROVE OwnInv'
<1> USE NoneAssumption, BoundAssumption DEF CordonsOK, RecordInv, RunsOK, OwnersOK, OwnInv, Runs,
        clusterVars, runVars
<1>1. CASE Cluster
  BY <1>1 DEF Cluster, Schedule, Delete, Terminate, Touch, SetCordon
<1>2. CASE List
  BY <1>2 DEF List, InjectReturns
<1>3. CASE CordonGet
  BY <1>3 DEF CordonGet, GetNode, InjectReturns
<1>4. CASE CordonUpdate
  BY <1>4 DEF CordonUpdate, Write, WriteFails, InjectReturns
<1>5. ASSUME NEW p \in Pods, Evict(p) PROVE OwnInv'
  BY <1>5 DEF Evict, EvictFails, Remove, InjectReturns
<1>6. CASE EvictionsDone
  BY <1>6 DEF EvictionsDone, InjectReturns
<1>7. CASE RollbackGet
  BY <1>7 DEF RollbackGet, GetNode, RollbackReturns
<1>8. CASE Uncordon
  BY <1>8 DEF Uncordon, Write, WriteFails, RollbackReturns
<1>9. CASE Kill
  BY <1>9 DEF Kill
<1>10. CASE Rerun
  BY <1>10 DEF Rerun
<1>11. CASE UNCHANGED vars
  BY <1>11 DEF vars, runVars
<1> QED BY <1>1, <1>2, <1>3, <1>4, <1>5, <1>6, <1>7, <1>8, <1>9, <1>10, <1>11 DEF Next, Drainer, Done

LEMMA OwnAlways == Spec => [](TypeInv /\ OwnInv)
<1>1. Init => OwnInv
  BY NoneAssumption DEF Init, OwnInv, Runs
<1>2. TypeInv /\ OwnInv /\ [Next]_vars => OwnInv'
  BY OwnStep DEF TypeInv
<1> QED BY <1>1, <1>2, TypeAlways, PTL DEF Spec


\* Whatever fails, a cordon outlives the run only if its answer was lost or the
\* rollback reported an error.
THEOREM StrandsOnlyIfToldOrLost == Spec => []StrandsOnlyOnError
<1>1. OwnInv => StrandsOnlyOnError
  BY DEF OwnInv, StrandsOnlyOnError
<1> QED BY <1>1, OwnAlways, PTL

(***************************************************************************)
(* What a successful injection has evicted, and what escapes it.           *)
(***************************************************************************)
EvictedInv == /\ evicted \subseteq terminating \union gone
              /\ pc = "injected" /\ ~injectErr => evicted = listed

LEMMA EvictedStep ==
  ASSUME RecordInv, PodsOK, EvictedInv, [Next]_vars PROVE EvictedInv'
<1> USE DEF RecordInv, PodsOK, EvictedInv, clusterVars
<1>1. CASE Cluster
  BY <1>1 DEF Cluster, Schedule, Delete, Terminate, Touch, SetCordon
<1>2. CASE List
  BY <1>2 DEF List, InjectReturns
<1>3. CASE CordonGet
  BY <1>3 DEF CordonGet, GetNode, InjectReturns
<1>4. CASE CordonUpdate
  BY <1>4 DEF CordonUpdate, Write, WriteFails, InjectReturns
<1>5. ASSUME NEW p \in Pods, Evict(p) PROVE EvictedInv'
  BY <1>5 DEF Evict, EvictFails, Remove, InjectReturns
<1>6. CASE EvictionsDone
  BY <1>6 DEF EvictionsDone, InjectReturns
<1>7. CASE RollbackGet
  BY <1>7 DEF RollbackGet, GetNode, RollbackReturns
<1>8. CASE Uncordon
  BY <1>8 DEF Uncordon, Write, WriteFails, RollbackReturns
<1>9. CASE Kill
  BY <1>9 DEF Kill
<1>10. CASE Rerun
  BY <1>10 DEF Rerun
<1>11. CASE UNCHANGED vars
  BY <1>11 DEF vars, runVars
<1> QED BY <1>1, <1>2, <1>3, <1>4, <1>5, <1>6, <1>7, <1>8, <1>9, <1>10, <1>11 DEF Next, Drainer, Done

OnNode == {p \in Live : place[p] = node}

\* Before the cordon what runs on the node is still to be evicted or has been missed;
\* that stays so while the cordon stands, because nothing more is scheduled there.
EscapeInv ==
  /\ pc \in {"get", "update"} => OnNode \subseteq todo \union missed
  /\ pc = "evict" /\ owner[node] = run => OnNode \subseteq todo \union missed
  /\ pc = "injected" /\ ~injectErr =>
       node # None /\ (owner[node] = run => OnNode \subseteq missed)

\* What the scheduler, the kubelets and other clients do between two calls.
LEMMA EscapeCluster ==
  ASSUME PlacesOK, RecordInv, RunsOK, OwnersOK, OwnInv, EscapeInv, Cluster PROVE EscapeInv'
<1> USE NoneAssumption, BoundAssumption DEF PlacesOK, RecordInv, EscapeInv, OnNode, Live, runVars
<1>0. UNCHANGED <<pc, node, todo, injectErr, run>>
  BY DEF Cluster
<1>1. ASSUME NEW p \in Pods, NEW n \in Nodes, Schedule(p, n) PROVE EscapeInv'
  <2>1. UNCHANGED <<owner, terminating, gone>> /\ missed \subseteq missed'
    BY <1>1 DEF Schedule
  <2>2. CASE n # node
    <3>1. OnNode' \subseteq OnNode
      BY <1>0, <1>1, <2>2 DEF Schedule
    <3> QED BY <1>0, <2>1, <3>1 DEF OnNode
  <2>3. CASE n = node
    <3>1. OnNode' \subseteq OnNode \union {p}
      BY <1>0, <1>1 DEF Schedule
    <3>2. owner[node] # run
      <4>1. run \in Runs
        BY DEF RunsOK, Runs
      <4> QED BY <1>1, <2>3, <4>1 DEF Schedule, OwnInv
    <3>3. pc \in {"get", "update"} => p \in missed'
      BY <1>1, <2>3 DEF Schedule
    <3> QED BY <1>0, <2>1, <3>1, <3>2, <3>3
  <2> QED BY <2>2, <2>3
<1>2. ASSUME NEW p \in Pods, Delete(p) \/ Terminate(p) PROVE EscapeInv'
  <2>1. UNCHANGED <<missed, owner>> /\ OnNode' \subseteq OnNode
    BY <1>0, <1>2 DEF Delete, Terminate
  <2> QED BY <1>0, <2>1
<1>3. ASSUME NEW n \in Nodes, Touch(n) PROVE EscapeInv'
  BY <1>0, <1>3 DEF Touch
<1>4. ASSUME NEW n \in Nodes, NEW c \in BOOLEAN, SetCordon(n, c) PROVE EscapeInv'
  <2>1. UNCHANGED missed /\ OnNode' = OnNode
    BY <1>0, <1>4 DEF SetCordon
  <2>2. ASSUME node # None, owner'[node] = run PROVE owner[node] = run
    BY <1>4, <2>2 DEF SetCordon, OwnersOK, RunsOK
  <2> QED BY <1>0, <2>1, <2>2
<1> QED BY <1>1, <1>2, <1>3, <1>4 DEF Cluster

LEMMA EscapeStep ==
  ASSUME PlacesOK, RecordInv, RunsOK, OwnersOK, OwnInv, EscapeInv, [Next]_vars
  PROVE  EscapeInv'
<1> USE DEF RecordInv, EscapeInv, OnNode, Live, clusterVars, runVars
<1>1. CASE Cluster
  BY <1>1, EscapeCluster
<1>2. CASE List
  BY <1>2, NoneAssumption DEF List, InjectReturns, PlacesOK
<1>3. CASE CordonGet
  BY <1>3 DEF CordonGet, InjectReturns
<1>4. CASE CordonUpdate
  BY <1>4 DEF CordonUpdate, Write, WriteFails, InjectReturns
<1>5. ASSUME NEW p \in Pods, Evict(p) PROVE EscapeInv'
  BY <1>5 DEF Evict, EvictFails, Remove, InjectReturns
<1>6. CASE EvictionsDone
  BY <1>6 DEF EvictionsDone, InjectReturns
<1>7. CASE RollbackGet
  BY <1>7 DEF RollbackGet, RollbackReturns
<1>8. CASE Uncordon
  BY <1>8 DEF Uncordon, RollbackReturns
<1>9. CASE Kill
  BY <1>9 DEF Kill
<1>10. CASE Rerun
  BY <1>10 DEF Rerun
<1>11. CASE UNCHANGED vars
  BY <1>11 DEF vars
<1> QED BY <1>1, <1>2, <1>3, <1>4, <1>5, <1>6, <1>7, <1>8, <1>9, <1>10, <1>11 DEF Next, Drainer, Done

\* The pods Inject returns are going or gone; without an error they are all those
\* it listed, and whatever runs on the node beside them came before its cordon.
THEOREM InjectedPodsAreEvicted == Spec => []InjectedMeansEvicted
<1>1. Init => EvictedInv /\ EscapeInv
  BY DEF Init, EvictedInv, EscapeInv
<1>2. TypeInv /\ OwnInv /\ EvictedInv /\ EscapeInv /\ [Next]_vars => EvictedInv' /\ EscapeInv'
  BY EvictedStep, EscapeStep DEF TypeInv
<1>3. EvictedInv /\ EscapeInv => InjectedMeansEvicted
  BY DEF EvictedInv, EscapeInv, OnNode, InjectedMeansEvicted
<1> QED BY <1>1, <1>2, <1>3, OwnAlways, PTL DEF Spec

(***************************************************************************)
(* Each run keeps the contract of Injector.                                *)
(***************************************************************************)

\* A run that is not over has neither failed nor been killed.
OverInv == pc # "done" => run \notin failed \union killed

LEMMA OverStep ==
  ASSUME RunsOK, OverInv, [Next]_vars PROVE OverInv'
<1> USE BoundAssumption DEF RunsOK, OverInv, Runs, clusterVars, runVars
<1>1. CASE Cluster
  BY <1>1 DEF Cluster, Schedule, Delete, Terminate, Touch, SetCordon
<1>2. CASE List
  BY <1>2 DEF List, InjectReturns
<1>3. CASE CordonGet
  BY <1>3 DEF CordonGet, GetNode, InjectReturns
<1>4. CASE CordonUpdate
  BY <1>4 DEF CordonUpdate, InjectReturns
<1>5. ASSUME NEW p \in Pods, Evict(p) PROVE OverInv'
  BY <1>5 DEF Evict, InjectReturns
<1>6. CASE EvictionsDone
  BY <1>6 DEF EvictionsDone, InjectReturns
<1>7. CASE RollbackGet
  BY <1>7 DEF RollbackGet, GetNode, RollbackReturns
<1>8. CASE Uncordon
  BY <1>8 DEF Uncordon, RollbackReturns
<1>9. CASE Kill
  BY <1>9 DEF Kill
<1>10. CASE Rerun
  BY <1>10 DEF Rerun
<1>11. CASE UNCHANGED vars
  BY <1>11 DEF vars
<1> QED BY <1>1, <1>2, <1>3, <1>4, <1>5, <1>6, <1>7, <1>8, <1>9, <1>10, <1>11 DEF Next, Drainer, Done

ContractInv == TypeInv /\ OwnInv /\ OverInv

Steps(k) == Contract(k)!InjectorNext \/ UNCHANGED Contract(k)!injectorVars

Standing(k) == \E n \in Nodes : owner[n] = k

LEMMA Phases ==
  /\ pc = "list" => Phase = "idle"
  /\ pc \in {"get", "update", "evict"} => Phase = "injecting"
  /\ pc \in {"injected", "uncordon"} => Phase = "injected"
  /\ pc = "done" => Phase = "rolled back"
<1>1. pc = "list" => Phase = "idle"
  BY Zenon DEF Phase
<1>2. pc \in {"get", "update", "evict"} => Phase = "injecting"
  BY Zenon DEF Phase
<1>3. pc \in {"injected", "uncordon"} => Phase = "injected"
  BY Zenon DEF Phase
<1>4. pc = "done" => Phase = "rolled back"
  BY Zenon DEF Phase
<1> QED BY <1>1, <1>2, <1>3, <1>4

\* The steps of the contract, for a run of which call and standing are known.
LEMMA ContractSteps ==
  ASSUME NEW k \in 1 .. MaxRuns,
         \/ Contract(k)!Begin \/ Contract(k)!Strike \/ Contract(k)!StrikeUnanswered
         \/ Contract(k)!Return \/ Contract(k)!Undo \/ Contract(k)!Die \/ Contract(k)!Disturb
         \/ UNCHANGED <<CallOf(k), Standing(k), k \in blind>>
  PROVE  Steps(k)
BY DEF Steps, Contract!InjectorNext, Contract!injectorVars, Standing

\* What a step may do to the record of the runs: it adds the current run, or begins
\* the next one.
Effect == /\ \/ run' = run
             \/ Rerun /\ run' = run + 1 /\ pc' = "list" /\ UNCHANGED <<failed, killed, blind>>
          /\ failed' \in {failed, failed \union {run}}
          /\ killed' \in {killed, killed \union {run}}
          /\ blind' \in {blind, blind \union {run}}
          /\ \A n \in Nodes : owner'[n] \in {owner[n], run, Others, None}

LEMMA EffectStep ==
  ASSUME OwnersOK, [Next]_vars PROVE Effect
<1> USE DEF Effect, OwnersOK, clusterVars, runVars
<1>1. CASE Cluster
  BY <1>1 DEF Cluster, Schedule, Delete, Terminate, Touch, SetCordon
<1>2. CASE List
  BY <1>2 DEF List, InjectReturns
<1>3. CASE CordonGet
  BY <1>3 DEF CordonGet, GetNode, InjectReturns
<1>4. CASE CordonUpdate
  BY <1>4 DEF CordonUpdate, Write, WriteFails, InjectReturns
<1>5. ASSUME NEW p \in Pods, Evict(p) PROVE Effect
  BY <1>5 DEF Evict, EvictFails, Remove, InjectReturns
<1>6. CASE EvictionsDone
  BY <1>6 DEF EvictionsDone, InjectReturns
<1>7. CASE RollbackGet
  BY <1>7 DEF RollbackGet, GetNode, RollbackReturns
<1>8. CASE Uncordon
  BY <1>8 DEF Uncordon, Write, WriteFails, RollbackReturns
<1>9. CASE Kill
  BY <1>9 DEF Kill
<1>10. CASE Rerun
  BY <1>10 DEF Rerun
<1>11. CASE UNCHANGED vars
  BY <1>11 DEF vars
<1> QED BY <1>1, <1>2, <1>3, <1>4, <1>5, <1>6, <1>7, <1>8, <1>9, <1>10, <1>11 DEF Next, Drainer, Done

\* A run that is over, or has not begun, stays in its call.
LEMMA OtherRuns ==
  ASSUME RunsOK, Effect, NEW k \in 1 .. MaxRuns, k # run
  PROVE  /\ CallOf(k)' = CallOf(k)
         /\ (k \in blind)' = (k \in blind)
         /\ Standing(k)' => Standing(k)
<1> USE BoundAssumption, NoneAssumption DEF RunsOK, Runs, Effect
<1>1. k \in Nat /\ run \in Nat /\ (k > run => k \notin failed \union killed)
  OBVIOUS
<1>2. (k \in blind)' = (k \in blind) /\ (k \in failed)' = (k \in failed) /\ (k \in killed)' = (k \in killed)
  OBVIOUS
<1>3. Standing(k)' => Standing(k)
  BY <1>1 DEF Standing
<1>4. CASE k < run
  <2>1. k < run' /\ ~(k > run) /\ ~(k > run')
    BY <1>1, <1>4
  <2>2. CallOf(k)' = CallOf(k)
    BY <1>2, <2>1, <1>4 DEF CallOf
  <2> QED BY <1>2, <1>3, <2>2
<1>5. CASE k > run
  <2>1. CallOf(k) = "idle"
    BY <1>5 DEF CallOf
  <2>2. CASE k > run'
    BY <1>2, <1>3, <2>1, <2>2 DEF CallOf
  <2>3. CASE ~(k > run')
    <3>0. run' = run + 1 /\ pc' = "list"
      BY <1>5, <2>3
    <3>1. k = run' /\ pc' = "list" /\ k \notin failed' \union killed'
      BY <1>1, <1>2, <1>5, <2>3, <3>0
    <3>2. Phase' = "idle"
      BY <3>1, Zenon DEF Phase
    <3>3. ~(k > run') /\ ~(k < run')
      BY <1>1, <3>1
    <3>4. CallOf(k)' = "idle"
      BY <3>1, <3>2, <3>3 DEF CallOf
    <3> QED BY <1>2, <1>3, <2>1, <3>4
  <2> QED BY <2>2, <2>3
<1> QED BY <1>1, <1>4, <1>5

\* The current run is in the call that pc says, and not in two states at once.
LEMMA CurrentRun ==
  ASSUME RunsOK, OverInv, NEW k \in 1 .. MaxRuns, run = k
  PROVE  /\ pc = "list" => CallOf(k) = "idle"
         /\ pc \in {"get", "update", "evict"} => CallOf(k) = "injecting"
         /\ pc \in {"injected", "uncordon"} => CallOf(k) = "injected"
         /\ k \in killed => CallOf(k) = "killed"
         /\ k \in failed /\ k \notin killed => CallOf(k) = "failed"
         /\ pc = "done" /\ k \notin failed \union killed => CallOf(k) = "rolled back"
<1>1. ~(run > run) /\ ~(run < run)
  BY BoundAssumption DEF RunsOK
<1> QED BY <1>1, Phases DEF CallOf, OverInv

LEMMA CurrentRunNext ==
  ASSUME RunsOK, OverInv', NEW k \in 1 .. MaxRuns, run = k, run' = k
  PROVE  /\ pc' = "list" => CallOf(k)' = "idle"
         /\ pc' \in {"get", "update", "evict"} => CallOf(k)' = "injecting"
         /\ pc' \in {"injected", "uncordon"} => CallOf(k)' = "injected"
         /\ k \in killed' => CallOf(k)' = "killed"
         /\ k \in failed' /\ k \notin killed' => CallOf(k)' = "failed"
         /\ pc' = "done" /\ k \notin failed' \union killed' => CallOf(k)' = "rolled back"
<1>1. ~(run' > run') /\ ~(run' < run')
  BY BoundAssumption DEF RunsOK
<1>2. pc' = "list" => Phase' = "idle"
  BY Zenon DEF Phase
<1>3. pc' \in {"get", "update", "evict"} => Phase' = "injecting"
  BY Zenon DEF Phase
<1>4. pc' \in {"injected", "uncordon"} => Phase' = "injected"
  BY Zenon DEF Phase
<1>5. pc' = "done" => Phase' = "rolled back"
  BY Zenon DEF Phase
<1> QED BY <1>1, <1>2, <1>3, <1>4, <1>5 DEF CallOf, OverInv

LEMMA RunNumber == ASSUME NEW k \in 1 .. MaxRuns PROVE k \in Nat /\ k \in 1 .. k
BY BoundAssumption

\* The call the current run is in changes by its own steps only.
LEMMA CurrentStep ==
  ASSUME ContractInv, ContractInv', [Next]_vars, NEW k \in 1 .. MaxRuns, run = k, run' = k
  PROVE  Steps(k)
<1> USE DEF ContractInv, TypeInv
<1> USE NoneAssumption
<1>a. k \in Nat /\ k \in 1 .. k
  BY RunNumber
<1>0. ASSUME CallOf(k)' = CallOf(k), UNCHANGED blind, Standing(k)' => Standing(k)
      PROVE  Steps(k)
  BY <1>0, <1>a, ContractSteps DEF Contract!Disturb, Standing
<1>b. ASSUME UNCHANGED <<run, pc, failed, killed, blind>>, Standing(k)' => Standing(k)
      PROVE  Steps(k)
  <2>1. Phase' = Phase
    BY <1>b DEF Phase
  <2>2. CallOf(k)' = CallOf(k)
    BY <1>b, <2>1 DEF CallOf
  <2> QED BY <1>0, <1>b, <2>2
<1>c. UNCHANGED owner => Standing(k)' = Standing(k)
  BY DEF Standing
<1>1. CASE Cluster
  <2>1. Standing(k)' => Standing(k)
    BY <1>1, <1>a DEF Cluster, Schedule, Delete, Terminate, Touch, SetCordon, Standing, OwnersOK
  <2> QED BY <1>b, <1>1, <2>1 DEF Cluster, runVars
<1>2. CASE List
  <2>1. /\ CallOf(k) = "idle" /\ CallOf(k)' \in {"injecting", "injected"}
        /\ Standing(k)' = Standing(k) /\ UNCHANGED blind
    BY <1>2, <1>c, CurrentRun, CurrentRunNext DEF List, InjectReturns, runVars
  <2> QED BY <1>a, <2>1, ContractSteps DEF Contract!Begin, Standing
<1>3. CASE CordonGet
  <2>1. /\ CallOf(k) = "injecting" /\ CallOf(k)' \in {"injecting", "injected"}
        /\ Standing(k)' = Standing(k) /\ UNCHANGED blind
    BY <1>3, <1>c, CurrentRun, CurrentRunNext DEF CordonGet, InjectReturns, runVars
  <2> QED BY <1>0, <1>a, <2>1, ContractSteps DEF Contract!Return, Standing
<1>4. CASE CordonUpdate
  <2>1. CallOf(k) = "injecting"
    BY <1>4, CurrentRun DEF CordonUpdate
  <2>2. CASE WriteFails /\ InjectReturns(TRUE) /\ UNCHANGED <<cordoned, blind>>
    <3>1. CallOf(k)' = "injected" /\ Standing(k)' = Standing(k)
      BY <2>2, <1>c, CurrentRunNext DEF WriteFails, InjectReturns
    <3> QED BY <1>a, <2>1, <2>2, <3>1, ContractSteps DEF Contract!Return, Standing
  <2>3. ASSUME Write(TRUE), pc = "update" PROVE Standing(k)'
    <3>1. node \in Nodes
      BY <2>3 DEF RecordInv
    <3>2. owner'[node] = run
      BY <2>3, <3>1 DEF Write, OwnersOK
    <3> QED BY <3>1, <3>2 DEF Standing
  <2>4. CASE Write(TRUE) /\ cordoned' = node /\ pc' = "evict" /\ UNCHANGED <<injectErr, blind>>
    <3>1. CallOf(k)' = "injecting" /\ Standing(k)'
      BY <1>4, <2>3, <2>4, CurrentRunNext DEF CordonUpdate
    <3> QED BY <1>a, <2>1, <2>4, <3>1, ContractSteps DEF Contract!Strike, Standing
  <2>5. CASE Write(TRUE) /\ InjectReturns(TRUE) /\ blind' = blind \union {run}
    <3>1. CallOf(k)' = "injected" /\ Standing(k)'
      BY <1>4, <2>3, <2>5, CurrentRunNext DEF CordonUpdate, InjectReturns
    <3> QED BY <1>a, <2>1, <2>5, <3>1, ContractSteps DEF Contract!StrikeUnanswered, Standing
  <2> QED BY <1>4, <2>2, <2>4, <2>5 DEF CordonUpdate
<1>5. ASSUME NEW p \in Pods, Evict(p) PROVE Steps(k)
  <2>1. /\ CallOf(k) = "injecting" /\ CallOf(k)' \in {"injecting", "injected"}
        /\ Standing(k)' = Standing(k) /\ UNCHANGED blind
    BY <1>5, <1>c, CurrentRun, CurrentRunNext DEF Evict, InjectReturns, runVars
  <2> QED BY <1>0, <1>a, <2>1, ContractSteps DEF Contract!Return, Standing
<1>6. CASE EvictionsDone
  <2>1. /\ CallOf(k) = "injecting" /\ CallOf(k)' = "injected"
        /\ Standing(k)' = Standing(k) /\ UNCHANGED blind
    BY <1>6, <1>c, CurrentRun, CurrentRunNext DEF EvictionsDone, InjectReturns, runVars
  <2> QED BY <1>a, <2>1, ContractSteps DEF Contract!Return, Standing
<1>7. ASSUME RollbackGet \/ Uncordon PROVE Steps(k)
  <2>1. CallOf(k) = "injected" /\ UNCHANGED <<killed, blind>> /\ k \notin killed
    BY <1>7, CurrentRun DEF RollbackGet, Uncordon, OverInv
  <2>2. CallOf(k)' \in {"injected", "rolled back", "failed"}
    BY <1>7, <2>1, CurrentRunNext DEF RollbackGet, Uncordon, RollbackReturns
  <2>3. Standing(k)' => Standing(k)
    BY <1>7, <1>a, <1>c DEF RollbackGet, Uncordon, Write, WriteFails, Standing, OwnersOK
  <2>4. CallOf(k)' = "rolled back" => ~Standing(k)' \/ k \in blind
    <3> SUFFICES ASSUME CallOf(k)' = "rolled back", NEW n \in Nodes, owner'[n] = run
                 PROVE  k \in blind
      BY DEF Standing
    <3>1. pc' = "done" /\ k \notin failed' \union killed'
      <4>1. k \notin killed' /\ k \notin failed'
        BY CurrentRunNext
      <4>2. pc' \in {"uncordon", "done"}
        BY <1>7 DEF RollbackGet, Uncordon, RollbackReturns
      <4> QED BY <4>1, <4>2, CurrentRunNext
    <3>2. owner'[n] \in Runs'
      <4>1. Runs' = 1 .. k
        BY Zenon DEF Runs
      <4>2. owner'[n] = k
        OBVIOUS
      <4> QED BY <1>a, <4>1, <4>2, Zenon
    <3> QED BY <2>1, <3>1, <3>2 DEF OwnInv
  <2>5. CASE CallOf(k)' = "injected"
    BY <1>0, <2>1, <2>3, <2>5
  <2>6. CASE CallOf(k)' \in {"rolled back", "failed"}
    BY <1>a, <2>1, <2>3, <2>4, <2>6, ContractSteps DEF Contract!Undo, Standing
  <2> QED BY <2>2, <2>5, <2>6
<1>8. CASE Kill
  <2>1. /\ CallOf(k) \in {"injecting", "injected"} /\ CallOf(k)' = "killed"
        /\ Standing(k)' = Standing(k) /\ UNCHANGED blind
    BY <1>8, <1>c, CurrentRun, CurrentRunNext DEF Kill, RecordInv
  <2> QED BY <1>a, <2>1, ContractSteps DEF Contract!Die, Standing
<1>9. CASE UNCHANGED vars
  BY <1>b, <1>c, <1>9 DEF vars, runVars
<1>10. ~Rerun
  BY <1>a DEF Rerun
<1> QED BY <1>1, <1>2, <1>3, <1>4, <1>5, <1>6, <1>7, <1>8, <1>9, <1>10 DEF Next, Drainer, Done

\* Rerun begins the next run; the one before it is over and stays so.
LEMMA RerunStep ==
  ASSUME ContractInv, ContractInv', Rerun, NEW k \in 1 .. MaxRuns, run = k PROVE Steps(k)
<1> USE DEF ContractInv, TypeInv
<1>1. run' = k + 1 /\ k \in Nat
  BY DEF Rerun
<1>2. /\ k \notin killed /\ k \notin failed => CallOf(k) = "rolled back"
      /\ k \in killed => CallOf(k) = "killed"
      /\ k \in failed /\ k \notin killed => CallOf(k) = "failed"
  BY CurrentRun DEF Rerun
<1>3. ~(k > run') /\ k < run' /\ UNCHANGED <<failed, killed, blind, owner>>
  BY <1>1 DEF Rerun
<1>4. CallOf(k)' = CallOf(k)
  BY <1>2, <1>3 DEF CallOf
<1> QED BY <1>3, <1>4, ContractSteps DEF Standing

LEMMA ContractStep ==
  ASSUME ContractInv, ContractInv', [Next]_vars, NEW k \in 1 .. MaxRuns PROVE Steps(k)
<1> USE DEF ContractInv, TypeInv
<1>1. Effect
  BY EffectStep
<1>2. CASE k # run
  BY <1>1, <1>2, OtherRuns, ContractSteps DEF Contract!Disturb, Standing
<1>3. CASE k = run /\ Rerun
  BY <1>3, RerunStep
<1>4. CASE k = run /\ ~Rerun
  <2>1. run' = k
    BY <1>1, <1>4 DEF Effect
  <2> QED BY <1>4, <2>1, CurrentStep
<1> QED BY <1>2, <1>3, <1>4

\* Each run of the injector is an Injector: the fault it stands for is its cordon.
THEOREM NodeDrainKeepsContract == Spec => ImplementsInjector
<1>1. Init => \A k \in 1 .. MaxRuns : Contract(k)!InjectorInit
  <2> SUFFICES ASSUME Init, NEW k \in 1 .. MaxRuns PROVE Contract(k)!InjectorInit
    OBVIOUS
  <2>1. CallOf(k) = "idle"
    <3>1. k = 1 => ~(k > run) /\ ~(k < run) /\ Phase = "idle"
      BY Phases DEF Init
    <3>2. k # 1 => k > run
      BY BoundAssumption DEF Init
    <3> QED BY <3>1, <3>2 DEF Init, CallOf
  <2> QED BY <2>1, NoneAssumption DEF Init, Contract!InjectorInit
<1>2. Init => OwnInv /\ OverInv
  BY NoneAssumption DEF Init, OwnInv, OverInv, Runs
<1>3. TypeInv /\ OwnInv /\ OverInv /\ [Next]_vars => OwnInv' /\ OverInv'
  BY OwnStep, OverStep DEF TypeInv
<1>4. ContractInv /\ ContractInv' /\ [Next]_vars =>
        \A k \in 1 .. MaxRuns : Contract(k)!InjectorNext \/ UNCHANGED Contract(k)!injectorVars
  BY ContractStep DEF Steps
<1> QED BY <1>1, <1>2, <1>3, <1>4, TypeAlways, PTL DEF Spec, ContractInv, ImplementsInjector
=============================================================================
