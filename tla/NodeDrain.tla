----------------------------- MODULE NodeDrain -------------------------------
(***************************************************************************)
(* inject.NodeDrainer: runs one after the other, each an Inject and a      *)
(* Rollback as the sequences of API calls they are, against a cluster that *)
(* other actors change between two of them.  A run may be killed, and what *)
(* it has recorded is gone with it.                                        *)
(*                                                                         *)
(* An API call is one step.  It may be refused, or be applied with its     *)
(* answer lost (a timeout, a broken connection, a context cancelled in     *)
(* flight): the code sees an error either way.  An Update carries the      *)
(* version its Get returned and is rejected if the node has changed since: *)
(* of the version it is remembered whether it is still the node's.         *)
(* A pod that is deleted terminates first and does not come back: its      *)
(* replacement is another pod, pending until it is scheduled.              *)
(***************************************************************************)
EXTENDS Naturals, FiniteSets

CONSTANTS Nodes, Pods,       \* the target pods, those that will replace them included
          None,              \* no node: d.cordoned == "", an unscheduled or deleted pod; nobody
          Others,            \* the actors that are no run of the harness
          Failures,          \* what may happen: "refused", "lost", "killed"
          OthersCordon,      \* whether other actors cordon and uncordon nodes
          MaxRuns            \* bound: how often the harness is run

ASSUME NoneAssumption == None \notin Nodes /\ None \notin Nat /\ Others \notin Nat /\ None # Others
ASSUME FailureAssumption == Failures \subseteq {"refused", "lost", "killed"} /\ OthersCordon \in BOOLEAN
ASSUME BoundAssumption == MaxRuns \in Nat \ {0}

VARIABLES
  unschedulable,             \* of each node
  place,                     \* the node of each pod, None before it is scheduled
  terminating, gone,         \* the pods with a deletion timestamp, the pods deleted
  pc,                        \* the call to make next
  node,                      \* the node Inject has picked
  changed,                   \* the node was written to after the Get and before the Update
  listed, todo,              \* the pods of byNode[node]; those still to evict
  evicted,                   \* what Inject returns
  cordoned,                  \* d.cordoned
  injectErr,
  run,                       \* the number of this run
  failed, killed,            \* history: the runs whose Rollback returned an error, those killed
  blind,                     \* history: the runs whose cordon got no answer
  missed,                    \* history: the pods that arrived between List and the cordon
  owner                      \* history: of each node, who cordoned it last, None if uncordoned;
                             \* what Others have cordoned stays theirs if a run uncordons it

clusterVars == <<unschedulable, place, terminating, gone>>
runVars == <<run, failed, killed, blind>>
vars == <<clusterVars, pc, node, changed, listed, todo, evicted, cordoned, injectErr, runVars, missed,
          owner>>

Live == {p \in Pods : place[p] # None /\ p \notin terminating \union gone}

Init == /\ unschedulable \in [Nodes -> BOOLEAN]
        /\ place \in [Pods -> Nodes \union {None}]
        /\ terminating = {} /\ gone = {}
        /\ pc = "list"
        /\ node = None /\ changed = FALSE
        /\ listed = {} /\ todo = {} /\ evicted = {}
        /\ cordoned = None
        /\ injectErr = FALSE
        /\ run = 1 /\ failed = {} /\ killed = {} /\ blind = {} /\ missed = {}
        /\ owner = [n \in Nodes |-> IF unschedulable[n] THEN Others ELSE None]

-----------------------------------------------------------------------------
(* The rest of the cluster: the scheduler, the kubelets, other clients. *)

Schedule(p, n) == /\ place[p] = None
                  /\ ~unschedulable[n]
                  /\ place' = [place EXCEPT ![p] = n]
                  /\ missed' = IF pc \in {"get", "update"} /\ n = node THEN missed \union {p}
                                                                    ELSE missed
                  /\ UNCHANGED <<unschedulable, terminating, gone, owner, changed>>

Delete(p) == /\ p \in Live
             /\ terminating' = terminating \union {p}
             /\ UNCHANGED <<unschedulable, place, gone, missed, owner, changed>>

Terminate(p) == /\ p \in terminating
                /\ terminating' = terminating \ {p}
                /\ gone' = gone \union {p}
                /\ UNCHANGED <<unschedulable, place, missed, owner, changed>>

\* The node that was read is written to before it is updated.
Between(n) == n = node /\ pc \in {"update", "uncordon"}

\* A heartbeat, a label or a taint: any other write to the node.
Touch(n) == /\ Between(n)
            /\ changed' = TRUE
            /\ UNCHANGED <<unschedulable, place, terminating, gone, missed, owner>>

SetCordon(n, c) == /\ OthersCordon
                   /\ owner' = [owner EXCEPT ![n] = IF c THEN Others ELSE None]
                   /\ unschedulable' = [unschedulable EXCEPT ![n] = c]
                   /\ changed' = (changed \/ Between(n))
                   /\ UNCHANGED <<place, terminating, gone, missed>>

\* Followed until the runs are over.
Cluster == /\ \/ \E p \in Pods : Delete(p) \/ Terminate(p) \/ \E n \in Nodes : Schedule(p, n)
              \/ \E n \in Nodes : Touch(n) \/ \E c \in BOOLEAN : SetCordon(n, c)
           /\ pc # "done" \/ run < MaxRuns
           /\ UNCHANGED <<pc, node, listed, todo, evicted, cordoned, injectErr, runVars>>

-----------------------------------------------------------------------------
(* The calls. *)

Refused == "refused" \in Failures

\* Inject returns err, or nil.
InjectReturns(err) == pc' = "injected" /\ injectErr' = err

RollbackReturns(err) == /\ pc' = "done"
                        /\ failed' = IF err THEN failed \union {run} ELSE failed

\* Get: the version it returns is the node's.
GetNode == changed' = FALSE

\* Update is applied: the node is as it was read, its cordon set to c.
Write(c) == /\ ~changed
            /\ unschedulable' = [unschedulable EXCEPT ![node] = c]
            /\ owner' = [owner EXCEPT ![node] = IF c THEN run ELSE IF @ = Others THEN @ ELSE None]
            /\ UNCHANGED <<place, terminating, gone>>

\* Update fails without effect: refused, or a conflict.
WriteFails == /\ Refused \/ changed
              /\ UNCHANGED <<clusterVars, owner>>

-----------------------------------------------------------------------------
(* Inject. *)

\* List, and the choice of a node among those that host a live pod.
List == /\ pc = "list"
        /\ \/ /\ Refused \/ Live = {}
              /\ InjectReturns(TRUE)
              /\ UNCHANGED <<node, listed, todo>>
           \/ /\ \E p \in Live : node' = place[p]
              /\ listed' = {p \in Live : place[p] = node'}
              /\ todo' = listed'
              /\ pc' = "get"
              /\ UNCHANGED injectErr
        /\ UNCHANGED <<clusterVars, changed, evicted, cordoned, runVars, missed, owner>>

\* A node that is cordoned already is recorded like one that Inject cordons.
CordonGet == /\ pc = "get"
             /\ \/ Refused /\ InjectReturns(TRUE) /\ UNCHANGED <<changed, cordoned>>
                \/ /\ GetNode
                   /\ UNCHANGED injectErr
                   /\ IF unschedulable[node] THEN cordoned' = node /\ pc' = "evict"
                                             ELSE pc' = "update" /\ UNCHANGED cordoned
             /\ UNCHANGED <<clusterVars, node, listed, todo, evicted, runVars, missed, owner>>

\* Mutated: only a node that was cordoned already is recorded.
CordonUpdate_NotRecorded ==
  /\ pc = "update"
  /\ \/ WriteFails /\ InjectReturns(TRUE) /\ UNCHANGED blind
     \/ Write(TRUE) /\ pc' = "evict" /\ UNCHANGED <<injectErr, blind>>
     \/ "lost" \in Failures /\ Write(TRUE) /\ InjectReturns(TRUE) /\ blind' = blind \union {run}
  /\ UNCHANGED <<node, changed, listed, todo, evicted, cordoned, run, failed, killed, missed>>

CordonUpdate == /\ pc = "update"
                /\ \/ WriteFails /\ InjectReturns(TRUE) /\ UNCHANGED <<cordoned, blind>>
                   \/ Write(TRUE) /\ cordoned' = node /\ pc' = "evict" /\ UNCHANGED <<injectErr, blind>>
                   \/ /\ "lost" \in Failures
                      /\ Write(TRUE) /\ InjectReturns(TRUE)
                      /\ blind' = blind \union {run}
                      /\ UNCHANGED cordoned
                /\ UNCHANGED <<node, changed, listed, todo, evicted, run, failed, killed, missed>>

\* The eviction of a pod that is there; one that is going already is accepted too.
Remove(p) == terminating' = IF p \in gone THEN terminating ELSE terminating \union {p}

\* evict returns an error: anything but NotFound.
EvictFails(p) == \/ Refused /\ p \notin gone /\ UNCHANGED terminating
                 \/ "lost" \in Failures /\ Remove(p)

\* Mutated: every error is tolerated, as if the pod were gone.
Evict_ToleratesErrors(p) ==
  /\ pc = "evict" /\ p \in todo
  /\ Remove(p) \/ UNCHANGED terminating
  /\ evicted' = evicted \union {p} /\ todo' = todo \ {p}
  /\ UNCHANGED <<unschedulable, place, gone, pc, node, changed, listed, cordoned, injectErr,
                 runVars, missed, owner>>

\* A disruption budget may refuse it, which ends Inject; a pod not found counts as
\* evicted.
Evict(p) == /\ pc = "evict" /\ p \in todo
            /\ \/ /\ Remove(p)
                  /\ evicted' = evicted \union {p} /\ todo' = todo \ {p}
                  /\ UNCHANGED <<pc, injectErr>>
               \/ /\ EvictFails(p)
                  /\ InjectReturns(TRUE)
                  /\ UNCHANGED <<evicted, todo>>
            /\ UNCHANGED <<unschedulable, place, gone, node, changed, listed, cordoned,
                           runVars, missed, owner>>

EvictionsDone == /\ pc = "evict" /\ todo = {}
                 /\ InjectReturns(FALSE)
                 /\ UNCHANGED <<clusterVars, node, changed, listed, todo, evicted, cordoned, runVars,
                                missed, owner>>

-----------------------------------------------------------------------------
(* Rollback, which execute defers whether or not Inject failed. *)

RollbackGet == /\ pc = "injected"
               /\ \/ cordoned = None /\ RollbackReturns(FALSE) /\ UNCHANGED changed
                  \/ cordoned # None /\ Refused /\ RollbackReturns(TRUE) /\ UNCHANGED changed
                  \/ /\ cordoned # None
                     /\ GetNode
                     /\ IF unschedulable[cordoned] THEN pc' = "uncordon" /\ UNCHANGED failed
                                                   ELSE RollbackReturns(FALSE)
               /\ UNCHANGED <<clusterVars, node, listed, todo, evicted, cordoned, injectErr, run, killed,
                              blind, missed, owner>>

\* Mutated: the node having changed is taken for the node having been uncordoned.
Uncordon_ToleratesConflict ==
  /\ pc = "uncordon"
  /\ \/ Refused /\ ~changed /\ UNCHANGED <<clusterVars, owner>> /\ RollbackReturns(TRUE)
     \/ changed /\ UNCHANGED <<clusterVars, owner>> /\ RollbackReturns(FALSE)
     \/ Write(FALSE) /\ RollbackReturns(FALSE)
  /\ UNCHANGED <<node, changed, listed, todo, evicted, cordoned, injectErr, run, killed, blind, missed>>

Uncordon == /\ pc = "uncordon"
            /\ \/ WriteFails /\ RollbackReturns(TRUE)
               \/ Write(FALSE) /\ RollbackReturns(FALSE)
               \/ "lost" \in Failures /\ Write(FALSE) /\ RollbackReturns(TRUE)
            /\ UNCHANGED <<node, changed, listed, todo, evicted, cordoned, injectErr, run, killed, blind,
                            missed>>

-----------------------------------------------------------------------------
(* The process. *)

\* SIGKILL, a lost node, a second interrupt: no deferred function runs.
Kill == /\ "killed" \in Failures
        /\ pc \notin {"list", "done"}
        /\ pc' = "done"
        /\ killed' = killed \union {run}
        /\ UNCHANGED <<clusterVars, node, changed, listed, todo, evicted, cordoned, injectErr, run, failed,
                       blind, missed, owner>>

\* A new process: NewNodeDrainer, nothing recorded.
Rerun == /\ pc = "done" /\ run < MaxRuns
         /\ run' = run + 1
         /\ pc' = "list"
         /\ node' = None /\ cordoned' = None /\ injectErr' = FALSE
         /\ listed' = {} /\ todo' = {} /\ evicted' = {} /\ missed' = {}
         /\ changed' = FALSE
         /\ UNCHANGED <<clusterVars, failed, killed, blind, owner>>

Done == pc = "done" /\ run = MaxRuns /\ UNCHANGED vars

Drainer == \/ List \/ CordonGet \/ CordonUpdate \/ (\E p \in Pods : Evict(p)) \/ EvictionsDone
           \/ RollbackGet \/ Uncordon

Next == Cluster \/ Drainer \/ Kill \/ Rerun \/ Done

Spec == Init /\ [][Next]_vars

-----------------------------------------------------------------------------
(* Properties. *)

Runs == 1 .. run

\* Every variable holds a value the code's variable can hold; a pod of byNode[node]
\* is either still to be evicted or among those returned.
TypeOK == /\ unschedulable \in [Nodes -> BOOLEAN]
          /\ place \in [Pods -> Nodes \union {None}]
          /\ terminating \subseteq Pods /\ gone \subseteq Pods
          /\ pc \in {"list", "get", "update", "evict", "injected", "uncordon", "done"}
          /\ node \in Nodes \union {None}
          /\ cordoned \in {None, node}
          /\ changed \in BOOLEAN
          /\ listed \subseteq Pods /\ missed \subseteq Pods
          /\ todo \union evicted = listed /\ todo \intersect evicted = {}
          /\ injectErr \in BOOLEAN
          /\ run \in 1 .. MaxRuns
          /\ failed \subseteq Runs /\ killed \subseteq Runs /\ blind \subseteq Runs
          /\ owner \in [Nodes -> Runs \union {None, Others}]

\* A node stays cordoned by a run that is over only if the answer to the cordon was
\* lost, the rollback reported an error or the process was killed: whatever else
\* fails (an eviction half way, a conflict, a cancelled context), cordon has recorded
\* the node, and runs after it do not strand more than their own ("so the cluster is
\* left schedulable and the experiment can run again").
StrandsOnlyOnError ==
  \A n \in Nodes : owner[n] \in Runs =>
    \/ owner[n] = run /\ pc # "done"
    \/ owner[n] \in blind \union failed \union killed

\* An Inject that succeeds has evicted all the pods it listed, and a pod it
\* returns, in whatever case, is going or gone (evict tolerates NotFound only).  A
\* pod that escapes ("evicts every target pod scheduled there") was scheduled
\* between the List and the cordon: as long as the cordon stands nothing else of the
\* workload runs on the node.
InjectedMeansEvicted ==
  /\ evicted \subseteq terminating \union gone
  /\ pc = "injected" /\ ~injectErr =>
       /\ evicted = listed
       /\ owner[node] = run => {p \in Live : place[p] = node} \subseteq missed

\* Each run implements the contract of Injector: it cordons while it injects, never
\* again, and its Rollback returns nil only once its cordon is gone.
Phase == CASE pc = "list" -> "idle"
           [] pc \in {"get", "update", "evict"} -> "injecting"
           [] pc \in {"injected", "uncordon"} -> "injected"
           [] pc = "done" -> "rolled back"

CallOf(k) == IF k > run THEN "idle"
             ELSE IF k \in killed THEN "killed"
             ELSE IF k \in failed THEN "failed"
             ELSE IF k < run THEN "rolled back" ELSE Phase

Contract(k) == INSTANCE Injector WITH call <- CallOf(k), standing <- \E n \in Nodes : owner[n] = k,
                                      blind <- k \in blind

ImplementsInjector ==
  /\ \A k \in 1 .. MaxRuns : Contract(k)!InjectorInit
  /\ [][\A k \in 1 .. MaxRuns : Contract(k)!InjectorNext \/ UNCHANGED Contract(k)!injectorVars]_vars

\* nodedrain.go:77: "Rollback uncordons the node Inject cordoned", and no other: a node
\* that somebody else keeps cordoned stays so.
OthersCordonsStand == \A n \in Nodes : owner[n] = Others => unschedulable[n]
=============================================================================
