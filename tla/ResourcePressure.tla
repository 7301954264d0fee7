-------------------------- MODULE ResourcePressure ---------------------------
(***************************************************************************)
(* inject.ResourcePresser: harness processes, one after the other or       *)
(* overlapping, each of which creates a CPU-hog pod under a random name    *)
(* and deletes it by that name.                                            *)
(*                                                                         *)
(* An API call is one step, with the failures of module NodeDrain.  A hog  *)
(* has a grace period of 0: a deletion removes it at once.  A hog can also *)
(* be deleted by others, and its name is then free again.  The node that   *)
(* is picked and the pods that share it decide nothing here and are left   *)
(* out.                                                                    *)
(***************************************************************************)
EXTENDS FiniteSets

CONSTANTS Runs,       \* the harness processes
          Names,      \* the names a hog can get
          None,       \* no pod of that name, r.podName == ""
          Failures    \* what may happen: "refused", "lost", "killed"

ASSUME NoneAssumption == None \notin Runs /\ None \notin Names
ASSUME FailureAssumption == Failures \subseteq {"refused", "lost", "killed"}

VARIABLES
  hogs,               \* the cluster: for each name the process that created the pod
  pc,                 \* of each process: the call to make next
  podName,            \* r.podName
  injectErr, rollbackErr,    \* the processes whose Inject, Rollback returned an error
  lost,               \* history: the processes whose Create got no answer
  robbed,             \* history: those whose hog others deleted
  victims             \* history: those whose hog another process deleted

vars == <<hogs, pc, podName, injectErr, rollbackErr, lost, robbed, victims>>

Init == /\ hogs = [n \in Names |-> None]
        /\ pc = [h \in Runs |-> "list"]
        /\ podName = [h \in Runs |-> None]
        /\ injectErr = {} /\ rollbackErr = {}
        /\ lost = {} /\ robbed = {} /\ victims = {}

Refused == "refused" \in Failures

Step(h, to) == pc' = [pc EXCEPT ![h] = to]
InjectFails(h) == Step(h, "injected") /\ injectErr' = injectErr \union {h}

\* A user, a node drain, an eviction under pressure.
OthersDelete(n) == /\ hogs[n] # None
                   /\ \E h \in Runs : pc[h] \notin {"done", "killed"}
                   /\ robbed' = robbed \union {hogs[n]}
                   /\ hogs' = [hogs EXCEPT ![n] = None]
                   /\ UNCHANGED <<pc, podName, injectErr, rollbackErr, lost, victims>>

\* List, and the choice of a node: there may be none that hosts a target pod.
List(h) == /\ pc[h] = "list"
           /\ \/ InjectFails(h)
              \/ Step(h, "create") /\ UNCHANGED injectErr
           /\ UNCHANGED <<hogs, podName, rollbackErr, lost, robbed, victims>>

\* Mutated: a pod of that name is taken for the one to create.
Create_ToleratesExisting(h) ==
  /\ pc[h] = "create"
  /\ \E n \in Names : /\ podName' = [podName EXCEPT ![h] = n]
                      /\ hogs' = [hogs EXCEPT ![n] = IF @ = None THEN h ELSE @]
  /\ Step(h, "injected")
  /\ UNCHANGED <<injectErr, rollbackErr, lost, robbed, victims>>

\* A name that is in use is an error like any other.
Create(h) == /\ pc[h] = "create"
             /\ \E n \in Names :
                  \/ /\ hogs[n] = None
                     /\ hogs' = [hogs EXCEPT ![n] = h]
                     /\ \/ /\ podName' = [podName EXCEPT ![h] = n] /\ Step(h, "injected")
                           /\ UNCHANGED <<injectErr, lost>>
                        \/ /\ "lost" \in Failures
                           /\ InjectFails(h) /\ lost' = lost \union {h}
                           /\ UNCHANGED podName
                  \/ /\ Refused \/ hogs[n] # None
                     /\ InjectFails(h)
                     /\ UNCHANGED <<hogs, podName, lost>>
             /\ UNCHANGED <<rollbackErr, robbed, victims>>

\* Delete is applied to whatever pod has the name; none is as good (NotFound).
DeleteByName(h) == /\ hogs' = [hogs EXCEPT ![podName[h]] = None]
                   /\ victims' = victims \union ({hogs[podName[h]]} \ {h, None})

\* Mutated: every error is tolerated like NotFound.
Rollback_ToleratesErrors(h) ==
  /\ pc[h] = "injected"
  /\ Step(h, "done")
  /\ \/ podName[h] # None /\ DeleteByName(h)
     \/ UNCHANGED <<hogs, victims>>
  /\ UNCHANGED <<podName, injectErr, rollbackErr, lost, robbed>>

Rollback(h) == /\ pc[h] = "injected"
               /\ Step(h, "done")
               /\ \/ podName[h] = None /\ UNCHANGED <<hogs, victims, rollbackErr>>
                  \/ podName[h] # None /\ DeleteByName(h) /\ UNCHANGED rollbackErr
                  \/ /\ podName[h] # None
                     /\ \/ "lost" \in Failures /\ hogs[podName[h]] # None /\ DeleteByName(h)
                        \/ Refused /\ UNCHANGED <<hogs, victims>>
                     /\ rollbackErr' = rollbackErr \union {h}
               /\ UNCHANGED <<podName, injectErr, lost, robbed>>

\* What the process has recorded is gone with it.
Kill(h) == /\ "killed" \in Failures
           /\ pc[h] \in {"create", "injected"}
           /\ Step(h, "killed")
           /\ podName' = [podName EXCEPT ![h] = None]
           /\ UNCHANGED <<hogs, injectErr, rollbackErr, lost, robbed, victims>>

Over == (\A h \in Runs : pc[h] \in {"done", "killed"}) /\ UNCHANGED vars

Next == \/ \E n \in Names : OthersDelete(n)
        \/ \E h \in Runs : List(h) \/ Create(h) \/ Rollback(h) \/ Kill(h)
        \/ Over

Spec == Init /\ [][Next]_vars

-----------------------------------------------------------------------------
(* Properties. *)

HogOf(h) == {n \in Names : hogs[n] = h}

\* Every variable holds a value the code's variable can hold, and no process has
\* more than one hog in the cluster.
TypeOK == /\ hogs \in [Names -> Runs \union {None}]
          /\ pc \in [Runs -> {"list", "create", "injected", "done", "killed"}]
          /\ podName \in [Runs -> Names \union {None}]
          /\ injectErr \subseteq Runs /\ rollbackErr \subseteq Runs
          /\ lost \subseteq Runs
          /\ robbed \subseteq Runs /\ victims \subseteq Runs
          /\ \A m, n \in Names : hogs[m] = hogs[n] /\ hogs[m] # None => m = n

\* Each process implements the contract of Injector: its hog stands until its
\* Rollback has returned nil ("Rollback deletes the hog pod so the cluster is left as
\* it was found"), and one that outlives the run is one whose creation got no answer,
\* whose Rollback reported an error or whose process was killed.
CallOf(h) == CASE pc[h] = "list" -> "idle"
               [] pc[h] = "create" -> "injecting"
               [] pc[h] = "done" -> IF h \in rollbackErr THEN "failed" ELSE "rolled back"
               [] OTHER -> pc[h]

Contract(h) == INSTANCE Injector WITH call <- CallOf(h), standing <- HogOf(h) # {},
                                      blind <- h \in lost

ImplementsInjector == /\ \A h \in Runs : Contract(h)!InjectorInit
                      /\ [][\A h \in Runs : Contract(h)!InjectorNext \/ UNCHANGED Contract(h)!injectorVars]_vars

\* An Inject that succeeded has its own hog in the cluster until it rolls back,
\* unless somebody else deleted it; and that is no other process, for all that
\* names are random and deletions go by name, unless a name was used again after
\* others had deleted its first hog.
PressureStands ==
  /\ \A h \in Runs : pc[h] = "injected" /\ h \notin injectErr
                       => podName[h] \in HogOf(h) \/ h \in robbed \union victims
  /\ robbed = {} => victims = {}
=============================================================================
