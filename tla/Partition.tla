----------------------------- MODULE Partition -------------------------------
(***************************************************************************)
(* inject.DependencyPartitioner: harness processes that scale one          *)
(* StatefulSet to zero and back, each with the three API calls that Inject *)
(* and Rollback make, next to other actors that scale it.                  *)
(*                                                                         *)
(* An API call is one step.  It may be refused, or a Patch applied with    *)
(* its answer lost; the code sees an error either way.  A Patch carries no *)
(* version: it overwrites whatever it finds.  A process may be killed      *)
(* between two calls; what it has recorded is gone with it, and a later    *)
(* process begins anew.  The set has a replica count throughout: the API   *)
(* server defaults a missing one to 1, as Inject does.                     *)
(***************************************************************************)
EXTENDS Naturals, FiniteSets

CONSTANTS Harnesses,         \* the processes run against the dependency
          None,              \* no process
          Counts,            \* the replica counts it is given
          Unset,             \* d.original == nil
          Failures,          \* what may happen: "refused", "lost", "killed"
          OthersScale,       \* whether other actors scale the dependency
          Overlap            \* whether a process may begin while another runs

ASSUME CountAssumption == Counts \subseteq Nat /\ Unset \notin Nat /\ None \notin Harnesses
ASSUME FailureAssumption == /\ Failures \subseteq {"refused", "lost", "killed"}
                            /\ OthersScale \in BOOLEAN /\ Overlap \in BOOLEAN

VARIABLES
  replicas,                  \* spec.replicas
  pc,                        \* of each process: the call to make next
  current,                   \* what its Get returned
  original,                  \* d.original
  rollbackErr,               \* its Rollback returned an error
  wanted,                    \* history: the count the other actors set, or found
  scaled, lost,              \* history: the processes whose scale-down was applied, and
                             \* those of them that got no answer
  killed,                    \* history: those killed
  crossed,                   \* history: those between whose calls another actor wrote
  inherited,                 \* history: those whose Get returned what a process had written
                             \* and the other actors did not want
  writer                     \* history: the process that wrote replicas last, None if none did

vars == <<replicas, pc, current, original, rollbackErr, wanted, scaled, lost, killed, crossed,
          inherited, writer>>

Running(h) == pc[h] \in {"scale", "injected"}

Init == /\ replicas \in Counts
        /\ pc = [h \in Harnesses |-> "get"]
        /\ current = [h \in Harnesses |-> 1]
        /\ original = [h \in Harnesses |-> Unset]
        /\ rollbackErr = [h \in Harnesses |-> FALSE]
        /\ wanted = replicas
        /\ scaled = {} /\ lost = {} /\ killed = {} /\ crossed = {} /\ inherited = {}
        /\ writer = None

Refused == "refused" \in Failures

\* What another actor writes crosses every process that is at work.
Cross(others) == crossed' = crossed \union {h \in others : Running(h)}

\* Patch: the count is set, whatever it was.
Scale(h, n) == /\ replicas' = n
               /\ writer' = h
               /\ Cross(Harnesses \ {h})

Step(h, to) == pc' = [pc EXCEPT ![h] = to]

\* Another actor scales the dependency: a user, an operator, an autoscaler.
Rescale(n) == /\ OthersScale
              /\ n # replicas
              /\ \E h \in Harnesses : pc[h] \notin {"done", "killed"}
              /\ replicas' = n /\ wanted' = n /\ writer' = None
              /\ Cross(Harnesses)
              /\ UNCHANGED <<pc, current, original, rollbackErr, scaled, lost, killed, inherited>>

\* Inject, Get.
Get(h) == /\ pc[h] = "get"
          /\ Overlap \/ \A g \in Harnesses : ~Running(g)
          /\ \/ Refused /\ Step(h, "injected") /\ UNCHANGED <<current, inherited>>
             \/ /\ current' = [current EXCEPT ![h] = replicas] /\ Step(h, "scale")
                /\ inherited' = IF replicas = wanted THEN inherited ELSE inherited \union {h}
          /\ UNCHANGED <<replicas, original, rollbackErr, wanted, scaled, lost, killed, crossed, writer>>

\* Mutated: the count is recorded before the Patch is known to have applied.
ScaleDown_RecordsFirst(h) ==
  /\ pc[h] = "scale"
  /\ Step(h, "injected")
  /\ original' = [original EXCEPT ![h] = current[h]]
  /\ \/ Scale(h, 0) /\ scaled' = scaled \union {h} /\ lost' \in {lost, lost \union {h}}
     \/ Refused /\ UNCHANGED <<replicas, crossed, writer, scaled, lost>>
  /\ UNCHANGED <<current, rollbackErr, wanted, killed, inherited>>

\* Mutated: the default of a missing count is recorded, not the count.
ScaleDown_RecordsDefault(h) ==
  /\ pc[h] = "scale"
  /\ Step(h, "injected")
  /\ Scale(h, 0) /\ scaled' = scaled \union {h}
  /\ original' = [original EXCEPT ![h] = 1]
  /\ UNCHANGED <<current, rollbackErr, wanted, lost, killed, inherited>>

\* Inject, the Patch to zero: the count is recorded once it has succeeded.
ScaleDown(h) == /\ pc[h] = "scale"
                /\ Step(h, "injected")
                /\ \/ /\ Scale(h, 0) /\ scaled' = scaled \union {h}
                      /\ original' = [original EXCEPT ![h] = current[h]]
                      /\ UNCHANGED lost
                   \/ /\ "lost" \in Failures
                      /\ Scale(h, 0) /\ scaled' = scaled \union {h}
                      /\ lost' = lost \union {h}
                      /\ UNCHANGED original
                   \/ Refused /\ UNCHANGED <<replicas, crossed, writer, original, scaled, lost>>
                /\ UNCHANGED <<current, rollbackErr, wanted, killed, inherited>>

\* Mutated: a Patch that was not answered is taken for done.
Rollback_ToleratesErrors(h) ==
  /\ pc[h] = "injected"
  /\ Step(h, "done")
  /\ \/ original[h] # Unset /\ Scale(h, original[h])
     \/ (original[h] = Unset \/ Refused) /\ UNCHANGED <<replicas, crossed, writer>>
  /\ UNCHANGED <<current, original, rollbackErr, wanted, scaled, lost, killed, inherited>>

\* Rollback, which follows Inject whether or not that failed.
Rollback(h) == /\ pc[h] = "injected"
               /\ Step(h, "done")
               /\ \/ /\ original[h] = Unset
                     /\ UNCHANGED <<replicas, crossed, writer, rollbackErr>>
                  \/ /\ original[h] # Unset
                     /\ Scale(h, original[h])
                     /\ \/ UNCHANGED rollbackErr
                        \/ "lost" \in Failures /\ rollbackErr' = [rollbackErr EXCEPT ![h] = TRUE]
                  \/ /\ original[h] # Unset /\ Refused
                     /\ rollbackErr' = [rollbackErr EXCEPT ![h] = TRUE]
                     /\ UNCHANGED <<replicas, crossed, writer>>
               /\ UNCHANGED <<current, original, wanted, scaled, lost, killed, inherited>>

Kill(h) == /\ "killed" \in Failures
           /\ Running(h)
           /\ Step(h, "killed")
           /\ original' = [original EXCEPT ![h] = Unset]
           /\ killed' = killed \union {h}
           /\ UNCHANGED <<replicas, current, rollbackErr, wanted, scaled, lost, crossed, inherited, writer>>

Finished == \A h \in Harnesses : pc[h] \in {"done", "killed"}

Over == Finished /\ UNCHANGED vars

Next == \/ \E n \in Counts : Rescale(n)
        \/ \E h \in Harnesses : Get(h) \/ ScaleDown(h) \/ Rollback(h) \/ Kill(h)
        \/ Over

Spec == Init /\ [][Next]_vars

-----------------------------------------------------------------------------
(* Properties. *)

\* Every variable holds a value the code's variable can hold.
TypeOK == /\ replicas \in Counts \union {0} /\ wanted \in Counts
          /\ pc \in [Harnesses -> {"get", "scale", "injected", "done", "killed"}]
          /\ current \in [Harnesses -> Nat]
          /\ \A h \in Harnesses : original[h] \in {Unset, current[h]}
          /\ rollbackErr \in [Harnesses -> BOOLEAN]
          /\ scaled \subseteq Harnesses /\ lost \subseteq scaled
          /\ killed \subseteq Harnesses /\ crossed \subseteq Harnesses
          /\ inherited \subseteq Harnesses /\ writer \in Harnesses \union {None}

\* Nothing has gone wrong so far, and no process's calls were crossed.
Undisturbed == /\ lost = {} /\ killed = {} /\ crossed = {}
               /\ \A h \in Harnesses : ~rollbackErr[h]

\* The process answers for the count it wrote: it was not told that the scale-down
\* was applied, was killed, or its Rollback said so; or it restored what it had read,
\* and that was not wanted: it had been written by another process, or was
\* overtaken by somebody else's write.
Answers(h) == \/ h \in lost \union killed \/ rollbackErr[h]
              \/ original[h] = replicas /\ h \in inherited \union crossed

\* When all runs are over and the dependency does not have the count its other actors
\* gave it, something has gone wrong, and the process that wrote last answers for the
\* count: runs that follow each other undisturbed restore it, however many.
WrongCountIsExplained ==
  Finished /\ replicas # wanted => ~Undisturbed /\ \E h \in Harnesses : writer = h /\ Answers(h)

\* As long as no scale-down has been applied the count is the others' business: a
\* run that failed before it, or whose Patch was refused, rolls nothing back over
\* what they set ("Rollback never restores a count the cluster never saw").
UntakenIsUntouched == scaled = {} => replicas = wanted

\* The fault of a process stands: the dependency is at the zero that it wrote last, in
\* Inject or in Rollback.
Stands(h) == replicas = 0 /\ writer = h

\* The process found the dependency at zero and has recorded that.  If it was another's
\* fault that it found, or if somebody scales the dependency up meanwhile, its Rollback
\* brings a fault back and returns nil: it does not keep the contract.
FoundZero(h) == original[h] = 0

\* Every process that did not find the dependency at zero implements the contract of
\* Injector: its fault outlives its Rollback only if that did not return nil, or if the
\* scale-down was not answered; and it causes none once its Rollback has begun.
CallOf(h) == CASE pc[h] = "get" -> "idle"
               [] pc[h] = "scale" -> "injecting"
               [] pc[h] = "done" -> IF rollbackErr[h] THEN "failed" ELSE "rolled back"
               [] OTHER -> pc[h]

Contract(h) == INSTANCE Injector WITH call <- CallOf(h), standing <- Stands(h), blind <- h \in lost

ImplementsInjector ==
  /\ \A h \in Harnesses : Contract(h)!InjectorInit
  /\ [][\A h \in Harnesses : \/ FoundZero(h)
                             \/ Contract(h)!InjectorNext \/ UNCHANGED Contract(h)!injectorVars]_vars
=============================================================================
