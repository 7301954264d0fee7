------------------------------- MODULE PodKill -------------------------------
(***************************************************************************)
(* inject.PodKiller (internal/inject/podkill.go) against the pods that     *)
(* match its selector: one List, then one Delete after the other, by name. *)
(*                                                                         *)
(* Next to it a controller replaces the pods that go, others delete pods   *)
(* at any moment, and a deleted pod stays, terminating, until the kubelet  *)
(* is done with it.  A selector may match the pods of a StatefulSet, whose *)
(* names are used again: a pod is a name and an identity.  An API call is  *)
(* one step; it may be refused, or be applied and get no answer.  Rollback *)
(* does nothing and is left out.  The names here are none of module        *)
(* ResourcePressure's: PodFaultProofs and MCPodFaults extend both.         *)
(***************************************************************************)
EXTENDS Integers, FiniteSets, FiniteSetsExt

CONSTANTS PodNames,       \* the names pods can have
          Counts,         \* the values of p.count
          MaxUid,         \* bound: the pods there ever are
          CallFailures    \* what may happen to a call: "refused", "lost"

ASSUME CountAssumption == Counts \subseteq Nat \ {0} /\ MaxUid \in Nat
ASSUME NamesAssumption == IsFiniteSet(PodNames)
ASSUME CallFailureAssumption == CallFailures \subseteq {"refused", "lost"}

VARIABLES
  pods, dying,        \* the cluster: the pods there are, those terminating
  nextUid,
  phase,              \* "list", "delete" or "returned"
  count,              \* p.count
  chosen,             \* candidates[:count], those still to delete
  killed,             \* the names returned
  err,                \* the error returned: "nil" or what it says
  listed,             \* history: the pods that List found running
  hit                 \* history: the pods that a Delete of this Inject reached

cluster == <<pods, dying, nextUid>>
killVars == <<cluster, phase, count, chosen, killed, err, listed, hit>>

Running == pods \ dying
NamesOf(S) == {p.name : p \in S}
Named(n)   == {p \in pods : p.name = n}

KillInit == /\ \E S \in SUBSET PodNames :
                 pods = {[name |-> n, uid |-> 0] : n \in S}
            /\ dying \in SUBSET pods /\ nextUid = 1
            /\ phase = "list" /\ count \in Counts
            /\ chosen = {} /\ killed = {} /\ err = "nil"
            /\ listed = {} /\ hit = {}

-----------------------------------------------------------------------------
(* The cluster. *)

Replace(n) == /\ Named(n) = {} /\ nextUid <= MaxUid
              /\ pods' = pods \union {[name |-> n, uid |-> nextUid]}
              /\ nextUid' = nextUid + 1
              /\ UNCHANGED dying

OthersDeletePod == \E p \in Running : dying' = dying \union {p} /\ UNCHANGED <<pods, nextUid>>

Terminate == \E p \in dying : /\ pods' = pods \ {p} /\ dying' = dying \ {p}
                              /\ UNCHANGED nextUid

Cluster == /\ phase # "returned"
           /\ (\E n \in PodNames : Replace(n)) \/ OthersDeletePod \/ Terminate
           /\ UNCHANGED <<phase, count, chosen, killed, err, listed, hit>>

-----------------------------------------------------------------------------
(* Inject. *)

Fails(e) == phase' = "returned" /\ err' = e

\* The pods found are taken in any order: the candidates are shuffled.
Choose(S) == \E C \in kSubset(IF count > Cardinality(S) THEN Cardinality(S) ELSE count, S) :
               chosen' = NamesOf(C)

\* Mutated: pods that are already terminating are candidates as well.
ListPods_TakesTerminating ==
  /\ phase = "list"
  /\ listed' = Running
  /\ IF pods = {} THEN Fails("none") /\ UNCHANGED chosen
                  ELSE Choose(pods) /\ phase' = "delete" /\ UNCHANGED err
  /\ UNCHANGED <<cluster, count, killed, hit>>

ListPods ==
  /\ phase = "list"
  /\ \/ "refused" \in CallFailures /\ Fails("refused") /\ UNCHANGED <<chosen, listed>>
     \/ /\ listed' = Running
        /\ IF Running = {} THEN Fails("none") /\ UNCHANGED chosen
                           ELSE Choose(Running) /\ phase' = "delete" /\ UNCHANGED err
  /\ UNCHANGED <<cluster, count, killed, hit>>

\* Delete reaches whatever pod has the name; one that is terminating stays so.
Apply(n) == /\ Named(n) # {}
            /\ dying' = dying \union Named(n)
            /\ hit' = hit \union Named(n)
            /\ UNCHANGED <<pods, nextUid>>

Killed(n) == /\ killed' = killed \union {n}
             /\ chosen' = chosen \ {n}
             /\ phase' = IF chosen = {n} THEN "returned" ELSE "delete"
             /\ UNCHANGED err

Unreached == UNCHANGED <<cluster, hit>>

\* Mutated: a Delete that failed is tried again.
Delete_Retries(n) ==
  /\ phase = "delete" /\ n \in chosen
  /\ \/ Apply(n) /\ Killed(n)
     \/ /\ Apply(n) \/ Unreached
        /\ UNCHANGED <<phase, err, killed, chosen>>
  /\ UNCHANGED <<count, listed>>

\* Mutated: an error is remembered, and the other pods are deleted.
Delete_KeepsGoing(n) ==
  /\ phase = "delete" /\ n \in chosen
  /\ \/ Apply(n) /\ Killed(n)
     \/ /\ "lost" \in CallFailures /\ Apply(n)
        /\ chosen' = chosen \ {n} /\ err' = "lost"
        /\ phase' = IF chosen = {n} THEN "returned" ELSE "delete"
        /\ UNCHANGED killed
  /\ UNCHANGED <<count, listed>>

\* The first error ends the loop, NotFound like any other.
Delete(n) == /\ phase = "delete" /\ n \in chosen
             /\ \/ Apply(n) /\ Killed(n)
                \/ /\ \/ "lost" \in CallFailures /\ Apply(n) /\ Fails("lost")
                      \/ "refused" \in CallFailures /\ Unreached /\ Fails("refused")
                      \/ Named(n) = {} /\ Unreached /\ Fails("NotFound")
                   /\ UNCHANGED <<killed, chosen>>
             /\ UNCHANGED <<count, listed>>

Inject == ListPods \/ \E n \in chosen : Delete(n)

Returned == phase = "returned" /\ UNCHANGED killVars

KillNext == Cluster \/ Inject \/ Returned

KillSpec == KillInit /\ [][KillNext]_killVars

-----------------------------------------------------------------------------
(* Properties. *)

\* Every variable holds a value the code's variable can hold: candidates and
\* reported names are apart, and a call that is still in the loop has seen no error.
KillTypeOK == /\ pods \subseteq [name : PodNames, uid : 0 .. MaxUid]
              /\ dying \subseteq pods /\ nextUid \in 1 .. MaxUid + 1
              /\ phase \in {"list", "delete", "returned"} /\ count \in Counts
              /\ chosen \union killed \subseteq PodNames /\ chosen \intersect killed = {}
              /\ err \in {"nil", "none", "NotFound", "refused", "lost"}
              /\ phase # "returned" => err = "nil"
              /\ listed \union hit \subseteq [name : PodNames, uid : 0 .. MaxUid]

\* The names Inject returns ("returns the names it deleted") are those of pods it
\* found running and that are going or gone, and it reached at most one pod more:
\* the one whose Delete got no answer, in which case it returns an error.
ReportIsAccurate ==
  /\ killed \subseteq NamesOf(listed)
  /\ \A p \in listed : p.name \in killed => p \notin Running
  /\ LET unreported == {p \in hit : p.name \notin killed}
     IN  Cardinality(unreported) <= (IF err = "lost" THEN 1 ELSE 0)

\* No fault is larger than asked for ("deletes up to count pods"): the calls of one
\* Inject reach at most count pods, though they go by name, names are used again
\* and answers get lost.
BlastRadius == Cardinality(hit) <= count

\* Inject fails with NotFound only because another actor deleted one of the running
\* pods it had listed, never for a pod that was already terminating then.
NotFoundMeansDisturbed ==
  err = "NotFound" => \E p \in listed \ hit : p.name \in chosen /\ p \notin pods
=============================================================================
