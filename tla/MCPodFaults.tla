----------------------------- MODULE MCPodFaults -----------------------------
(***************************************************************************)
(* The two injectors that create or delete pods by name, for TLC.  An      *)
(* experiment has one of them (newInjector): what is not its is idle.      *)
(* Few runs and fewer names of hogs, so that names collide; three names of *)
(* pods, all of which may be replaced.                                     *)
(***************************************************************************)
EXTENDS ResourcePressure, PodKill, TLC

CONSTANTS h1, h2, h3, x, y,     \* runs and names of hogs
          p1, p2, p3            \* names of target pods

ThreeRuns   == {h1, h2, h3}
TwoNames    == {x, y}
ThreePods   == {p1, p2, p3}
SomeCounts  == 1 .. 4           \* fewer and more than there are pods
AnyFailure  == {"refused", "lost", "killed"}
AnyCallFailure == {"refused", "lost"}

\* None of them differ in anything but their identity.
Symmetry == Permutations(Runs) \union Permutations(Names) \union Permutations(PodNames)

VARIABLE type

PodFaultInit == /\ type \in {"resource-pressure", "pod-kill"}
                /\ Init /\ KillInit
                /\ type = "resource-pressure" => pods = {} /\ count = 1

PodFaultNext == /\ \/ type = "resource-pressure" /\ Next /\ UNCHANGED killVars
                   \/ type = "pod-kill" /\ KillNext /\ UNCHANGED vars
                /\ UNCHANGED type

PodFaultSpec == PodFaultInit /\ [][PodFaultNext]_<<type, vars, killVars>>
=============================================================================
