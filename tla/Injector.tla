------------------------------ MODULE Injector -------------------------------
(***************************************************************************)
(* inject.Injector (internal/inject/inject.go), as its caller may rely on  *)
(* it: one call of Inject, then one of Rollback, and the standing cluster  *)
(* state in between.  Modules NodeDrain, Partition and ResourcePressure    *)
(* are shown to implement it, Partition except for a run that found the    *)
(* dependency at zero; Harness is built on it.                             *)
(*                                                                         *)
(* A change that was applied while its answer was lost makes Inject fail   *)
(* and Rollback blind: what Inject could not record, Rollback does not     *)
(* undo, and says nothing about.  Other actors may undo a fault at any     *)
(* moment; nobody but Inject causes one.                                   *)
(***************************************************************************)
VARIABLES call,       \* "idle", "injecting", "injected", then how Rollback ended:
                      \* "rolled back" (nil), "failed", or "killed" with the process
          standing,   \* the fault stands in the cluster
          blind       \* it was caused by a change whose answer was lost

injectorVars == <<call, standing, blind>>

InjectorInit == call = "idle" /\ standing = FALSE /\ blind = FALSE

\* Inject is called; it may fail before it has changed anything.
Begin == /\ call = "idle"
         /\ call' \in {"injecting", "injected"}
         /\ UNCHANGED <<standing, blind>>

\* The change takes effect, as the last call of Inject or not.
Strike == /\ call = "injecting"
          /\ call' \in {"injecting", "injected"}
          /\ standing' = TRUE
          /\ UNCHANGED blind

StrikeUnanswered == /\ call = "injecting"
                    /\ call' = "injected"
                    /\ standing' = TRUE /\ blind' = TRUE

\* Inject returns, with or without an error.
Return == /\ call = "injecting"
          /\ call' = "injected"
          /\ UNCHANGED <<standing, blind>>

\* Rollback returns nil only if the fault is gone, or was never known of.
Undo == /\ call = "injected"
        /\ call' \in {"rolled back", "failed"}
        /\ standing' \in {standing, FALSE}
        /\ call' = "rolled back" => ~standing' \/ blind
        /\ UNCHANGED blind

\* The process is killed: nobody will roll back.
Die == /\ call \in {"injecting", "injected"}
       /\ call' = "killed"
       /\ UNCHANGED <<standing, blind>>

\* Somebody else undoes the fault.
Disturb == /\ standing
           /\ standing' = FALSE
           /\ UNCHANGED <<call, blind>>

InjectorNext == Begin \/ Strike \/ StrikeUnanswered \/ Return \/ Undo \/ Die \/ Disturb

InjectorSpec == InjectorInit /\ [][InjectorNext]_injectorVars
=============================================================================
