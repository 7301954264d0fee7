----------------------------- MODULE Experiment ------------------------------
(***************************************************************************)
(* internal/experiment: what Load makes of an experiment file that parses, *)
(* and newInjector of cmd/harness/run.go, which picks the injector for the *)
(* fault it accepted.  A text is Blank or not; minSuccessRate is a number  *)
(* of parts of RateScale.  Description and path decide nothing.            *)
(***************************************************************************)
EXTENDS Integers

CONSTANTS Blank,      \* a text that TrimSpace leaves empty
          RateScale

PodFaults  == {"pod-kill", "node-drain", "resource-pressure"}
FaultTypes == PodFaults \union {"dependency-partition"}

\* The fields of an Experiment that are texts, and those that are numbers.
Texts   == {"name", "target", "namespace", "selector", "dependency"}
Numbers == {"count", "rps", "concurrency", "timeoutMs", "maxP95", "baseline", "fault",
            "recoveryTimeout", "minSuccessRate"}
Fields  == Texts \union Numbers \union {"type"}

OrElse(n, default) == IF n = 0 THEN default ELSE n

ApplyDefaults(e) == [e EXCEPT !.concurrency     = OrElse(@, 20),
                              !.timeoutMs       = OrElse(@, 2000),
                              !.count           = OrElse(@, 1),
                              !.recoveryTimeout = OrElse(@, 30)]

\* Mutated: every fault needs a selector, and a selector only.
Problems_SelectorOnly(e) ==
  {f \in {"name", "target", "namespace", "selector"} : e[f] = Blank}
  \union {f \in {"type"} : e.type \notin FaultTypes}

\* What Validate objects to.  Neither timeout is looked at.
Problems(e) ==
  {f \in {"name", "target", "namespace"} : e[f] = Blank}
  \union {f \in {"selector"}   : e.type \in PodFaults /\ e.selector = Blank}
  \union {f \in {"dependency"} : e.type = "dependency-partition" /\ e.dependency = Blank}
  \union {f \in {"type"}       : e.type \notin FaultTypes}
  \union {f \in {"count", "rps", "concurrency", "maxP95", "fault"} : e[f] < 1}
  \union {f \in {"minSuccessRate"} : e.minSuccessRate \notin 1 .. RateScale}
  \union {f \in {"baseline"} : e.baseline < 0}

NoInjector == [kind |-> "none", object |-> Blank, count |-> 0]

\* newInjector: what the fault acts on, and how many; NoInjector is its error.
NewInjector(e) ==
  IF e.type \in PodFaults THEN [kind |-> e.type, object |-> e.selector, count |-> e.count]
  ELSE IF e.type \in FaultTypes THEN [kind |-> e.type, object |-> e.dependency, count |-> 1]
  ELSE NoInjector
=============================================================================
