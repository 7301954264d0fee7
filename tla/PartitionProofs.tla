-------------------------- MODULE PartitionProofs ----------------------------
(***************************************************************************)
(* Proofs about Partition, for any number of processes, overlapping or     *)
(* not, any counts, every failure and any other actors.                    *)
(***************************************************************************)
EXTENDS Partition, TLAPS

PCs == {"get", "scale", "injected", "done", "killed"}

\* The types of the variables, histories apart.
StateOK == /\ replicas \in Counts \union {0} /\ wanted \in Counts
           /\ pc \in [Harnesses -> PCs]
           /\ current \in [Harnesses -> Nat]
           /\ original \in [Harnesses -> Nat \union {Unset}]
           /\ rollbackErr \in [Harnesses -> BOOLEAN]

HistoryOK == /\ scaled \subseteq Harnesses /\ lost \subseteq scaled
             /\ killed \subseteq Harnesses /\ crossed \subseteq Harnesses
             /\ inherited \subseteq Harnesses /\ writer \in Harnesses \union {None}

\* What a process knows at which call: the count that its Get returned when it
\* patches, and nothing of the original before that Patch has succeeded.
RecordInv ==
  \A h \in Harnesses :
    /\ original[h] \in {Unset, current[h]}
    /\ pc[h] = "scale" => current[h] \in Counts \union {0}
    /\ original[h] # Unset => original[h] \in Counts \union {0} /\ h \in scaled
    /\ pc[h] \in {"get", "scale", "killed"} => original[h] = Unset
    /\ rollbackErr[h] => pc[h] = "done"

TypeInv == StateOK /\ HistoryOK /\ RecordInv


LEMMA InitType == Init => TypeInv
BY CountAssumption DEF Init, TypeInv, StateOK, HistoryOK, RecordInv, PCs

LEMMA StepState == TypeInv /\ [Next]_vars => StateOK'
<1> SUFFICES ASSUME TypeInv, [Next]_vars PROVE StateOK'
  OBVIOUS
<1> USE CountAssumption DEF TypeInv, StateOK, RecordInv, PCs, Step, Scale
<1>1. ASSUME NEW n \in Counts, Rescale(n) PROVE StateOK'
  BY <1>1 DEF Rescale
<1>2. ASSUME NEW h \in Harnesses, Get(h) PROVE StateOK'
  BY <1>2 DEF Get
<1>3. ASSUME NEW h \in Harnesses, ScaleDown(h) PROVE StateOK'
  BY <1>3 DEF ScaleDown
<1>4. ASSUME NEW h \in Harnesses, Rollback(h) PROVE StateOK'
  BY <1>4 DEF Rollback
<1>5. ASSUME NEW h \in Harnesses, Kill(h) PROVE StateOK'
  BY <1>5 DEF Kill, Running
<1>6. CASE UNCHANGED vars
  BY <1>6 DEF vars
<1> QED BY <1>1, <1>2, <1>3, <1>4, <1>5, <1>6 DEF Next, Over

LEMMA StepHistory == TypeInv /\ [Next]_vars => HistoryOK'
<1> SUFFICES ASSUME TypeInv, [Next]_vars PROVE HistoryOK'
  OBVIOUS
<1> USE DEF TypeInv, HistoryOK, Scale, Cross
<1>1. ASSUME NEW n \in Counts, Rescale(n) PROVE HistoryOK'
  BY <1>1 DEF Rescale
<1>2. ASSUME NEW h \in Harnesses, Get(h) PROVE HistoryOK'
  BY <1>2 DEF Get
<1>3. ASSUME NEW h \in Harnesses, ScaleDown(h) PROVE HistoryOK'
  BY <1>3 DEF ScaleDown
<1>4. ASSUME NEW h \in Harnesses, Rollback(h) PROVE HistoryOK'
  BY <1>4 DEF Rollback
<1>5. ASSUME NEW h \in Harnesses, Kill(h) PROVE HistoryOK'
  BY <1>5 DEF Kill
<1>6. CASE UNCHANGED vars
  BY <1>6 DEF vars
<1> QED BY <1>1, <1>2, <1>3, <1>4, <1>5, <1>6 DEF Next, Over

LEMMA StepRecord == TypeInv /\ [Next]_vars => RecordInv'
<1> SUFFICES ASSUME TypeInv, [Next]_vars PROVE RecordInv'
  OBVIOUS
<1> USE CountAssumption DEF TypeInv, StateOK, RecordInv, Step
<1>1. ASSUME NEW n \in Counts, Rescale(n) PROVE RecordInv'
  BY <1>1 DEF Rescale
<1>2. ASSUME NEW h \in Harnesses, Get(h) PROVE RecordInv'
  BY <1>2 DEF Get
<1>3. ASSUME NEW h \in Harnesses, ScaleDown(h) PROVE RecordInv'
  BY <1>3 DEF ScaleDown
<1>4. ASSUME NEW h \in Harnesses, Rollback(h) PROVE RecordInv'
  BY <1>4 DEF Rollback
<1>5. ASSUME NEW h \in Harnesses, Kill(h) PROVE RecordInv'
  BY <1>5 DEF Kill, Running
<1>6. CASE UNCHANGED vars
  BY <1>6 DEF vars
<1> QED BY <1>1, <1>2, <1>3, <1>4, <1>5, <1>6 DEF Next, Over

LEMMA TypeAlways == Spec => []TypeInv
<1>1. TypeInv /\ [Next]_vars => TypeInv'
  BY StepState, StepHistory, StepRecord DEF TypeInv
<1> QED BY <1>1, InitType, PTL DEF Spec

\* The variables of every process stay in their ranges.
THEOREM PartitionTypeCorrect == Spec => []TypeOK
<1>1. TypeInv => TypeOK
  BY DEF TypeInv, StateOK, HistoryOK, RecordInv, PCs, TypeOK
<1> QED BY <1>1, TypeAlways, PTL

-----------------------------------------------------------------------------
\* A Rollback writes only a count whose scale-down was applied: until then the
\* dependency has the count that the others gave it.
THEOREM UntakenStaysUntouched == Spec => []UntakenIsUntouched
<1>1. Init => UntakenIsUntouched
  BY DEF Init, UntakenIsUntouched
<1>2. TypeInv /\ UntakenIsUntouched /\ [Next]_vars => UntakenIsUntouched'
  <2> SUFFICES ASSUME TypeInv, UntakenIsUntouched, [Next]_vars PROVE UntakenIsUntouched'
    OBVIOUS
  <2> USE DEF UntakenIsUntouched
  <2>1. ASSUME NEW n \in Counts, Rescale(n) PROVE UntakenIsUntouched'
    BY <2>1 DEF Rescale
  <2>2. ASSUME NEW h \in Harnesses, Get(h) PROVE UntakenIsUntouched'
    BY <2>2 DEF Get
  <2>3. ASSUME NEW h \in Harnesses, ScaleDown(h) PROVE UntakenIsUntouched'
    BY <2>3 DEF ScaleDown
  <2>4. ASSUME NEW h \in Harnesses, Rollback(h) PROVE UntakenIsUntouched'
    BY <2>4 DEF Rollback, TypeInv, RecordInv
  <2>5. ASSUME NEW h \in Harnesses, Kill(h) PROVE UntakenIsUntouched'
    BY <2>5 DEF Kill
  <2>6. CASE UNCHANGED vars
    BY <2>6 DEF vars
  <2> QED BY <2>1, <2>2, <2>3, <2>4, <2>5, <2>6 DEF Next, Over
<1> QED BY <1>1, <1>2, TypeAlways, PTL DEF Spec

-----------------------------------------------------------------------------
(***************************************************************************)
(* What is restored.                                                       *)
(***************************************************************************)

\* The process has scaled the dependency down and will scale it up again.
Holds(h) == pc[h] = "injected" /\ original[h] # Unset

\* While nothing has gone wrong a process works alone: it holds the count that the
\* others want, or has read it, and if none holds it the dependency has it.
AloneInv ==
  Undisturbed =>
    /\ (\A h \in Harnesses : ~Holds(h)) => replicas = wanted
    /\ \A h \in Harnesses : Holds(h) => original[h] = wanted
    /\ \A h \in Harnesses : pc[h] = "scale" => current[h] = replicas
    /\ \A g, h \in Harnesses : Holds(g) /\ Holds(h) => g = h

\* What has gone wrong stays wrong.
LEMMA UndisturbedBefore ==
  ASSUME TypeInv, [Next]_vars, Undisturbed' PROVE Undisturbed
<1> USE DEF Undisturbed, TypeInv, StateOK, Scale, Cross
<1>1. ASSUME NEW n \in Counts, Rescale(n) PROVE Undisturbed
  BY <1>1 DEF Rescale
<1>2. ASSUME NEW h \in Harnesses, Get(h) PROVE Undisturbed
  BY <1>2 DEF Get
<1>3. ASSUME NEW h \in Harnesses, ScaleDown(h) PROVE Undisturbed
  BY <1>3 DEF ScaleDown
<1>4. ASSUME NEW h \in Harnesses, Rollback(h) PROVE Undisturbed
  BY <1>4 DEF Rollback, RecordInv
<1>5. ASSUME NEW h \in Harnesses, Kill(h) PROVE Undisturbed
  BY <1>5 DEF Kill
<1>6. CASE UNCHANGED vars
  BY <1>6 DEF vars
<1> QED BY <1>1, <1>2, <1>3, <1>4, <1>5, <1>6 DEF Next, Over

\* A write that crosses nobody is made while nobody else is at work.
LEMMA WritesAlone ==
  ASSUME NEW others \in SUBSET Harnesses, Cross(others), crossed' = {}
  PROVE  \A g \in others : ~Running(g)
BY DEF Cross

LEMMA StepAlone == TypeInv /\ AloneInv /\ [Next]_vars => AloneInv'
<1> SUFFICES ASSUME TypeInv, AloneInv, [Next]_vars, Undisturbed' PROVE AloneInv'
  BY DEF AloneInv
<1>0. Undisturbed
  BY UndisturbedBefore
<1> USE <1>0 DEF AloneInv, Holds, TypeInv, StateOK, Step
<1>1. ASSUME NEW n \in Counts, Rescale(n) PROVE AloneInv'
  <2>1. \A g \in Harnesses : ~Running(g)
    BY <1>1, WritesAlone DEF Rescale, Undisturbed
  <2> QED BY <1>1, <2>1 DEF Rescale, Running
<1>2. ASSUME NEW h \in Harnesses, Get(h) PROVE AloneInv'
  BY <1>2 DEF Get, RecordInv
<1>3. ASSUME NEW h \in Harnesses, ScaleDown(h) PROVE AloneInv'
  <2>1. CASE Scale(h, 0) /\ original' = [original EXCEPT ![h] = current[h]]
    <3>1. \A g \in Harnesses \ {h} : ~Running(g)
      BY <2>1, WritesAlone DEF Scale, Undisturbed
    <3>2. pc[h] = "scale" /\ original[h] = Unset
      BY <1>3 DEF ScaleDown, RecordInv
    <3>3. current[h] = wanted
      BY <3>1, <3>2 DEF Running
    <3>4. Holds(h)' /\ original'[h] = wanted'
      BY <1>3, <2>1, <3>3, CountAssumption DEF ScaleDown
    <3>5. \A g \in Harnesses : pc'[g] # "scale" /\ (Holds(g)' => g = h)
      BY <1>3, <3>1 DEF ScaleDown, Running
    <3> QED BY <3>4, <3>5
  <2>2. CASE UNCHANGED <<replicas, original>>
    BY <1>3, <2>2 DEF ScaleDown, RecordInv
  <2>3. lost' = {}
    BY DEF Undisturbed
  <2> QED BY <1>3, <2>1, <2>2, <2>3 DEF ScaleDown
<1>4. ASSUME NEW h \in Harnesses, Rollback(h) PROVE AloneInv'
  <2>1. CASE Scale(h, original[h]) /\ original[h] # Unset
    <3>1. \A g \in Harnesses \ {h} : ~Running(g)
      BY <2>1, WritesAlone DEF Scale, Undisturbed
    <3>2. replicas' = wanted
      BY <1>4, <2>1 DEF Rollback, Scale
    <3> QED BY <1>4, <3>1, <3>2 DEF Rollback, Running
  <2>2. CASE original[h] = Unset /\ UNCHANGED replicas
    BY <1>4, <2>2 DEF Rollback
  <2>3. ~rollbackErr'[h]
    BY DEF Undisturbed
  <2> QED BY <1>4, <2>1, <2>2, <2>3 DEF Rollback
<1>5. ASSUME NEW h \in Harnesses, Kill(h) PROVE AloneInv'
  BY <1>5 DEF Kill, Undisturbed
<1>6. CASE UNCHANGED vars
  BY <1>6 DEF vars
<1> QED BY <1>1, <1>2, <1>3, <1>4, <1>5, <1>6 DEF Next, Over

\* Undisturbed runs restore the count.
LEMMA RestoredAlways == Spec => [](Finished /\ replicas # wanted => ~Undisturbed)
<1>1. Init => AloneInv
  BY CountAssumption DEF Init, AloneInv, Holds
<1>2. AloneInv => (Finished /\ replicas # wanted => ~Undisturbed)
  BY DEF AloneInv, Finished, Holds
<1> QED BY <1>1, <1>2, StepAlone, TypeAlways, PTL DEF Spec

-----------------------------------------------------------------------------
(***************************************************************************)
(* Who wrote last.                                                         *)
(***************************************************************************)

\* A count that no process wrote is the others'; a process that wrote last has written
\* zero and recorded what it read or was not answered, or has restored that, or is killed.
WriterInv ==
  /\ writer = None => replicas = wanted
  /\ \A h \in Harnesses :
       writer = h => \/ pc[h] = "killed" /\ h \in killed
                     \/ pc[h] = "injected" /\ replicas = 0 /\ (original[h] # Unset \/ h \in lost)
                     \/ pc[h] = "done" /\ (h \in lost \/ rollbackErr[h] \/ original[h] = replicas)

\* What a process read is wanted as long as nobody writes between its calls, unless it
\* was a process's.
ReadInv ==
  \A h \in Harnesses \ (inherited \union crossed) :
    /\ pc[h] = "scale" => current[h] = wanted
    /\ pc[h] = "injected" /\ original[h] # Unset => original[h] = wanted
    /\ pc[h] = "done" /\ writer = h /\ original[h] = replicas => replicas = wanted

LEMMA StepWriter == TypeInv /\ WriterInv /\ [Next]_vars => WriterInv'
<1> SUFFICES ASSUME TypeInv, WriterInv, [Next]_vars PROVE WriterInv'
  OBVIOUS
<1> USE CountAssumption DEF WriterInv, TypeInv, StateOK, HistoryOK, Step, Scale
<1>1. ASSUME NEW n \in Counts, Rescale(n) PROVE WriterInv'
  BY <1>1 DEF Rescale
<1>2. ASSUME NEW h \in Harnesses, Get(h) PROVE WriterInv'
  BY <1>2 DEF Get
<1>3. ASSUME NEW h \in Harnesses, ScaleDown(h) PROVE WriterInv'
  BY <1>3 DEF ScaleDown
<1>4. ASSUME NEW h \in Harnesses, Rollback(h) PROVE WriterInv'
  BY <1>4 DEF Rollback
<1>5. ASSUME NEW h \in Harnesses, Kill(h) PROVE WriterInv'
  BY <1>5 DEF Kill
<1>6. CASE UNCHANGED vars
  BY <1>6 DEF vars
<1> QED BY <1>1, <1>2, <1>3, <1>4, <1>5, <1>6 DEF Next, Over

LEMMA StepRead == TypeInv /\ WriterInv /\ ReadInv /\ [Next]_vars => ReadInv'
<1> SUFFICES ASSUME TypeInv, WriterInv, ReadInv, [Next]_vars PROVE ReadInv'
  OBVIOUS
<1> USE CountAssumption DEF ReadInv, TypeInv, StateOK, Step, Scale, Cross, Running
<1>1. ASSUME NEW n \in Counts, Rescale(n) PROVE ReadInv'
  BY <1>1 DEF Rescale
<1>2. ASSUME NEW h \in Harnesses, Get(h) PROVE ReadInv'
  BY <1>2 DEF Get, RecordInv
<1>3. ASSUME NEW h \in Harnesses, ScaleDown(h) PROVE ReadInv'
  BY <1>3 DEF ScaleDown, RecordInv
<1>4. ASSUME NEW h \in Harnesses, Rollback(h) PROVE ReadInv'
  BY <1>4 DEF Rollback, WriterInv
<1>5. ASSUME NEW h \in Harnesses, Kill(h) PROVE ReadInv'
  BY <1>5 DEF Kill
<1>6. CASE UNCHANGED vars
  BY <1>6 DEF vars
<1> QED BY <1>1, <1>2, <1>3, <1>4, <1>5, <1>6 DEF Next, Over

LEMMA WriterAlways == Spec => [](TypeInv /\ WriterInv /\ ReadInv)
<1>1. Init => WriterInv /\ ReadInv
  BY CountAssumption DEF Init, WriterInv, ReadInv
<1> QED BY <1>1, StepWriter, StepRead, TypeAlways, PTL DEF Spec

\* However many processes run, and in whatever order: if in the end the dependency does
\* not have the count its other actors gave it, something went wrong, and the process
\* that wrote last answers for it.
THEOREM WrongCountsAreExplained == Spec => []WrongCountIsExplained
<1>1. TypeInv /\ WriterInv /\ ReadInv /\ Finished /\ replicas # wanted =>
        \E h \in Harnesses : writer = h /\ Answers(h)
  <2> SUFFICES ASSUME TypeInv, WriterInv, ReadInv, Finished, replicas # wanted
               PROVE  \E h \in Harnesses : writer = h /\ Answers(h)
    OBVIOUS
  <2>1. PICK h \in Harnesses : writer = h
    BY DEF TypeInv, HistoryOK, WriterInv
  <2>2. \/ h \in lost \union killed \/ rollbackErr[h]
        \/ pc[h] = "done" /\ original[h] = replicas
    BY <2>1 DEF WriterInv, Finished
  <2>3. pc[h] = "done" /\ original[h] = replicas => h \in inherited \union crossed
    BY <2>1 DEF ReadInv
  <2> QED BY <2>1, <2>2, <2>3 DEF Answers
<1>2. (TypeInv /\ WriterInv /\ ReadInv) /\ (Finished /\ replicas # wanted => ~Undisturbed)
        => WrongCountIsExplained
  BY <1>1 DEF WrongCountIsExplained
<1> QED BY <1>2, WriterAlways, RestoredAlways, PTL

-----------------------------------------------------------------------------
(***************************************************************************)
(* The contract of Injector.                                               *)
(***************************************************************************)

Steps(h) == Contract(h)!InjectorNext \/ UNCHANGED Contract(h)!injectorVars

\* Which call a process is in, by the next call it makes.
LEMMA Calls ==
  ASSUME NEW h
  PROVE  /\ pc[h] = "get" => CallOf(h) = "idle"
         /\ pc[h] = "scale" => CallOf(h) = "injecting"
         /\ pc[h] = "injected" => CallOf(h) = "injected"
         /\ pc[h] = "done" => CallOf(h) = IF rollbackErr[h] THEN "failed" ELSE "rolled back"
         /\ pc[h] = "killed" => CallOf(h) = "killed"
BY Zenon DEF CallOf

LEMMA CallsNext ==
  ASSUME NEW h
  PROVE  /\ pc'[h] = "scale" => CallOf(h)' = "injecting"
         /\ pc'[h] = "injected" => CallOf(h)' = "injected"
         /\ pc'[h] = "done" => CallOf(h)' = IF rollbackErr'[h] THEN "failed" ELSE "rolled back"
         /\ pc'[h] = "killed" => CallOf(h)' = "killed"
BY Zenon DEF CallOf

\* What other actors and other processes do is to this process a stutter, or undoes
\* its fault.
LEMMA OthersStep ==
  ASSUME NEW h \in Harnesses, UNCHANGED <<pc[h], rollbackErr[h], h \in lost>>,
         Stands(h)' => Stands(h)
  PROVE  Steps(h)
<1>1. CallOf(h)' = CallOf(h)
  BY DEF CallOf
<1>2. Stands(h) \in BOOLEAN /\ Stands(h)' \in BOOLEAN
  BY DEF Stands
<1> QED BY <1>1, <1>2 DEF Steps, Contract!InjectorNext, Contract!Disturb, Contract!injectorVars

LEMMA ContractStep ==
  ASSUME TypeInv, WriterInv, [Next]_vars, NEW h \in Harnesses, ~FoundZero(h) PROVE Steps(h)
<1> USE CountAssumption DEF TypeInv, StateOK, HistoryOK, Step, Scale, Stands
<1> USE DEF Contract!Begin, Contract!Strike, Contract!StrikeUnanswered, Contract!Return,
            Contract!Undo, Contract!Die, Contract!Disturb
<1>1. ASSUME NEW n \in Counts, Rescale(n) PROVE Steps(h)
  BY <1>1, OthersStep DEF Rescale
<1>2. ASSUME NEW g \in Harnesses \ {h}, Get(g) \/ ScaleDown(g) \/ Rollback(g) \/ Kill(g)
      PROVE  Steps(h)
  BY <1>2, OthersStep DEF Get, ScaleDown, Rollback, Kill
<1>3. CASE Get(h)
  <2>1. /\ CallOf(h) = "idle" /\ CallOf(h)' \in {"injecting", "injected"}
        /\ UNCHANGED <<replicas, writer, lost>>
    BY <1>3, Calls, CallsNext DEF Get
  <2> QED BY <2>1 DEF Steps, Contract!InjectorNext
<1>4. CASE ScaleDown(h)
  <2>1. CallOf(h) = "injecting" /\ CallOf(h)' = "injected"
    BY <1>4, Calls, CallsNext DEF ScaleDown
  <2>2. \/ Stands(h)' /\ UNCHANGED lost
        \/ Stands(h)' /\ h \in lost'
        \/ UNCHANGED <<replicas, writer, lost>>
    BY <1>4 DEF ScaleDown
  <2>3. CASE Stands(h)' /\ UNCHANGED lost
    BY <2>1, <2>3 DEF Steps, Contract!InjectorNext
  <2>4. CASE Stands(h)' /\ h \in lost'
    BY <2>1, <2>4 DEF Steps, Contract!InjectorNext
  <2>5. CASE UNCHANGED <<replicas, writer, lost>>
    BY <2>1, <2>5 DEF Steps, Contract!InjectorNext
  <2> QED BY <2>2, <2>3, <2>4, <2>5
<1>5. CASE Rollback(h)
  <2>1. /\ CallOf(h) = "injected" /\ UNCHANGED lost
        /\ CallOf(h)' = IF rollbackErr'[h] THEN "failed" ELSE "rolled back"
    BY <1>5, Calls, CallsNext DEF Rollback
  <2>2. UNCHANGED <<replicas, writer>> \/ ~Stands(h)'
    BY <1>5 DEF Rollback, FoundZero
  <2>3. ~rollbackErr'[h] => ~Stands(h)' \/ h \in lost
    BY <1>5 DEF Rollback, FoundZero, WriterInv, RecordInv
  <2>4. CASE UNCHANGED <<replicas, writer>>
    BY <2>1, <2>3, <2>4 DEF Steps, Contract!InjectorNext
  <2>5. CASE ~Stands(h)'
    BY <2>1, <2>5 DEF Steps, Contract!InjectorNext
  <2> QED BY <2>2, <2>4, <2>5
<1>6. CASE Kill(h)
  <2>1. /\ CallOf(h) \in {"injecting", "injected"} /\ CallOf(h)' = "killed"
        /\ UNCHANGED <<replicas, writer, lost>>
    BY <1>6, Calls, CallsNext DEF Kill, Running
  <2> QED BY <2>1 DEF Steps, Contract!InjectorNext
<1>7. CASE UNCHANGED vars
  BY <1>7, OthersStep DEF vars
<1> QED BY <1>1, <1>2, <1>3, <1>4, <1>5, <1>6, <1>7 DEF Next, Over

\* Each process that did not find the dependency at zero is an Injector: the fault it
\* stands for is the zero it wrote last.
THEOREM PartitionKeepsContract == Spec => ImplementsInjector
<1>1. Init => \A h \in Harnesses : Contract(h)!InjectorInit
  <2> SUFFICES ASSUME Init, NEW h \in Harnesses PROVE Contract(h)!InjectorInit
    OBVIOUS
  <2>1. CallOf(h) = "idle" /\ writer # h /\ h \notin lost
    BY CountAssumption, Calls DEF Init
  <2> QED BY <2>1 DEF Contract!InjectorInit, Stands
<1>2. TypeInv /\ WriterInv /\ [Next]_vars =>
        \A h \in Harnesses : \/ FoundZero(h)
                             \/ Contract(h)!InjectorNext \/ UNCHANGED Contract(h)!injectorVars
  BY ContractStep DEF Steps
<1> QED BY <1>1, <1>2, WriterAlways, PTL DEF Spec, ImplementsInjector
=============================================================================
