--------------------------- MODULE TaskPoolProofs ---------------------------
(***************************************************************************)
(* Proofs about TaskPool for every number of tasks and every job count.    *)
(* IInv is inductive: each action of the builder and of the compilers is   *)
(* shown to preserve its parts, and the checked properties follow from it. *)
(***************************************************************************)
EXTENDS TaskPool, FiniteSetTheorems, TLAPS

-----------------------------------------------------------------------------
(* The limit of the inner loop. *)

\* The clamping in compiler_execute_tasks yields a job count in 1..Count.
LEMMA LimitRange == Limit \in 1 .. Count
  BY CountAssumption, JobsAssumption DEF Limit

LEMMA TaskFinite ==
  ASSUME NEW S \in SUBSET Task
  PROVE  IsFiniteSet(S) /\ Cardinality(S) \in Nat
  <1>1. IsFiniteSet(Task)
    BY CountAssumption, FS_Interval DEF Task
  <1>2. IsFiniteSet(S)
    BY <1>1, FS_Subset
  <1>. QED  BY <1>2, FS_CardinalityType

\* Spawning adds one active task, reaping removes one.
LEMMA ActiveAdd ==
  ASSUME TypeOK, NEW i \in Task, ~active[i],
         active' = [active EXCEPT ![i] = TRUE]
  PROVE  Cardinality(Active') = Cardinality(Active) + 1
  <1>1. Active' = Active \cup {i} /\ i \notin Active
    BY DEF TypeOK, Active
  <1>2. IsFiniteSet(Active)
    BY TaskFinite DEF Active
  <1>. QED  BY <1>1, <1>2, FS_AddElement

LEMMA ActiveRemove ==
  ASSUME TypeOK, NEW i \in Task, active[i],
         active' = [active EXCEPT ![i] = FALSE]
  PROVE  /\ Cardinality(Active') = Cardinality(Active) - 1
         /\ Cardinality(Active') \in Nat
  <1>1. Active' = Active \ {i} /\ i \in Active
    BY DEF TypeOK, Active
  <1>2. IsFiniteSet(Active)
    BY TaskFinite DEF Active
  <1>3. Cardinality(Active') \in Nat
    BY TaskFinite DEF Active
  <1>. QED  BY <1>1, <1>2, <1>3, FS_RemoveElement

-----------------------------------------------------------------------------
LEMMA InitIInv == Init => IInv
  <1>. SUFFICES ASSUME Init PROVE IInv
    OBVIOUS
  <1>. USE CountAssumption DEF Init, Task
  <1>1. TypeOK
    BY DEF TypeOK, BuilderState, Ended
  <1>2. StartInv
    BY DEF StartInv, Children, Exited
  <1>3. CountInv
    <2>1. Active = {}
      BY DEF Active
    <2>2. Cardinality(Active) = 0
      BY <2>1, FS_EmptySet
    <2>3. Cardinality(Active) <= Limit
      BY <2>2, LimitRange
    <2>. QED  BY <2>2, <2>3 DEF CountInv, CountersAgree
  <1>4. BuiltInv
    BY DEF BuiltInv
  <1>5. CursorInv
    BY DEF CursorInv
  <1>. QED  BY <1>1, <1>2, <1>3, <1>4, <1>5 DEF IInv

\* The type invariant is kept by every action given IInv before it.
LEMMA NextTypeOK == IInv /\ [Next]_vars => TypeOK'
  <1>. SUFFICES ASSUME IInv, [Next]_vars PROVE TypeOK'
    OBVIOUS
  <1>. USE CountAssumption DEF IInv, TypeOK, BuilderState, Ended
  <1>1. CASE Spawn
    BY <1>1, LimitRange DEF Spawn, MayStart, Task
  <1>2. CASE SpawnFails
    BY <1>2 DEF SpawnFails
  <1>3. ASSUME NEW i \in Task, ReapOk(i) \/ RecordFails(i) \/ ReapBad(i) PROVE TypeOK'
    <2>1. running \in 1 .. Count
      <3>1. Active # {} /\ IsFiniteSet(Active) /\ Cardinality(Active) \in Nat
        BY <1>3, TaskFinite DEF Active, ReapOk, RecordFails, ReapBad
      <3>2. running = Cardinality(Active)
        BY <1>3 DEF CountInv, CountersAgree, Active, ReapOk, RecordFails, ReapBad
      <3>. QED  BY <3>1, <3>2, FS_EmptySet
    <2>2. pc' \in BuilderState /\ running' \in 0 .. Count /\ finished' \in 0 .. Count
      BY <1>3, <2>1 DEF ReapOk, RecordFails, ReapBad, AfterReap
    <2>3. active' \in [Task -> BOOLEAN] /\ stored' \subseteq Task
      BY <1>3 DEF ReapOk, RecordFails, ReapBad
    <2>. QED  BY <1>3, <2>2, <2>3 DEF ReapOk, RecordFails, ReapBad
  <1>4. CASE Mark
    BY <1>4 DEF Mark, CursorInv, Task
  <1>5. CASE MarkFails
    BY <1>5 DEF MarkFails
  <1>6. CASE Kill
    BY <1>6 DEF Kill, ToSignal, Active
  <1>7. CASE WaitCancelled
    BY <1>7 DEF WaitCancelled, CursorInv, Task
  <1>8. CASE Invalidate
    BY <1>8 DEF Invalidate, CursorInv, Task
  <1>9. CASE InvalidateFails
    BY <1>9 DEF InvalidateFails
  <1>10. CASE Crash
    BY <1>10 DEF Crash
  <1>11. ASSUME NEW i \in Task, Compiler(i) PROVE TypeOK'
    BY <1>11 DEF Compiler, Write, ExitOk, ExitBad, builderVars
  <1>12. CASE Terminated \/ UNCHANGED vars
    BY <1>12 DEF Terminated, vars
  <1>. QED
    BY <1>1, <1>2, <1>3, <1>4, <1>5, <1>6, <1>7, <1>8, <1>9, <1>10, <1>11,
       <1>12 DEF Next, Builder

LEMMA NextStartInv == IInv /\ [Next]_vars => StartInv'
  <1>. SUFFICES ASSUME IInv, [Next]_vars PROVE StartInv'
    OBVIOUS
  <1>. USE CountAssumption DEF IInv, TypeOK, StartInv, Children, Exited
  <1>1. CASE Spawn
    BY <1>1 DEF Spawn, MayStart, Task
  <1>2. ASSUME NEW i \in Task, ReapOk(i) \/ RecordFails(i) \/ ReapBad(i) PROVE StartInv'
    BY <1>2 DEF ReapOk, RecordFails, ReapBad
  <1>3. CASE WaitCancelled
    BY <1>3 DEF WaitCancelled, MayPass, Exited, Task, CursorInv
  <1>4. CASE SpawnFails \/ Mark \/ MarkFails \/ Kill \/ Invalidate \/ InvalidateFails \/ Crash
    BY <1>4 DEF SpawnFails, Mark, MarkFails, Kill, Invalidate, InvalidateFails, Crash
  <1>5. ASSUME NEW i \in Task, Compiler(i) PROVE StartInv'
    BY <1>5 DEF Compiler, Write, ExitOk, ExitBad, builderVars
  <1>6. CASE Terminated \/ UNCHANGED vars
    BY <1>6 DEF Terminated, vars
  <1>. QED
    BY <1>1, <1>2, <1>3, <1>4, <1>5, <1>6 DEF Next, Builder

LEMMA NextCountInv == IInv /\ [Next]_vars => CountInv'
  <1>. SUFFICES ASSUME IInv, [Next]_vars PROVE CountInv'
    OBVIOUS
  <1>. USE CountAssumption DEF IInv, TypeOK, CountInv, CountersAgree
  <1>0. Cardinality(Active) \in Nat
    BY TaskFinite DEF Active
  <1>1. CASE Spawn
    <2>1. next + 1 \in Task /\ ~active[next + 1]
      BY <1>1 DEF Spawn, MayStart, Task, StartInv, Children
    <2>2. Cardinality(Active') = Cardinality(Active) + 1
      BY <1>1, <2>1, ActiveAdd DEF Spawn
    <2>. QED  BY <1>0, <1>1, <2>2, LimitRange DEF Spawn, MayStart
  <1>2. ASSUME NEW i \in Task, ReapOk(i) \/ RecordFails(i) \/ ReapBad(i) PROVE CountInv'
    <2>1. Cardinality(Active') = Cardinality(Active) - 1
      BY <1>2, ActiveRemove DEF ReapOk, RecordFails, ReapBad
    <2>. QED
      BY <1>0, <1>2, <2>1, LimitRange DEF ReapOk, RecordFails, ReapBad, AfterReap
  <1>3. CASE WaitCancelled
    <2>1. cursor + 1 \in Task /\ pc' # "loop"
      BY <1>3 DEF WaitCancelled, Task, CursorInv
    <2>2. CASE active[cursor + 1]
      <3>1. Cardinality(Active') = Cardinality(Active) - 1
        BY <1>3, <2>1, <2>2, ActiveRemove DEF WaitCancelled
      <3>. QED  BY <1>0, <2>1, <3>1, LimitRange
    <2>3. CASE ~active[cursor + 1]
      <3>1. Active' = Active
        BY <1>3, <2>1, <2>3 DEF WaitCancelled, Active
      <3>. QED  BY <1>3, <2>1, <3>1
    <2>. QED  BY <2>2, <2>3
  <1>4. CASE SpawnFails \/ Mark \/ MarkFails \/ Kill \/ Invalidate \/ InvalidateFails \/ Crash
    <2>1. Active' = Active /\ pc' # "loop"
      BY <1>4 DEF Active, SpawnFails, Mark, MarkFails, Kill, Invalidate,
                  InvalidateFails, Crash
    <2>. QED  BY <2>1
  <1>5. ASSUME NEW i \in Task, Compiler(i) PROVE CountInv'
    <2>1. Active' = Active /\ UNCHANGED builderVars
      BY <1>5 DEF Compiler, Write, ExitOk, ExitBad, builderVars, Active
    <2>. QED  BY <2>1 DEF builderVars
  <1>6. CASE Terminated \/ UNCHANGED vars
    <2>1. Active' = Active /\ UNCHANGED vars
      BY <1>6 DEF Terminated, vars, Active
    <2>. QED  BY <2>1 DEF vars
  <1>. QED
    BY <1>1, <1>2, <1>3, <1>4, <1>5, <1>6 DEF Next, Builder

LEMMA NextBuiltInv == IInv /\ [Next]_vars => BuiltInv'
  <1>. SUFFICES ASSUME IInv, [Next]_vars PROVE BuiltInv'
    OBVIOUS
  <1>. USE CountAssumption DEF IInv, TypeOK, BuiltInv
  <1>1. CASE Spawn
    BY <1>1 DEF Spawn, MayStart, Task, StartInv
  <1>2. CASE SpawnFails
    <2>1. next + 1 \in Task /\ proc[next + 1] = "idle"
      BY <1>2 DEF SpawnFails, MayStart, Task, StartInv
    <2>. QED  BY <1>2, <2>1 DEF SpawnFails
  <1>3. ASSUME NEW i \in Task, ReapOk(i) PROVE BuiltInv'
    <2>1. CASE pc' = "loop"
      BY <1>3, <2>1 DEF ReapOk, AfterReap
    <2>2. CASE pc' # "loop"
      <3>1. finished' = Count /\ pc' = "mark"
        BY <1>3, <2>2 DEF ReapOk, AfterReap
      <3>2. Cardinality(Active') = 0 /\ next = Count
        <4>1. /\ Cardinality(Active') = Cardinality(Active) - 1
              /\ Cardinality(Active') \in Nat
          BY <1>3, ActiveRemove DEF ReapOk
        <4>2. Cardinality(Active) \in Nat
          BY TaskFinite DEF Active
        <4>3. finished + Cardinality(Active) = next /\ finished + 1 = Count
          BY <1>3, <3>1 DEF ReapOk, CountInv, CountersAgree
        <4>. QED  BY <4>1, <4>2, <4>3
      <3>3. Active' = {}
        <4>1. IsFiniteSet(Active')
          BY <1>3, TaskFinite DEF ReapOk, Active
        <4>. QED  BY <3>2, <4>1, FS_EmptySet
      <3>4. \A j \in Task : ~active'[j]
        BY <1>3, <3>3 DEF Active, ReapOk
      <3>5. \A j \in Task : proc[j] = "ok"
        BY <1>3, <3>2, <3>4 DEF ReapOk, Task
      <3>. QED  BY <1>3, <3>1, <3>4, <3>5 DEF ReapOk
    <2>. QED  BY <2>1, <2>2
  <1>4. ASSUME NEW i \in Task, RecordFails(i) \/ ReapBad(i) PROVE BuiltInv'
    BY <1>4 DEF RecordFails, ReapBad
  <1>5. CASE Mark
    BY <1>5 DEF Mark
  <1>6. CASE MarkFails
    BY <1>6 DEF MarkFails
  <1>7. CASE Kill
    BY <1>7 DEF Kill
  <1>8. CASE WaitCancelled
    BY <1>8 DEF WaitCancelled
  <1>9. CASE Invalidate \/ InvalidateFails
    BY <1>9 DEF Invalidate, InvalidateFails
  <1>10. CASE Crash
    BY <1>10 DEF Crash
  <1>11. ASSUME NEW i \in Task, Compiler(i) PROVE BuiltInv'
    <2>1. active[i] /\ proc[i] = "running"
      BY <1>11 DEF Compiler, Write, ExitOk, ExitBad, StartInv, Children, Exited
    <2>. QED
      BY <1>11, <2>1 DEF Compiler, Write, ExitOk, ExitBad, builderVars
  <1>12. CASE Terminated \/ UNCHANGED vars
    BY <1>12 DEF Terminated, vars
  <1>. QED
    BY <1>1, <1>2, <1>3, <1>4, <1>5, <1>6, <1>7, <1>8, <1>9, <1>10, <1>11,
       <1>12 DEF Next, Builder

LEMMA NextCursorInv == IInv /\ [Next]_vars => CursorInv'
  <1>. SUFFICES ASSUME IInv, [Next]_vars PROVE CursorInv'
    OBVIOUS
  <1>. USE CountAssumption DEF IInv, TypeOK, CursorInv
  <1>1. CASE Spawn \/ SpawnFails
    BY <1>1 DEF Spawn, SpawnFails
  <1>2. ASSUME NEW i \in Task, ReapOk(i) \/ RecordFails(i) \/ ReapBad(i) PROVE CursorInv'
    BY <1>2 DEF ReapOk, RecordFails, ReapBad, AfterReap
  <1>3. CASE Mark \/ MarkFails
    BY <1>3 DEF Mark, MarkFails, BuiltInv
  <1>4. CASE Kill
    BY <1>4 DEF Kill, Task
  <1>5. CASE WaitCancelled
    BY <1>5 DEF WaitCancelled, Task
  <1>6. CASE Invalidate \/ InvalidateFails
    BY <1>6 DEF Invalidate, InvalidateFails
  <1>7. CASE Crash
    BY <1>7 DEF Crash
  <1>8. ASSUME NEW i \in Task, Compiler(i) PROVE CursorInv'
    BY <1>8 DEF Compiler, Write, ExitOk, ExitBad, builderVars
  <1>9. CASE Terminated \/ UNCHANGED vars
    BY <1>9 DEF Terminated, vars
  <1>. QED
    BY <1>1, <1>2, <1>3, <1>4, <1>5, <1>6, <1>7, <1>8, <1>9 DEF Next, Builder

LEMMA Invariance == Spec => []IInv
  <1>1. Init => IInv
    BY InitIInv
  <1>2. IInv /\ [Next]_vars => IInv'
    BY NextTypeOK, NextStartInv, NextCountInv, NextBuiltInv, NextCursorInv DEF IInv
  <1>. QED  BY <1>1, <1>2, PTL DEF Spec

-----------------------------------------------------------------------------
\* The counters, the process table and the file states stay in their ranges.
THEOREM TypeCorrect == Spec => []TypeOK
  <1>1. IInv => TypeOK
    BY DEF IInv
  <1>. QED  BY <1>1, Invariance, PTL

\* At most Limit compilers are alive, for every number of tasks and jobs.
THEOREM JobLimitHolds == Spec => []JobLimit
  <1>1. IInv => JobLimit
    <2>. SUFFICES ASSUME IInv PROVE JobLimit
      OBVIOUS
    <2>1. Live \subseteq Active
      BY DEF IInv, StartInv, Children, Exited, Live, Active
    <2>2. IsFiniteSet(Active) /\ Cardinality(Active) \in Nat /\ Cardinality(Live) \in Nat
      BY TaskFinite DEF Active, Live
    <2>3. Cardinality(Live) <= Cardinality(Active)
      BY <2>1, <2>2, FS_Subset
    <2>4. Cardinality(Active) <= Limit
      BY DEF IInv, CountInv
    <2>. QED  BY <2>2, <2>3, <2>4, LimitRange DEF JobLimit
  <1>. QED  BY <1>1, Invariance, PTL

\* No exited compiler is lost from the builder's counters while it collects.
THEOREM CountersAgreeHolds == Spec => []CountersAgree
  <1>1. IInv => CountersAgree
    BY DEF IInv, CountInv
  <1>. QED  BY <1>1, Invariance, PTL

\* A ready marker is only ever on a whole object whose compiler is reaped.
THEOREM ReadyIsFinalHolds == Spec => []ReadyIsFinal
  <1>1. IInv => ReadyIsFinal
    BY DEF IInv, BuiltInv, ReadyIsFinal, TypeOK
  <1>. QED  BY <1>1, Invariance, PTL

\* A builder that ended by itself left no compiler running.
THEOREM NoOrphansHolds == Spec => []NoOrphans
  <1>1. IInv => NoOrphans
    BY DEF IInv, BuiltInv, CursorInv, StartInv, Children, Exited, NoOrphans
  <1>. QED  BY <1>1, Invariance, PTL

\* No pid that was never started, or that waitpid has already returned, is
\* sent SIGTERM: tasks[i].active is in step with the kernel's process table
\* (StartInv) whatever the order of exits, failures and cancellation.
THEOREM SignalsOwnChildrenHolds == Spec => SignalsOwnChildren
  <1>1. IInv /\ [Next]_vars =>
          [signaled' \ signaled \subseteq Children]_vars
    <2>. SUFFICES ASSUME IInv, Next
                  PROVE  signaled' \ signaled \subseteq Children
      OBVIOUS
    <2>1. CASE Kill
      BY <2>1, CountAssumption
         DEF Kill, ToSignal, Active, IInv, StartInv, TypeOK
    <2>2. CASE ~Kill
      <3>1. signaled' = signaled
        BY <2>2 DEF Next, Builder, Spawn, SpawnFails, ReapOk, RecordFails, ReapBad, Mark,
             MarkFails, WaitCancelled, Invalidate, InvalidateFails, Crash,
             Compiler, Write, ExitOk, ExitBad, Terminated, vars
      <3>. QED  BY <3>1
    <2>. QED  BY <2>1, <2>2
  <1>. QED  BY <1>1, Invariance, PTL DEF Spec, SignalsOwnChildren

-----------------------------------------------------------------------------
(* TaskPool implements BatchPublish under Built, Decision and ready.       *)

LEMMA BuiltUnchanged ==
  ASSUME UNCHANGED <<active, proc>>
  PROVE  Built' = Built
  BY DEF Built

\* A batch being cancelled, or still compiling, has an object missing.
LEMMA NotAllBuilt ==
  ASSUME IInv, pc \in {"loop", "kill", "wait", "invalidate"}
  PROVE  Built # Task
  <1>1. CASE pc = "loop"
    <2>. SUFFICES ASSUME Built = Task PROVE FALSE
      OBVIOUS
    <2>1. Active = {}
      BY DEF Built, Active
    <2>2. Count \in Task /\ proc[Count] = "ok"
      BY CountAssumption DEF Built, Task
    <2>3. next = Count
      BY <2>2, CountAssumption DEF IInv, TypeOK, StartInv, Children, Exited
    <2>4. finished = Count
      BY <1>1, <2>1, <2>3, FS_EmptySet DEF IInv, CountInv, CountersAgree, TypeOK
    <2>. QED  BY <1>1, <2>4, CountAssumption DEF IInv, CountInv
  <1>2. CASE pc # "loop"
    BY <1>2 DEF IInv, BuiltInv, Built
  <1>. QED  BY <1>1, <1>2

LEMMA InitRefines == Init => Batch!Init
  <1>. SUFFICES ASSUME Init PROVE Batch!Init
    OBVIOUS
  <1>1. Built = {}
    BY DEF Init, Built
  <1>2. Task # {}
    BY CountAssumption DEF Task
  <1>. QED  BY <1>1, <1>2 DEF Init, Batch!Init, Decision

LEMMA StepRefines ==
  ASSUME IInv, IInv', [Next]_vars
  PROVE  [Batch!Next]_(Batch!batchVars)
  <1>. USE DEF Batch!batchVars
  <1>1. CASE Spawn
    <2>1. next + 1 \in Task /\ proc[next + 1] = "idle"
      BY <1>1, CountAssumption DEF Spawn, MayStart, Task, StartInv, IInv, TypeOK
    <2>2. Built' = Built
      BY <1>1, <2>1 DEF Spawn, Built, IInv, TypeOK
    <2>. QED  BY <1>1, <2>2 DEF Spawn, Decision
  <1>2. CASE SpawnFails \/ \E i \in Task : ReapBad(i)
    <2>1. Built' = Built
      BY <1>2 DEF SpawnFails, ReapBad, Built, IInv, TypeOK
    <2>2. pc = "loop" /\ pc' = "kill" /\ ready' = ready
      BY <1>2 DEF SpawnFails, ReapBad
    <2>3. Decision = "open" /\ Decision' = "abort"
      BY <2>1, <2>2, NotAllBuilt DEF Decision
    <2>. QED  BY <2>1, <2>2, <2>3 DEF Batch!Next, Batch!Abort
  <1>3. ASSUME NEW i \in Task, ReapOk(i) PROVE Batch!Next
    <2>1. i \notin Built /\ Built' = Built \cup {i}
      BY <1>3 DEF ReapOk, Built, IInv, TypeOK
    <2>2. Decision = "open"
      BY <1>3, NotAllBuilt DEF ReapOk, Decision
    <2>3. Decision' = IF Built' = Task THEN "commit" ELSE "open"
      BY <1>3 DEF ReapOk, AfterReap, Decision
    <2>4. Batch!Build(i)
      BY <1>3, <2>1, <2>2, <2>3 DEF ReapOk, Batch!Build
    <2>. QED  BY <2>4 DEF Batch!Next
  <1>11. ASSUME NEW i \in Task, RecordFails(i) PROVE Batch!Next
    <2>1. i \notin Built /\ Built' = Built \cup {i}
      BY <1>11 DEF RecordFails, Built, IInv, TypeOK
    <2>2. Decision = "open"
      BY <1>11, NotAllBuilt DEF RecordFails, Decision
    <2>3. Decision' = IF Built' = Task THEN "commit" ELSE "abort"
      BY <1>11 DEF RecordFails, Decision
    <2>4. Batch!Build(i)
      BY <1>11, <2>1, <2>2, <2>3 DEF RecordFails, Batch!Build
    <2>. QED  BY <2>4 DEF Batch!Next
  <1>4. CASE Mark
    <2>1. Built' = Built /\ Built = Task
      BY <1>4 DEF Mark, Built, IInv, BuiltInv
    <2>2. cursor + 1 \in Task
      BY <1>4, CountAssumption DEF Mark, IInv, TypeOK, CursorInv, Task
    <2>3. Batch!Publish(cursor + 1)
      BY <1>4, <2>1, <2>2 DEF Mark, Decision, Batch!Publish
    <2>. QED  BY <2>2, <2>3 DEF Batch!Next
  <1>5. CASE MarkFails \/ Crash
    <2>1. Built' = Built /\ ready' = ready
      BY <1>5 DEF MarkFails, Crash, Built
    <2>2. CASE Built = Task
      BY <2>1, <2>2 DEF Decision
    <2>3. CASE Built # Task
      <3>1. Decision' = "abort" /\ Decision \in {"open", "abort"}
        BY <1>5, <2>1, <2>3 DEF MarkFails, Crash, Decision
      <3>. QED  BY <2>1, <3>1 DEF Batch!Next, Batch!Abort
    <2>. QED  BY <2>2, <2>3
  <1>6. CASE Kill
    <2>1. Built' = Built /\ Decision' = Decision /\ ready' = ready
      BY <1>6 DEF Kill, Built, Decision
    <2>. QED  BY <2>1
  <1>7. CASE WaitCancelled
    <2>1. cursor + 1 \in Task
      BY <1>7, CountAssumption DEF WaitCancelled, IInv, TypeOK, CursorInv, Task
    <2>2. Decision = "abort" /\ Decision' = "abort" /\ Built' # Task
      BY <1>7, NotAllBuilt DEF WaitCancelled, Decision, IInv, BuiltInv, Built
    <2>3. CASE cursor + 1 \in Built \/ cursor + 1 \notin Built'
      <3>1. Built' = Built
        BY <1>7, <2>1, <2>3 DEF WaitCancelled, Built, IInv, TypeOK
      <3>. QED  BY <1>7, <2>2, <3>1 DEF WaitCancelled
    <2>4. CASE cursor + 1 \notin Built /\ cursor + 1 \in Built'
      <3>1. Built' = Built \cup {cursor + 1}
        BY <1>7, <2>1, <2>4 DEF WaitCancelled, Built, IInv, TypeOK
      <3>2. Batch!Build(cursor + 1)
        BY <1>7, <2>2, <2>4, <3>1 DEF WaitCancelled, Batch!Build
      <3>. QED  BY <2>1, <3>2 DEF Batch!Next
    <2>. QED  BY <2>3, <2>4
  <1>8. CASE Invalidate \/ InvalidateFails
    <2>1. ready = {} /\ ready' = {}
      BY <1>8 DEF Invalidate, InvalidateFails, IInv, BuiltInv
    <2>2. Built' = Built /\ Built # Task
      BY <1>8, NotAllBuilt DEF Invalidate, InvalidateFails, Built
    <2>3. Decision' = Decision
      BY <1>8, <2>2 DEF Invalidate, InvalidateFails, Decision
    <2>. QED  BY <2>1, <2>2, <2>3
  <1>9. ASSUME NEW i \in Task, Compiler(i)
        PROVE  UNCHANGED Batch!batchVars
    <2>1. active[i] /\ UNCHANGED <<pc, active, ready>>
      BY <1>9 DEF Compiler, Write, ExitOk, ExitBad, IInv, StartInv, Children, Exited, builderVars
    <2>2. Built' = Built
      BY <1>9, <2>1 DEF Compiler, Write, ExitOk, ExitBad, Built, IInv, TypeOK
    <2>. QED  BY <2>1, <2>2 DEF Decision
  <1>10. CASE Terminated \/ UNCHANGED vars
    <2>1. UNCHANGED vars
      BY <1>10 DEF Terminated
    <2>. QED  BY <2>1 DEF vars, Built, Decision
  <1>. QED
    BY <1>1, <1>2, <1>3, <1>4, <1>5, <1>6, <1>7, <1>8, <1>9, <1>10,
       <1>11 DEF Next, Builder

\* The engine publishes ready markers only for a batch built as a whole.
THEOREM RefinesBatch == Spec => ImplementsBatch
  <1>1. IInv /\ IInv' /\ [Next]_vars => [Batch!Next]_(Batch!batchVars)
    BY StepRefines
  <1>. QED
    BY <1>1, InitRefines, Invariance, PTL DEF Spec, ImplementsBatch, Batch!Spec
=============================================================================
