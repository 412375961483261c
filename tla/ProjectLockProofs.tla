-------------------------- MODULE ProjectLockProofs --------------------------
(***************************************************************************)
(* Proofs about ProjectLock for any finite number of invocations, their    *)
(* chains, their workers and how they are nested.  HolderInv accounts for  *)
(* the copies of the lock's descriptor, ScopeInv says under whose lock a   *)
(* command and its workers work.                                           *)
(* That two of them never work at once follows by counting: each command   *)
(* that works under its host's key keeps that host from working itself.    *)
(*                                                                         *)
(* The last part is about Watch, the command that takes the lock again and *)
(* again, for any number of edits and failures, whenever the user edits.   *)
(***************************************************************************)
EXTENDS ProjectLock, Watch, FiniteSetTheorems, TLAPS

\* What the scene says of an invocation does not change.
LEMMA ChainType ==
  ASSUME TypeOK, NEW i \in Invocation
  PROVE  /\ Chain(i) \in Seq(Command) /\ Len(Chain(i)) \in Nat \ {0}
         /\ Host(i) \in Invocation \cup {None} /\ Host(i) # i
  BY ScenesAssumption DEF TypeOK, Chain, Host

LEMMA SceneKept == [Next]_vars => scene' = scene
  BY DEF Next, Step, Reenter, Acquire, ForkSegment, NextSegment, Return, BuildOk, WorkFails,
         StartProgram, RunEnds, TestsPass, TestFails, StartNested, ForkBuilder, BuilderOk,
         BuilderFails, ForkWorker, WorkerOk, WorkerFails, KillMain, KillSegment, KillWorker,
         Terminated, vars

(* What the operations on the lock do to it and to the copies. *)

LEMMA ReleaseEffect ==
  ASSUME TypeOK, NEW i \in Invocation, NEW r \in Role, Release(i, r)
  PROVE  /\ lock' \in Invocation \cup {None}
         /\ fds' \in [Invocation -> SUBSET Role] /\ keyed' \in [Invocation -> SUBSET Role]
         /\ fds'[i] = fds[i] \ {r} /\ keyed'[i] = keyed[i] \ {r}
         /\ lock' = i => lock = i /\ r \notin fds[i]
         /\ \A j \in Invocation \ {i} :
              fds'[j] = fds[j] /\ keyed'[j] = keyed[j] /\ (lock' = j <=> lock = j)
  BY InvocationAssumption DEF TypeOK, Release, LockAfterRelease, Forget

LEMMA DieEffect ==
  ASSUME TypeOK, NEW i \in Invocation, NEW r \in Role, Die(i, r)
  PROVE  Release(i, r) /\ died' = died \cup {i} /\ died' \subseteq Invocation
  BY DEF TypeOK, Die

LEMMA CloseEffect ==
  ASSUME TypeOK, NEW i \in Invocation, NEW r \in Role, Close(i, r)
  PROVE  /\ lock' \in Invocation \cup {None}
         /\ fds' \in [Invocation -> SUBSET Role] /\ keyed' \in [Invocation -> SUBSET Role]
         /\ fds'[i] = fds[i] \ {r} /\ keyed'[i] = keyed[i] \ {r}
         /\ lock' = i <=> lock = i /\ fds[i] # {r}
         /\ \A j \in Invocation \ {i} :
              fds'[j] = fds[j] /\ keyed'[j] = keyed[j] /\ (lock' = j <=> lock = j)
  BY InvocationAssumption DEF TypeOK, Close, LockAfterClose

(* What the steps do to the workers. *)

LEMMA WorkersKept ==
  ASSUME worker' = worker, NEW i \in Invocation
  PROVE  AtWork(i)' = AtWork(i) /\ Failed(i)' = Failed(i) /\ (Resolved(i) => AtWork(i) = {})
  BY DEF AtWork, Failed, Resolved

LEMMA SegmentWorkers ==
  ASSUME TypeOK, NEW i \in Invocation, ForkSegment(i)
  PROVE  AtWork(i)' = {} /\ Failed(i)' = {}
  BY DEF TypeOK, ForkSegment, NoWorkers, AtWork, Failed

LEMMA ForkEffect ==
  ASSUME TypeOK, NEW i \in Invocation, NEW w \in Worker, ForkWorker(i, w)
  PROVE  AtWork(i)' = AtWork(i) \cup {w} /\ w \notin AtWork(i) /\ Failed(i)' = Failed(i)
  BY DEF TypeOK, ForkWorker, AtWork, Failed

LEMMA EndEffect ==
  ASSUME TypeOK, NEW i \in Invocation, NEW w \in Worker,
         WorkerOk(i, w) \/ WorkerFails(i, w) \/ KillWorker(i, w)
  PROVE  /\ AtWork(i)' = AtWork(i) \ {w} /\ w \in AtWork(i)
         /\ WorkerOk(i, w) \/ w \in Failed(i)'
         /\ Failed(i) \subseteq Failed(i)'
  <1>1. CASE WorkerOk(i, w)
    BY <1>1 DEF TypeOK, WorkerOk, AtWork, Failed
  <1>2. CASE WorkerFails(i, w) \/ KillWorker(i, w)
    <2>1. worker' = [worker EXCEPT ![i][w] = "failed"] /\ worker[i][w] = "work"
      BY <1>2 DEF WorkerFails, KillWorker
    <2>2. AtWork(i)' = AtWork(i) \ {w} /\ w \in AtWork(i)
      BY <2>1 DEF TypeOK, AtWork
    <2>3. Failed(i)' = Failed(i) \cup {w} /\ w \notin Failed(i)
      BY <2>1 DEF TypeOK, Failed
    <2>. QED  BY <2>2, <2>3
  <1>. QED  BY <1>1, <1>2

Same(j) ==
  /\ at'[j] = at[j] /\ main'[j] = main[j] /\ segment'[j] = segment[j] /\ builder'[j] = builder[j]
  /\ worker'[j] = worker[j] /\ rc'[j] = rc[j] /\ fds'[j] = fds[j] /\ keyed'[j] = keyed[j]
  /\ (lock' = j <=> lock = j) /\ (j \in died' <=> j \in died)

\* A step of an invocation touches nothing of the others, and takes the lock
\* from nobody.
LEMMA StepFrame ==
  ASSUME TypeOK, NEW i \in Invocation, Step(i), NEW j \in Invocation \ {i}
  PROVE  Same(j)
  <1>. USE InvocationAssumption DEF TypeOK, Same, Role
  <1>1. CASE Reenter(i) \/ Acquire(i)
    BY <1>1 DEF Reenter, Acquire
  <1>2. CASE ForkSegment(i)
    BY <1>2 DEF ForkSegment, Inherit
  <1>7. CASE ForkBuilder(i)
    BY <1>7 DEF ForkBuilder, Inherit
  <1>3. CASE NextSegment(i)
    BY <1>3 DEF NextSegment
  <1>4. CASE Return(i) \/ RunEnds(i)
    BY <1>4, ReleaseEffect DEF Return, RunEnds
  <1>8. CASE WorkFails(i) \/ TestFails(i) \/ BuilderFails(i)
    BY <1>8, ReleaseEffect, DieEffect DEF WorkFails, TestFails, BuilderFails
  <1>5. CASE BuildOk(i) \/ TestsPass(i) \/ BuilderOk(i) \/ KillMain(i) \/ KillSegment(i)
    BY <1>5, CloseEffect DEF BuildOk, TestsPass, BuilderOk, KillMain, KillSegment
  <1>9. ASSUME NEW w \in Worker, ForkWorker(i, w) PROVE Same(j)
    BY <1>9 DEF ForkWorker, Inherit
  <1>10. ASSUME NEW w \in Worker, WorkerOk(i, w) \/ KillWorker(i, w) PROVE Same(j)
    BY <1>10, CloseEffect DEF WorkerOk, KillWorker
  <1>11. ASSUME NEW w \in Worker, WorkerFails(i, w) PROVE Same(j)
    <2>1. Release(i, w) /\ died' = died \cup {i}
      BY <1>11, DieEffect DEF WorkerFails
    <2>. QED  BY <1>11, <2>1, ReleaseEffect DEF WorkerFails
  <1>6. CASE StartProgram(i)
    BY <1>6, ReleaseEffect DEF StartProgram
  <1>. QED
    BY <1>1, <1>2, <1>3, <1>4, <1>5, <1>6, <1>7, <1>8, <1>9, <1>10, <1>11 DEF Step

-----------------------------------------------------------------------------
LEMMA InitIInv == Init => IInv
  <1>. SUFFICES ASSUME Init PROVE IInv
    OBVIOUS
  <1>1. TypeOK
    <2>1. \A i \in Invocation : Chain(i) \in Seq(Command) /\ Chain(i) # <<>>
      BY ScenesAssumption DEF Init, Chain
    <2>2. \A i \in Invocation : at[i] \in 1 .. Len(Chain(i))
      BY <2>1 DEF Init
    <2>. QED  BY <2>2 DEF Init, TypeOK, NoWorkers
  <1>2. HolderInv
    BY InvocationAssumption DEF Init, HolderInv, HolderOf, AtWork, NoWorkers
  <1>3. ScopeInv
    BY InvocationAssumption
       DEF Init, ScopeInv, ScopeOf, InScope, Writes, AtWork, NoWorkers, GoesOn
  <1>. QED  BY <1>1, <1>2, <1>3 DEF IInv

LEMMA NextTypeOK == IInv /\ [Next]_vars => TypeOK'
  <1>. SUFFICES ASSUME IInv, [Next]_vars PROVE TypeOK'
    OBVIOUS
  <1>. USE DEF IInv, TypeOK, Chain, Role
  <1>1. ASSUME NEW i \in Invocation, Reenter(i) \/ Acquire(i) PROVE TypeOK'
    <2>1. CASE Reenter(i)
      BY <2>1 DEF Reenter
    <2>2. CASE Acquire(i)
      BY <2>2 DEF Acquire
    <2>. QED  BY <1>1, <2>1, <2>2
  <1>2. ASSUME NEW i \in Invocation, ForkSegment(i) \/ ForkBuilder(i) PROVE TypeOK'
    <2>1. CASE ForkSegment(i)
      BY <2>1 DEF ForkSegment, Inherit, NoWorkers
    <2>2. CASE ForkBuilder(i)
      BY <2>2 DEF ForkBuilder, Inherit
    <2>. QED  BY <1>2, <2>1, <2>2
  <1>3. ASSUME NEW i \in Invocation, NextSegment(i) PROVE TypeOK'
    <2>1. at[i] + 1 \in 1 .. Len(Chain(i))
      BY <1>3, ChainType DEF NextSegment
    <2>. QED  BY <1>3, <2>1 DEF NextSegment
  <1>4. ASSUME NEW i \in Invocation, Return(i) \/ RunEnds(i) PROVE TypeOK'
    <2>1. CASE Return(i)
      BY <2>1, ReleaseEffect DEF Return
    <2>2. CASE RunEnds(i)
      BY <2>2, ReleaseEffect DEF RunEnds
    <2>. QED  BY <1>4, <2>1, <2>2
  <1>9. ASSUME NEW i \in Invocation, WorkFails(i) \/ TestFails(i) \/ BuilderFails(i)
        PROVE  TypeOK'
    <2>1. CASE WorkFails(i)
      BY <2>1, ReleaseEffect, DieEffect DEF WorkFails
    <2>2. CASE TestFails(i)
      BY <2>2, ReleaseEffect, DieEffect DEF TestFails
    <2>3. CASE BuilderFails(i)
      BY <2>3, ReleaseEffect, DieEffect DEF BuilderFails
    <2>. QED  BY <1>9, <2>1, <2>2, <2>3
  <1>10. ASSUME NEW i \in Invocation, NEW w \in Worker,
                ForkWorker(i, w) \/ WorkerOk(i, w) \/ WorkerFails(i, w) \/ KillWorker(i, w)
         PROVE  TypeOK'
    <2>1. CASE ForkWorker(i, w)
      BY <2>1 DEF ForkWorker, Inherit
    <2>2. CASE WorkerOk(i, w)
      BY <2>2, CloseEffect DEF WorkerOk
    <2>4. CASE KillWorker(i, w)
      BY <2>4, CloseEffect DEF KillWorker
    <2>3. CASE WorkerFails(i, w)
      BY <2>3, ReleaseEffect, DieEffect DEF WorkerFails
    <2>. QED  BY <1>10, <2>1, <2>2, <2>3, <2>4
  <1>5. ASSUME NEW i \in Invocation,
               BuildOk(i) \/ TestsPass(i) \/ BuilderOk(i) \/ KillMain(i) \/ KillSegment(i)
        PROVE  TypeOK'
    BY <1>5, CloseEffect DEF BuildOk, TestsPass, BuilderOk, KillMain, KillSegment
  <1>6. ASSUME NEW i \in Invocation, StartProgram(i) PROVE TypeOK'
    <2>1. CASE Release(i, "segment")
      BY <1>6, <2>1, ReleaseEffect DEF StartProgram
    <2>2. CASE UNCHANGED <<lock, fds, keyed>>
      BY <1>6, <2>2 DEF StartProgram
    <2>. QED  BY <1>6, <2>1, <2>2 DEF StartProgram
  <1>7. ASSUME NEW i \in Invocation, NEW j \in Invocation, StartNested(i, j) PROVE TypeOK'
    BY <1>7 DEF StartNested
  <1>8. CASE Terminated \/ UNCHANGED vars
    BY <1>8 DEF Terminated, vars
  <1>. QED
    BY <1>1, <1>2, <1>3, <1>4, <1>5, <1>6, <1>7, <1>8, <1>9, <1>10 DEF Next, Step

-----------------------------------------------------------------------------
(* The copies of the descriptor. *)

LEMMA NextHolderInv == IInv /\ [Next]_vars => HolderInv'
  <1>. SUFFICES ASSUME IInv, [Next]_vars PROVE HolderInv'
    OBVIOUS
  <1>. USE DEF IInv
  <1>1. ASSUME NEW i \in Invocation, Step(i) PROVE HolderInv'
    <2>0. ASSUME NEW j \in Invocation \ {i} PROVE HolderOf(j)'
      <3>1. Same(j) /\ HolderOf(j)
        BY <1>1, StepFrame DEF HolderInv
      <3>. QED  BY <3>1 DEF Same, HolderOf, Alive, AtWork
    <2>. SUFFICES HolderOf(i)'
      BY <2>0 DEF HolderInv
    <2>. USE InvocationAssumption DEF HolderInv
    <2>0a. HolderOf(i) /\ TypeOK
      OBVIOUS
    <2>1. CASE Reenter(i)
      BY <2>1, WorkersKept DEF Reenter, TypeOK, HolderOf, Alive
    <2>12. CASE Acquire(i)
      BY <2>12, WorkersKept DEF Acquire, TypeOK, HolderOf, Alive
    <2>2. CASE ForkSegment(i)
      BY <2>2, SegmentWorkers DEF ForkSegment, Inherit, TypeOK, HolderOf, Alive
    <2>3. CASE ForkBuilder(i)
      BY <2>3, WorkersKept DEF ForkBuilder, Inherit, TypeOK, HolderOf, Alive
    <2>4. CASE NextSegment(i)
      BY <2>4, WorkersKept DEF NextSegment, SegmentOver, TypeOK, HolderOf, Alive
    <2>14. ASSUME NEW w \in Worker, ForkWorker(i, w) PROVE HolderOf(i)'
      <3>1. /\ fds'[i] = (IF "segment" \in fds[i] THEN fds[i] \cup {w} ELSE fds[i] \ {w})
            /\ UNCHANGED <<main, segment, builder, rc, lock>> /\ segment[i] = "work"
        BY <2>14 DEF ForkWorker, Inherit, TypeOK
      <3>2. AtWork(i)' = AtWork(i) \cup {w}
        BY <2>14, ForkEffect
      <3>3. w \notin fds[i]
        BY <2>0a, <2>14, ForkEffect, WorkerAssumption DEF HolderOf, Alive
      <3>. QED  BY <2>0a, <3>1, <3>2, <3>3 DEF HolderOf, Alive
    <2>5. CASE Return(i)
      <3>1. Release(i, "main") /\ AtWork(i)' = AtWork(i)
        BY <2>5, WorkersKept DEF Return, Role
      <3>2. fds'[i] = fds[i] \ {"main"} /\ (lock' = i => lock = i /\ fds[i] # {"main"})
        BY <2>0a, <3>1, ReleaseEffect DEF Role
      <3>3. main'[i] = "gone" /\ UNCHANGED <<segment, builder, rc>> /\ AtWork(i) = {}
        BY <2>5, <2>0a, WorkersKept DEF Return, TypeOK, SegmentOver
      <3>. QED  BY <2>0a, <3>1, <3>2, <3>3 DEF HolderOf, Alive
    <2>6. CASE RunEnds(i)
      <3>1. Release(i, "segment") /\ AtWork(i)' = AtWork(i)
        BY <2>6, WorkersKept DEF RunEnds, Role
      <3>2. fds'[i] = fds[i] \ {"segment"} /\ (lock' = i => lock = i /\ fds[i] # {"segment"})
        BY <2>0a, <3>1, ReleaseEffect DEF Role
      <3>3. /\ UNCHANGED <<main, builder>> /\ segment'[i] = "exited"
            /\ segment[i] = "program"
        BY <2>6, <2>0a, WorkersKept DEF RunEnds, TypeOK
      <3>. QED  BY <2>0a, <3>1, <3>2, <3>3 DEF HolderOf, Alive
    <2>7. CASE BuilderFails(i)
      <3>1. Release(i, "builder") /\ AtWork(i)' = AtWork(i)
        BY <2>7, WorkersKept, DieEffect DEF BuilderFails, Role
      <3>2. fds'[i] = fds[i] \ {"builder"} /\ (lock' = i => lock = i /\ fds[i] # {"builder"})
        BY <2>0a, <3>1, ReleaseEffect DEF Role
      <3>3. /\ UNCHANGED <<main, segment, rc>> /\ builder'[i] = "none"
        BY <2>7, <2>0a, WorkersKept DEF BuilderFails, TypeOK
      <3>. QED  BY <2>0a, <3>1, <3>2, <3>3 DEF HolderOf, Alive
    <2>13. CASE WorkFails(i) \/ TestFails(i)
      <3>1. Release(i, "segment") /\ AtWork(i)' = AtWork(i)
        BY <2>13, WorkersKept, DieEffect DEF WorkFails, TestFails, Role
      <3>2. fds'[i] = fds[i] \ {"segment"} /\ (lock' = i => lock = i /\ fds[i] # {"segment"})
        BY <2>0a, <3>1, ReleaseEffect DEF Role
      <3>3. /\ UNCHANGED <<main, builder>> /\ segment'[i] = "exited" /\ rc'[i] = 1
            /\ segment[i] \in {"work", "program"}
        BY <2>13, <2>0a, WorkersKept DEF WorkFails, TestFails, TypeOK
      <3>. QED  BY <2>0a, <3>1, <3>2, <3>3 DEF HolderOf, Alive
    <2>8. CASE BuildOk(i) \/ TestsPass(i)
      <3>1. Close(i, "segment") /\ AtWork(i)' = AtWork(i)
        BY <2>8, WorkersKept DEF BuildOk, TestsPass, Role
      <3>2. fds'[i] = fds[i] \ {"segment"} /\ (lock' = i => lock = i /\ fds[i] # {"segment"})
        BY <2>0a, <3>1, CloseEffect DEF Role
      <3>3. /\ UNCHANGED <<main, builder>> /\ segment'[i] = "exited"
            /\ segment[i] = "program" \/ AtWork(i) = {}
        BY <2>8, <2>0a, WorkersKept DEF BuildOk, TestsPass, TypeOK
      <3>. QED  BY <2>0a, <3>1, <3>2, <3>3 DEF HolderOf, Alive
    <2>17. CASE KillSegment(i)
      <3>1. Close(i, "segment") /\ AtWork(i)' = AtWork(i)
        BY <2>17, WorkersKept DEF KillSegment, Role
      <3>2. fds'[i] = fds[i] \ {"segment"} /\ (lock' = i => lock = i /\ fds[i] # {"segment"})
        BY <2>0a, <3>1, CloseEffect DEF Role
      <3>3. /\ UNCHANGED <<main, builder>> /\ segment'[i] = "exited" /\ rc'[i] = 1
            /\ segment[i] \in {"work", "program", "watch"}
        BY <2>17, <2>0a, WorkersKept DEF KillSegment, TypeOK
      <3>. QED  BY <2>0a, <3>1, <3>2, <3>3 DEF HolderOf, Alive
    <2>9. CASE BuilderOk(i)
      <3>1. Close(i, "builder") /\ AtWork(i)' = AtWork(i)
        BY <2>9, WorkersKept DEF BuilderOk, Role
      <3>2. fds'[i] = fds[i] \ {"builder"} /\ (lock' = i => lock = i /\ fds[i] # {"builder"})
        BY <2>0a, <3>1, CloseEffect DEF Role
      <3>3. /\ UNCHANGED <<main, segment, rc>> /\ builder'[i] = "none"
        BY <2>9, <2>0a, WorkersKept DEF BuilderOk, TypeOK
      <3>. QED  BY <2>0a, <3>1, <3>2, <3>3 DEF HolderOf, Alive
    <2>10. CASE KillMain(i)
      <3>1. Close(i, "main") /\ AtWork(i)' = AtWork(i)
        BY <2>10, WorkersKept DEF KillMain, Role
      <3>2. fds'[i] = fds[i] \ {"main"} /\ (lock' = i => lock = i /\ fds[i] # {"main"})
        BY <2>0a, <3>1, CloseEffect DEF Role
      <3>3. main'[i] = "gone" /\ UNCHANGED <<segment, builder, rc>>
        BY <2>10, <2>0a, WorkersKept DEF KillMain, TypeOK
      <3>. QED  BY <2>0a, <3>1, <3>2, <3>3 DEF HolderOf, Alive
    <2>11. CASE StartProgram(i)
      <3>1. AtWork(i)' = AtWork(i) /\ AtWork(i) = {}
        BY <2>11, WorkersKept DEF StartProgram
      <3>2. /\ fds'[i] = fds[i] \/ fds'[i] = fds[i] \ {"segment"}
            /\ lock' = i => lock = i /\ (fds'[i] = fds[i] \/ "segment" \notin fds[i])
        <4>1. CASE Release(i, "segment")
          BY <2>0a, <4>1, ReleaseEffect DEF Role
        <4>2. CASE UNCHANGED <<lock, fds, keyed>>
          BY <4>2
        <4>. QED  BY <2>11, <4>1, <4>2 DEF StartProgram
      <3>3. /\ UNCHANGED <<main, builder>> /\ segment'[i] = "program"
            /\ segment[i] = "work"
        BY <2>0a, <2>11 DEF StartProgram, TypeOK
      <3>. QED  BY <2>0a, <3>1, <3>2, <3>3 DEF HolderOf, Alive
    <2>15. ASSUME NEW w \in Worker, WorkerOk(i, w) \/ KillWorker(i, w) PROVE HolderOf(i)'
      <3>1. Close(i, w) /\ UNCHANGED <<main, segment, builder, rc>>
        BY <2>15 DEF WorkerOk, KillWorker, Role
      <3>2. AtWork(i)' = AtWork(i) \ {w}
        BY <2>15, EndEffect
      <3>3. fds'[i] = fds[i] \ {w} /\ (lock' = i => lock = i /\ fds[i] # {w})
        BY <2>0a, <3>1, CloseEffect DEF Role
      <3>. QED  BY <2>0a, <3>1, <3>2, <3>3 DEF HolderOf, Alive
    <2>16. ASSUME NEW w \in Worker, WorkerFails(i, w) PROVE HolderOf(i)'
      <3>1. Release(i, w) /\ UNCHANGED <<main, segment, builder, rc>>
        BY <2>16, DieEffect DEF WorkerFails, Role
      <3>2. AtWork(i)' = AtWork(i) \ {w}
        BY <2>16, EndEffect
      <3>3. fds'[i] = fds[i] \ {w} /\ (lock' = i => lock = i /\ fds[i] # {w})
        BY <2>0a, <3>1, ReleaseEffect DEF Role
      <3>. QED  BY <2>0a, <3>1, <3>2, <3>3 DEF HolderOf, Alive
    <2>. QED
      BY <1>1, <2>1, <2>2, <2>3, <2>4, <2>5, <2>6, <2>7, <2>8, <2>9, <2>10, <2>11, <2>12, <2>13,
         <2>14, <2>15, <2>16, <2>17 DEF Step
  <1>2. ASSUME NEW i \in Invocation, NEW j \in Invocation, StartNested(i, j) PROVE HolderInv'
    BY <1>2 DEF StartNested, TypeOK, HolderInv, HolderOf, Alive, AtWork
  <1>3. CASE Terminated \/ UNCHANGED vars
    BY <1>3 DEF Terminated, vars, HolderInv, HolderOf, Alive, AtWork
  <1>. QED  BY <1>1, <1>2, <1>3 DEF Next

-----------------------------------------------------------------------------
(* Under whose lock a command works. *)

\* i was born and has not come to its end.
Born(i) == main[i] # "unborn" /\ (\/ main[i] # "gone" \/ segment[i] \notin {"none", "exited"}
                                  \/ AtWork(i) # {})

\* A host that keeps the lock does nothing but wait for the `c` its program
\* started.
LEMMA HostWaits ==
  ASSUME IInv, Orderly, NEW i \in Invocation, NEW j \in Invocation,
         Host(j) = i, Born(j), Under(j)
  PROVE  ~Step(i)
  <1>. USE DEF IInv, Under
  <1>1. /\ segment[i] = "program" /\ main[i] \in {"wait", "gone"} /\ builder[i] = "none"
        /\ \A w \in Worker : worker[i][w] # "work"
    BY DEF HolderInv, HolderOf, ScopeInv, ScopeOf, TypeOK, AtWork
  <1>2. ~scene.kills /\ scene.tests = 1
    BY DEF Orderly, OneNested
  <1>3. j \in Unfinished(i)
    BY DEF Unfinished, Nested, Born
  <1>4. ~(Cardinality(Unfinished(i)) < 1)
    <2>1. IsFiniteSet(Unfinished(i))
      BY InvocationAssumption, FS_Subset DEF Unfinished, Nested
    <2>2. Cardinality(Unfinished(i)) \in Nat /\ Cardinality(Unfinished(i)) # 0
      BY <1>3, <2>1, FS_CardinalityType, FS_EmptySet
    <2>. QED  BY <2>2
  <1>. QED
    BY <1>1, <1>2, <1>3, <1>4
       DEF Step, Reenter, Acquire, ForkSegment, NextSegment, Return, SegmentOver, BuildOk, WorkFails,
           StartProgram, RunEnds, TestsPass, TestFails, ForkBuilder, BuilderOk, BuilderFails,
           ForkWorker, WorkerOk, WorkerFails, KillMain, KillSegment, KillWorker

\* So a key stays valid as long as somebody works under it.
LEMMA UnderKept ==
  ASSUME IInv, Orderly, scene' = scene, NEW i \in Invocation, Step(i),
         NEW j \in Invocation, Under(j), j = i \/ Born(j)
  PROVE  Under(j)'
  <1>1. Host(j) \in Invocation /\ Host(j) # j
    BY ChainType DEF IInv, Under
  <1>2. Host(j) # i
    BY <1>1, HostWaits
  <1>3. Same(Host(j))
    BY <1>1, <1>2, StepFrame DEF IInv
  <1>4. Host(j)' = Host(j)
    BY DEF Host
  <1>. QED  BY <1>3, <1>4 DEF Under, Same

\* What is said of the invocations that take no step.
LEMMA OthersScope ==
  ASSUME IInv, Orderly, scene' = scene, NEW i \in Invocation, Step(i),
         NEW j \in Invocation \ {i}
  PROVE  ScopeOf(j)'
  <1>1. Same(j) /\ ScopeOf(j) /\ HolderOf(j) /\ j \in Invocation
    BY StepFrame DEF IInv, HolderInv, ScopeInv
  <1>2. Born(j) /\ Under(j) => Under(j)'
    BY UnderKept
  <1>3. main[j] \in {"lock", "fork", "wait"} \/ InScope(j) => Born(j)
    BY <1>1 DEF Born, HolderOf, InScope, Writes
  <1>4. ReleaseForRun(j)' = ReleaseForRun(j) /\ Len(Chain(j))' = Len(Chain(j))
    BY DEF ReleaseForRun, Chain
  <1>5. (InScope(j)' <=> InScope(j)) /\ (GoesOn(j)' <=> GoesOn(j))
    BY <1>1, <1>4 DEF Same, InScope, Writes, Failed, AtWork, GoesOn
  <1>6. /\ segment'[j] # "watch" /\ builder'[j] = "none"
        /\ main'[j] \in {"fork", "wait"} => "main" \in keyed'[j]
        /\ segment'[j] = "work" \/ (segment'[j] = "program" /\ ~ReleaseForRun(j)) => "segment" \in keyed'[j]
        /\ lock' = j /\ main'[j] \in {"fork", "wait"} => "main" \in fds'[j]
        /\ lock' = j /\ segment'[j] \in {"work", "program"} => "segment" \in fds'[j]
        /\ lock' = j => AtWork(j)' \subseteq fds'[j]
    BY <1>1 DEF Same, ScopeOf, AtWork
  <1>7. main'[j] = "lock" /\ "main" \in keyed'[j] => Under(j)'
    BY <1>1, <1>2, <1>3 DEF Same, ScopeOf
  <1>8. main'[j] = "fork" \/ InScope(j) \/ GoesOn(j) => lock' = j \/ Under(j)'
    BY <1>1, <1>2, <1>3 DEF Same, ScopeOf, GoesOn
  <1>. QED  BY <1>4, <1>5, <1>6, <1>7, <1>8 DEF ScopeOf

\* What is said of the invocation that takes the step.
LEMMA OwnScope ==
  ASSUME IInv, Orderly, scene' = scene, NEW i \in Invocation, Step(i)
  PROVE  ScopeOf(i)'
  <1>1. ScopeOf(i) /\ HolderOf(i)
    BY DEF IInv, HolderInv, ScopeInv
  <1>2. Under(i) => Under(i)'
    BY UnderKept
  <1>3. Chain(i)' = Chain(i) /\ (ReleaseForRun(i)' <=> ReleaseForRun(i))
    BY DEF ReleaseForRun, Chain
  <1>4. /\ at[i] \in DOMAIN Chain(i) /\ Current(i) # "watch"
        /\ Current(i) \in {"run", "test"} /\ ReleaseForRun(i) => at[i] = Len(Chain(i))
    <2>1. at[i] \in DOMAIN Chain(i)
      BY ChainType DEF IInv, TypeOK
    <2>. QED  BY <2>1 DEF Orderly, KeepsLock, Current
  <1>5. Current(i) = "run" => ReleaseForRun(i)
    BY <1>4 DEF Current, ReleaseForRun
  <1>6. at[i] \in Nat /\ Len(Chain(i)) \in Nat /\ rc[i] \in {0, 1}
    BY ChainType DEF IInv, TypeOK
  <1>7. TypeOK
    BY DEF IInv
  <1>26. AtWork(i) \cap {"main", "segment", "builder"} = {}
    BY WorkerAssumption DEF AtWork
  <1>. USE <1>1, <1>2, <1>3, <1>6, <1>26, InvocationAssumption
       DEF ScopeOf, HolderOf, InScope, Writes, GoesOn
  <1>8. CASE Reenter(i)
    BY <1>7, <1>8, WorkersKept DEF Reenter, TypeOK
  <1>9. CASE Acquire(i)
    BY <1>7, <1>9, WorkersKept DEF Acquire, TypeOK
  <1>10. CASE ForkSegment(i)
    BY <1>4, <1>7, <1>10, SegmentWorkers DEF ForkSegment, Inherit, TypeOK
  <1>11. CASE NextSegment(i)
    BY <1>7, <1>11, WorkersKept DEF NextSegment, SegmentOver, TypeOK
  <1>12. CASE Return(i)
    <2>1. /\ Release(i, "main") /\ AtWork(i)' = AtWork(i) /\ Failed(i)' = Failed(i)
          /\ died' = died
      BY <1>7, <1>12, WorkersKept DEF Return, Role
    <2>2. /\ fds'[i] = fds[i] \ {"main"} /\ keyed'[i] = keyed[i] \ {"main"}
          /\ lock' = i => lock = i /\ "main" \notin fds[i]
      BY <1>7, <2>1, ReleaseEffect DEF Role
    <2>3. /\ main'[i] = "gone" /\ UNCHANGED <<at, segment, builder, rc>>
          /\ AtWork(i) = {} /\ segment[i] = "exited"
      BY <1>7, <1>12, WorkersKept DEF Return, TypeOK, SegmentOver
    <2>. QED  BY <2>1, <2>2, <2>3
  <1>13. CASE BuildOk(i)
    <2>1. /\ Close(i, "segment") /\ AtWork(i)' = AtWork(i) /\ Failed(i)' = Failed(i)
          /\ died' = died
      BY <1>7, <1>13, WorkersKept DEF BuildOk, Role
    <2>2. /\ fds'[i] = fds[i] \ {"segment"} /\ keyed'[i] = keyed[i] \ {"segment"}
          /\ lock' = i <=> lock = i /\ fds[i] # {"segment"}
      BY <1>7, <2>1, CloseEffect DEF Role
    <2>3. /\ UNCHANGED <<at, main, builder>> /\ segment'[i] = "exited"
          /\ segment[i] = "work" /\ AtWork(i) = {} /\ Failed(i) = {}
      BY <1>7, <1>13, WorkersKept DEF BuildOk, TypeOK, Resolved, Failed
    <2>. QED  BY <2>1, <2>2, <2>3
  <1>14. CASE WorkFails(i)
    <2>1. /\ Release(i, "segment") /\ AtWork(i)' = AtWork(i) /\ Failed(i)' = Failed(i)
          /\ died' = died \cup {i}
      BY <1>7, <1>14, WorkersKept, DieEffect DEF WorkFails, Role
    <2>2. /\ fds'[i] = fds[i] \ {"segment"} /\ keyed'[i] = keyed[i] \ {"segment"}
          /\ lock' = i => lock = i /\ "segment" \notin fds[i]
      BY <1>7, <2>1, ReleaseEffect DEF Role
    <2>3. /\ UNCHANGED <<at, main, builder>> /\ segment'[i] = "exited" /\ rc'[i] = 1
          /\ segment[i] = "work"
      BY <1>7, <1>14, WorkersKept DEF WorkFails, TypeOK
    <2>. QED  BY <2>1, <2>2, <2>3
  <1>15. CASE StartProgram(i)
    <2>1. /\ AtWork(i)' = AtWork(i) /\ AtWork(i) = {} /\ Failed(i) = {} /\ died' = died
          /\ UNCHANGED <<at, main, builder, rc>> /\ segment[i] = "work" /\ segment'[i] = "program"
      BY <1>7, <1>15, WorkersKept DEF StartProgram, Resolved, Failed, TypeOK
    <2>2. CASE ReleaseForRun(i)
      <3>1. /\ fds'[i] = fds[i] \ {"segment"} /\ keyed'[i] = keyed[i] \ {"segment"}
            /\ lock' = i => lock = i /\ "segment" \notin fds[i]
        BY <1>7, <1>15, <2>2, ReleaseEffect DEF StartProgram, Role
      <3>. QED  BY <2>1, <2>2, <3>1
    <2>3. CASE ~ReleaseForRun(i)
      <3>1. UNCHANGED <<lock, fds, keyed>>
        BY <1>15, <2>3 DEF StartProgram
      <3>. QED  BY <2>1, <2>3, <3>1
    <2>. QED  BY <2>2, <2>3
  <1>16. CASE RunEnds(i)
    <2>1. /\ Release(i, "segment") /\ AtWork(i)' = AtWork(i) /\ Failed(i)' = Failed(i)
          /\ died' = died
      BY <1>7, <1>16, WorkersKept DEF RunEnds, Role
    <2>2. /\ fds'[i] = fds[i] \ {"segment"} /\ keyed'[i] = keyed[i] \ {"segment"}
          /\ lock' = i => lock = i /\ "segment" \notin fds[i]
      BY <1>7, <2>1, ReleaseEffect DEF Role
    <2>3. /\ UNCHANGED <<at, main, builder>> /\ segment'[i] = "exited"
          /\ segment[i] = "program" /\ Current(i) = "run"
      BY <1>7, <1>16, WorkersKept DEF RunEnds, TypeOK
    <2>. QED  BY <2>1, <2>2, <2>3, <1>4, <1>5
  <1>17. CASE TestsPass(i)
    <2>1. /\ Close(i, "segment") /\ AtWork(i)' = AtWork(i) /\ Failed(i)' = Failed(i)
          /\ died' = died
      BY <1>7, <1>17, WorkersKept DEF TestsPass, Role
    <2>2. /\ fds'[i] = fds[i] \ {"segment"} /\ keyed'[i] = keyed[i] \ {"segment"}
          /\ lock' = i <=> lock = i /\ fds[i] # {"segment"}
      BY <1>7, <2>1, CloseEffect DEF Role
    <2>3. /\ UNCHANGED <<at, main, builder>> /\ segment'[i] = "exited"
          /\ segment[i] = "program"
      BY <1>7, <1>17, WorkersKept DEF TestsPass, TypeOK
    <2>4. at[i] < Len(Chain(i)) => "segment" \in keyed[i]
      BY <1>4, <1>17 DEF TestsPass
    <2>. QED  BY <2>1, <2>2, <2>3, <2>4
  <1>18. CASE TestFails(i)
    <2>1. /\ Release(i, "segment") /\ AtWork(i)' = AtWork(i) /\ Failed(i)' = Failed(i)
          /\ died' = died \cup {i}
      BY <1>7, <1>18, WorkersKept, DieEffect DEF TestFails, Role
    <2>2. /\ fds'[i] = fds[i] \ {"segment"} /\ keyed'[i] = keyed[i] \ {"segment"}
          /\ lock' = i => lock = i /\ "segment" \notin fds[i]
      BY <1>7, <2>1, ReleaseEffect DEF Role
    <2>3. /\ UNCHANGED <<at, main, builder>> /\ segment'[i] = "exited" /\ rc'[i] = 1
          /\ segment[i] = "program"
      BY <1>7, <1>18, WorkersKept DEF TestFails, TypeOK
    <2>. QED  BY <2>1, <2>2, <2>3
  <1>19. CASE ForkBuilder(i) \/ BuilderOk(i) \/ BuilderFails(i)
    BY <1>19 DEF ForkBuilder, BuilderOk, BuilderFails
  <1>20. CASE KillMain(i)
    <2>1. /\ Close(i, "main") /\ AtWork(i)' = AtWork(i) /\ Failed(i)' = Failed(i)
          /\ died' = died
      BY <1>7, <1>20, WorkersKept DEF KillMain, Role
    <2>2. /\ fds'[i] = fds[i] \ {"main"} /\ keyed'[i] = keyed[i] \ {"main"}
          /\ lock' = i <=> lock = i /\ fds[i] # {"main"}
      BY <1>7, <2>1, CloseEffect DEF Role
    <2>3. main'[i] = "gone" /\ UNCHANGED <<at, segment, builder, rc>>
      BY <1>7, <1>20, WorkersKept DEF KillMain, TypeOK
    <2>. QED  BY <2>1, <2>2, <2>3
  <1>21. CASE KillSegment(i)
    <2>1. /\ Close(i, "segment") /\ AtWork(i)' = AtWork(i) /\ Failed(i)' = Failed(i)
          /\ died' = died
      BY <1>7, <1>21, WorkersKept DEF KillSegment, Role
    <2>2. /\ fds'[i] = fds[i] \ {"segment"} /\ keyed'[i] = keyed[i] \ {"segment"}
          /\ lock' = i <=> lock = i /\ fds[i] # {"segment"}
      BY <1>7, <2>1, CloseEffect DEF Role
    <2>3. /\ UNCHANGED <<at, main, builder>> /\ segment'[i] = "exited" /\ rc'[i] = 1
          /\ segment[i] \in {"work", "program", "watch"}
      BY <1>7, <1>21, WorkersKept DEF KillSegment, TypeOK
    <2>. QED  BY <2>1, <2>2, <2>3
  <1>22. ASSUME NEW w \in Worker, ForkWorker(i, w) PROVE ScopeOf(i)'
    <2>1. /\ AtWork(i)' = AtWork(i) \cup {w} /\ Failed(i)' = Failed(i)
          /\ UNCHANGED <<at, main, segment, builder, rc, lock, died>> /\ segment[i] = "work"
      BY <1>7, <1>22, ForkEffect DEF ForkWorker
    <2>2. /\ fds'[i] = (IF "segment" \in fds[i] THEN fds[i] \cup {w} ELSE fds[i] \ {w})
          /\ keyed'[i] = (IF "segment" \in keyed[i] THEN keyed[i] \cup {w} ELSE keyed[i] \ {w})
          /\ w \notin {"main", "segment", "builder"}
      BY <1>7, <1>22, WorkerAssumption DEF ForkWorker, Inherit, TypeOK
    <2>. QED  BY <2>1, <2>2
  <1>23. ASSUME NEW w \in Worker, WorkerOk(i, w) PROVE ScopeOf(i)'
    <2>1. /\ Close(i, w) /\ UNCHANGED <<at, main, segment, builder, rc>>
          /\ died' = died
      BY <1>7, <1>23 DEF WorkerOk, Role
    <2>2. AtWork(i)' = AtWork(i) \ {w} /\ w \in AtWork(i) /\ Failed(i) \subseteq Failed(i)'
      BY <1>7, <1>23, EndEffect
    <2>3. /\ fds'[i] = fds[i] \ {w} /\ keyed'[i] = keyed[i] \ {w}
          /\ lock' = i <=> lock = i /\ fds[i] # {w}
          /\ w \notin {"main", "segment", "builder"}
      BY <1>7, <2>1, CloseEffect, WorkerAssumption DEF Role
    <2>. QED  BY <2>1, <2>2, <2>3
  <1>25. ASSUME NEW w \in Worker, KillWorker(i, w) PROVE ScopeOf(i)'
    <2>1. /\ Close(i, w) /\ UNCHANGED <<at, main, segment, builder, rc>>
          /\ died' = died
      BY <1>7, <1>25 DEF KillWorker, Role
    <2>2. AtWork(i)' = AtWork(i) \ {w} /\ w \in AtWork(i) /\ Failed(i) \subseteq Failed(i)'
      BY <1>7, <1>25, EndEffect
    <2>3. /\ fds'[i] = fds[i] \ {w} /\ keyed'[i] = keyed[i] \ {w}
          /\ lock' = i <=> lock = i /\ fds[i] # {w}
          /\ w \notin {"main", "segment", "builder"}
      BY <1>7, <2>1, CloseEffect, WorkerAssumption DEF Role
    <2>. QED  BY <2>1, <2>2, <2>3
  <1>24. ASSUME NEW w \in Worker, WorkerFails(i, w) PROVE ScopeOf(i)'
    <2>1. /\ Release(i, w) /\ UNCHANGED <<at, main, segment, builder, rc>>
          /\ died' = died \cup {i}
      BY <1>7, <1>24, DieEffect DEF WorkerFails, Role
    <2>2. AtWork(i)' = AtWork(i) \ {w} /\ w \in AtWork(i) /\ Failed(i) \subseteq Failed(i)'
      BY <1>7, <1>24, EndEffect
    <2>5. Failed(i)' # {}
      BY <1>7, <1>24 DEF WorkerFails, TypeOK, Failed
    <2>3. /\ fds'[i] = fds[i] \ {w} /\ keyed'[i] = keyed[i] \ {w}
          /\ lock' = i => lock = i /\ w \notin fds[i]
          /\ w \notin {"main", "segment", "builder"}
      BY <1>7, <2>1, ReleaseEffect, WorkerAssumption DEF Role
    <2>. QED  BY <2>1, <2>2, <2>3, <2>5
  <1>. QED
    BY <1>8, <1>9, <1>10, <1>11, <1>12, <1>13, <1>14, <1>15, <1>16, <1>17, <1>18, <1>19, <1>20,
       <1>21, <1>22, <1>23, <1>24, <1>25 DEF Step

\* A nested `c` is given the key of a host that works under a lock, or none.
LEMMA NestedScope ==
  ASSUME IInv, Orderly, scene' = scene, NEW i \in Invocation, NEW n \in Invocation,
         StartNested(i, n), NEW j \in Invocation
  PROVE  ScopeOf(j)'
  <1>1. ScopeOf(j) /\ HolderOf(j) /\ HolderOf(n) /\ TypeOK
    BY DEF IInv, HolderInv, ScopeInv
  <1>2. /\ main'[n] = "lock" /\ segment[n] \in {"none", "exited"}
        /\ "main" \in keyed'[n] => "segment" \in keyed[i]
        /\ segment[i] = "program" /\ Host(n) = i
        /\ UNCHANGED <<scene, at, segment, builder, worker, rc, lock, fds, died>>
        /\ \A k \in Invocation \ {n} : main'[k] = main[k] /\ keyed'[k] = keyed[k]
    BY <1>1 DEF StartNested, TypeOK, HolderOf
  <1>3. ASSUME NEW k \in Invocation PROVE Under(k) => Under(k)'
    <2>. SUFFICES ASSUME Under(k) PROVE Under(k)'
      OBVIOUS
    <2>1. Host(k) \in Invocation \ {n}
      BY <1>2, ChainType DEF IInv, Under
    <2>. QED  BY <1>2, <2>1 DEF Under, Host
  <1>4. ReleaseForRun(j)' = ReleaseForRun(j) /\ Len(Chain(j))' = Len(Chain(j))
    BY DEF ReleaseForRun, Chain
  <1>5. CASE j = n
    <2>1. "main" \in keyed'[n] => Under(n)'
      <3>1. i # n /\ i \in Invocation /\ i # None
        BY <1>2, InvocationAssumption
      <3>. QED  BY <1>2, <3>1 DEF Under, Host
    <2>2. AtWork(n)' = AtWork(n) /\ AtWork(n) = {}
      BY <1>1, <1>2, WorkersKept DEF HolderOf, StartNested
    <2>. QED  BY <1>1, <1>2, <1>4, <1>5, <2>1, <2>2 DEF ScopeOf, InScope, Writes, GoesOn
  <1>6. CASE j # n
    <2>1. (InScope(j)' <=> InScope(j)) /\ (GoesOn(j)' <=> GoesOn(j))
      BY <1>2, <1>4, <1>6 DEF InScope, Writes, Failed, AtWork, GoesOn
    <2>. HIDE DEF Orderly
    <2>2. /\ segment'[j] # "watch" /\ builder'[j] = "none"
          /\ main'[j] \in {"fork", "wait"} => "main" \in keyed'[j]
          /\ segment'[j] = "work" \/ (segment'[j] = "program" /\ ~ReleaseForRun(j)) => "segment" \in keyed'[j]
          /\ lock' = j /\ main'[j] \in {"fork", "wait"} => "main" \in fds'[j]
          /\ lock' = j /\ segment'[j] \in {"work", "program"} => "segment" \in fds'[j]
          /\ lock' = j => AtWork(j)' \subseteq fds'[j]
      BY <1>1, <1>2, <1>6 DEF ScopeOf, AtWork
    <2>3. main'[j] = "lock" /\ "main" \in keyed'[j] => Under(j)'
      BY <1>1, <1>2, <1>3, <1>6 DEF ScopeOf
    <2>4. main'[j] = "fork" \/ InScope(j) \/ GoesOn(j) => lock' = j \/ Under(j)'
      BY <1>1, <1>2, <1>3, <1>6 DEF ScopeOf
    <2>. QED  BY <1>4, <2>1, <2>2, <2>3, <2>4 DEF ScopeOf
  <1>. QED  BY <1>5, <1>6

LEMMA NextScopeInv == IInv /\ [Next]_vars => ScopeInv'
  <1>. SUFFICES ASSUME IInv, [Next]_vars PROVE ScopeInv'
    OBVIOUS
  <1>1. scene' = scene
    BY SceneKept
  <1>2. Orderly' => Orderly
    BY <1>1 DEF Orderly, OneNested, KeepsLock, Host, Chain, ReleaseForRun
  <1>. SUFFICES ASSUME Orderly, NEW j \in Invocation PROVE ScopeOf(j)'
    BY <1>2 DEF ScopeInv
  <1>3. ASSUME NEW i \in Invocation, Step(i) PROVE ScopeOf(j)'
    BY <1>1, <1>3, OwnScope, OthersScope
  <1>4. ASSUME NEW i \in Invocation, NEW n \in Invocation, StartNested(i, n) PROVE ScopeOf(j)'
    BY <1>1, <1>4, NestedScope
  <1>5. CASE Terminated \/ UNCHANGED vars
    BY <1>5 DEF Terminated, vars, IInv, ScopeInv, ScopeOf, InScope, Writes, Failed,
                AtWork, GoesOn, Under, Host, Chain, ReleaseForRun
  <1>. QED  BY <1>3, <1>4, <1>5 DEF Next

LEMMA Invariance == Spec => []IInv
  <1>1. IInv /\ [Next]_vars => IInv'
    BY NextTypeOK, NextHolderInv, NextScopeInv DEF IInv
  <1>. QED  BY InitIInv, <1>1, PTL DEF Spec

-----------------------------------------------------------------------------
(* One command at work: all those in scope but the one whose invocation    *)
(* holds the lock have a host in scope that waits, and no two have the     *)
(* same, so not two of them can be without a nested one.                   *)

LEMMA OneAtWork ==
  ASSUME IInv, Orderly
  PROVE  OneBuild
  <1>. DEFINE W == {i \in Invocation : InScope(i)}
              M == {i \in W : Mutating(i)}
              R == W \ {lock}
              f == [i \in R |-> Host(i)]
  <1>1. IsFiniteSet(W) /\ IsFiniteSet(M) /\ IsFiniteSet(W \ M)
    BY InvocationAssumption, FS_Subset
  <1>2. \A i \in R : Host(i) \in W \ M /\ Host(i) # None
    <2>. SUFFICES ASSUME NEW i \in R PROVE Host(i) \in W \ M /\ Host(i) # None
      OBVIOUS
    <2>1. Under(i)
      BY DEF IInv, ScopeInv, ScopeOf
    <2>2. Host(i) \in Invocation
      BY <2>1, ChainType DEF IInv, Under
    <2>3. ~Mutating(Host(i))
      BY <2>1, <2>2 DEF IInv, HolderInv, HolderOf, ScopeInv, ScopeOf, Under, Mutating, Writes
    <2>. QED  BY <2>1, <2>2, <2>3 DEF Under, InScope
  <1>3. f \in Injection(R, W \ M)
    <2>1. \A i, j \in R : Host(i) = Host(j) => i = j
      BY <1>2 DEF Orderly, OneNested
    <2>. QED  BY <1>2, <2>1 DEF Injection, IsInjective
  <1>4. Cardinality(R) <= Cardinality(W \ M)
    BY <1>1, <1>3, FS_Injection
  <1>5. Cardinality(W \ M) = Cardinality(W) - Cardinality(M)
    <2>1. W \cap M = M
      OBVIOUS
    <2>. QED  BY <1>1, <2>1, FS_Difference
  <1>6. Cardinality(R) = (IF lock \in W THEN Cardinality(W) - 1 ELSE Cardinality(W))
    BY <1>1, FS_RemoveElement
  <1>7. Cardinality(W) \in Nat /\ Cardinality(M) \in Nat
    BY <1>1, FS_CardinalityType
  <1>. HIDE DEF W, M, R, f
  <1>8. Cardinality(M) <= 1
    BY <1>4, <1>5, <1>6, <1>7
  <1>9. ASSUME NEW i \in M, NEW j \in M PROVE i = j
    <2>. SUFFICES ASSUME i # j PROVE FALSE
      OBVIOUS
    <2>1. Cardinality({i} \cup {j}) = 2
      <3>1. IsFiniteSet({i}) /\ Cardinality({i}) = 1
        BY FS_Singleton
      <3>2. j \notin {i}
        OBVIOUS
      <3>3. Cardinality({i} \cup {j}) = Cardinality({i}) + 1
        BY <3>1, <3>2, FS_AddElement
      <3>. QED  BY <3>1, <3>3
    <2>2. {i} \cup {j} \subseteq M
      OBVIOUS
    <2>. QED  BY <1>1, <1>7, <1>8, <2>1, <2>2, FS_Subset
  <1>10. \A i \in Invocation : Mutating(i) => i \in M
    BY DEF IInv, ScopeInv, ScopeOf, Mutating, InScope, W, M
  <1>. QED  BY <1>9, <1>10 DEF OneBuild

-----------------------------------------------------------------------------
\* The processes of the invocations and the lock stay what they can be.
THEOREM TypeCorrect == Spec => []TypeOK
  BY Invariance, PTL DEF IInv

\* However processes end, by _exit, die, return or a signal, with whatever
\* chains and nesting, no lock is left that nobody alive can release.
THEOREM NoStaleLockHolds == Spec => []NoStaleLock
  <1>1. IInv => NoStaleLock
    BY DEF IInv, TypeOK, HolderInv, HolderOf, NoStaleLock
  <1>. QED  BY Invariance, <1>1, PTL

\* Any number of invocations with chains that keep the lock, nested in each
\* other's programs to any depth, never build at the same time.
THEOREM BuildMutexHolds == Spec => []BuildMutex
  <1>1. IInv => BuildMutex
    BY OneAtWork DEF BuildMutex
  <1>. QED  BY Invariance, <1>1, PTL

-----------------------------------------------------------------------------
(* Watch.  A stamp names the content that was hashed and the output of the *)
(* one that was read; the history variable mixed holds the contents for    *)
(* which these differed, and the inductive invariant says that no other    *)
(* content is in a stamp beside an output made from something else.        *)

LEMMA WatchInitInv == WatchInit => WatchInv
  <1>. SUFFICES ASSUME WatchInit PROVE WatchInv
    OBVIOUS
  <1>. USE ConstantsAssumption DEF WatchInit, File, Absent, Foreign, Times
  <1>1. WatchTypeOK
    <2>1. /\ stamp \in [input : Foreign..MaxEdits, output : Foreign..MaxEdits]
          /\ object \in [input : Foreign..MaxEdits, source : Foreign..MaxEdits]
      OBVIOUS
    <2>2. /\ content \in [File -> 0..MaxEdits] /\ time \in [File -> 0..MaxEdits]
          /\ edits \in 0..MaxEdits /\ failures \in 0..MaxFailures
      OBVIOUS
    <2>3. stale \in BOOLEAN /\ first \in BOOLEAN /\ ok \in BOOLEAN
      OBVIOUS
    <2>4. output \in Foreign..MaxEdits /\ read \in Absent..MaxEdits
      OBVIOUS
    <2>5. /\ outputTime \in 0..Times - 1 /\ lockTime \in 0..Times - 1
          /\ mixed \subseteq Absent..MaxEdits
      OBVIOUS
    <2>. QED  BY <2>1, <2>2, <2>3, <2>4, <2>5 DEF WatchTypeOK
  <1>2. StampInv
    BY DEF StampInv
  <1>. QED  BY <1>1, <1>2 DEF WatchInv

\* A later modification time is another one of those told apart.
LEMMA LaterType == ASSUME NEW t \in 0..Times - 1 PROVE Later(t) \in 0..Times - 1
  <1>1. Times \in Nat \ {0}
    BY ConstantsAssumption DEF Times
  <1>. QED  BY <1>1 DEF Later

LEMMA WatchNextTypeOK == WatchInv /\ [WatchNext]_watchVars => WatchTypeOK'
  <1>. SUFFICES ASSUME WatchInv, [WatchNext]_watchVars PROVE WatchTypeOK'
    OBVIOUS
  <1>. USE ConstantsAssumption DEF WatchInv, WatchTypeOK, File, Absent, Foreign, Go, files
  <1>1. CASE Resolve
    BY <1>1, LaterType DEF Resolve
  <1>2. CASE Check
    BY <1>2 DEF Check
  <1>3. CASE Generate
    BY <1>3, LaterType DEF Generate
  <1>4. CASE Stamp
    BY <1>4 DEF Stamp
  <1>5. CASE Compile
    BY <1>5 DEF Compile
  <1>12. CASE Compiled
    <2>1. object' \in [input : Foreign..MaxEdits, source : Foreign..MaxEdits]
      BY <1>12 DEF Compiled
    <2>2. stale' \in BOOLEAN /\ pc' = "success"
      BY <1>12 DEF Compiled
    <2>. QED  BY <1>12, <2>1, <2>2 DEF Compiled
  <1>6. CASE GeneratorFails
    BY <1>6, LaterType DEF GeneratorFails, MayFail
  <1>7. CASE StampFails
    BY <1>7 DEF StampFails, MayFail
  <1>13. CASE Fail
    BY <1>13 DEF Fail
  <1>8. CASE BuildOver \/ Poll
    BY <1>8 DEF BuildOver, Poll
  <1>9. CASE Edit
    <2>1. edits' \in 1..MaxEdits /\ edits' = edits + 1
      BY <1>9 DEF Edit, MayEdit
    <2>2. PICK f \in File, c \in 0..edits' : /\ content' = [content EXCEPT ![f] = c]
                                             /\ time' = [time EXCEPT ![f] = edits']
                                             /\ stale' = (stale \/ f = "source")
      BY <1>9 DEF Edit
    <2>3. content' \in [File -> 0..MaxEdits] /\ time' \in [File -> 0..MaxEdits]
      BY <2>1, <2>2
    <2>. QED  BY <1>9, <2>1, <2>2, <2>3 DEF Edit
  <1>10. CASE Spoil
    BY <1>10, LaterType DEF Spoil, MayEdit
  <1>11. CASE UNCHANGED watchVars
    BY <1>11 DEF watchVars
  <1>. QED
    BY <1>1, <1>2, <1>3, <1>4, <1>5, <1>6, <1>7, <1>8, <1>9, <1>10, <1>11,
       <1>12, <1>13 DEF WatchNext, Builder, Watcher

LEMMA WatchNextStampInv == WatchInv /\ [WatchNext]_watchVars => StampInv'
  <1>. SUFFICES ASSUME WatchInv, [WatchNext]_watchVars PROVE StampInv'
    OBVIOUS
  <1>. USE DEF WatchInv, WatchTypeOK, StampInv, Go, files
  <1>1. CASE Resolve \/ Check
    BY <1>1 DEF Resolve, Check
  <1>2. CASE Generate
    BY <1>2 DEF Generate
  <1>3. CASE Stamp
    BY <1>3 DEF Stamp
  <1>4. CASE Compile \/ Compiled
    BY <1>4 DEF Compile, Compiled
  <1>5. CASE GeneratorFails \/ StampFails \/ Fail
    BY <1>5 DEF GeneratorFails, StampFails, Fail, MayFail
  <1>6. CASE BuildOver \/ Poll
    BY <1>6 DEF BuildOver, Poll
  <1>7. CASE Edit
    BY <1>7 DEF Edit
  <1>8. CASE Spoil
    BY <1>8 DEF Spoil
  <1>9. CASE UNCHANGED watchVars
    BY <1>9 DEF watchVars
  <1>. QED
    BY <1>1, <1>2, <1>3, <1>4, <1>5, <1>6, <1>7, <1>8, <1>9 DEF WatchNext, Builder, Watcher

LEMMA WatchInvariance == WatchSpec => []WatchInv
  <1>1. WatchInv /\ [WatchNext]_watchVars => WatchInv'
    BY WatchNextTypeOK, WatchNextStampInv DEF WatchInv
  <1>. QED  BY WatchInitInv, <1>1, PTL DEF WatchSpec

-----------------------------------------------------------------------------
\* Contents, times and places of the watcher and its builds stay in range.
THEOREM WatchTypeCorrect == WatchSpec => []WatchTypeOK
  BY WatchInvariance, PTL DEF WatchInv

\* A generated source the stamp vouches for was made from the input as it is,
\* however often the user edits, puts back or restores input and output and the
\* generator fails, but for an input that was hashed, changed before the
\* generator read it, and put back.
THEOREM GeneratedIsCurrentHolds == WatchSpec => []GeneratedIsCurrent
  <1>1. WatchInv => GeneratedIsCurrent
    BY DEF WatchInv, StampInv, GeneratedIsCurrent, Fresh, Unmixed
  <1>. QED  BY WatchInvariance, <1>1, PTL
=============================================================================
