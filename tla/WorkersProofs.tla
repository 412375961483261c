---------------------------- MODULE WorkersProofs ----------------------------
(***************************************************************************)
(* Proofs about Workers for any number of dependencies or tests, builds,   *)
(* processors, objects and jobs.  The workers that run at a time are       *)
(* counted by LoopInv, what each may start is bounded by CompilersInv, and *)
(* MadeInv says what the exit status 0 of a worker stands for.             *)
(***************************************************************************)
EXTENDS Workers, ObjectCache, FiniteSetTheorems, TLAPS

Pair == Build \X Item

-----------------------------------------------------------------------------
(* Arithmetic of the shares. *)

\* compiler_adaptive_jobs lowers the job count at most, and never below one.
LEMMA AdaptiveRange ==
  ASSUME NEW jobs \in Nat \ {0}, NEW busy \in 0 .. Cpus
  PROVE  AdaptiveJobs(jobs, busy) \in 1 .. jobs
  <1>1. CASE jobs <= 1 \/ busy = 0
    BY <1>1 DEF AdaptiveJobs, Most
  <1>2. CASE ~(jobs <= 1 \/ busy = 0)
    <2>1. Most(Cpus - busy, 1) \in Nat \ {0}
      BY ConstantsAssumption DEF Most
    <2>2. Most(Cpus - busy, 1) \div 2 \in Int
      BY <2>1
    <2>3. Most(Most(Cpus - busy, 1) \div 2, 1) \in Nat \ {0}
      BY <2>2 DEF Most
    <2>. QED  BY <1>2, <2>3 DEF AdaptiveJobs, Least
  <1>. QED  BY <1>1, <1>2

\* A quotient is not more than its share.
LEMMA DivBound ==
  ASSUME NEW t \in Nat, NEW k \in Nat \ {0}, k <= t
  PROVE  t \div k \in Nat \ {0} /\ k * (t \div k) <= t /\ t \div k <= k * (t \div k)
  OBVIOUS

\* The shares of as many workers as may run at a time add up to no more than -j.
LEMMA Shares ==
  ASSUME TypeOK
  PROVE  /\ Limit \in Nat \ {0} /\ JobsPerDep \in 1 .. requested
         /\ Limit * JobsPerDep <= requested
  <1>1. /\ requested \in Nat \ {0} /\ total \in Nat \ {0} /\ count \in Nat \ {0}
        /\ total <= requested
    BY ConstantsAssumption DEF TypeOK, Item
  <1>2. CASE InProcess
    BY <1>1, <1>2 DEF Limit, JobsPerDep
  <1>3. CASE ~InProcess
    <2>. DEFINE L == Limit
                q == total \div L
    <2>1. L \in Nat \ {0} /\ L <= total
      BY <1>1, <1>3 DEF Limit, Least
    <2>2. q \in Nat \ {0} /\ L * q <= total /\ q <= L * q
      BY <1>1, <2>1, DivBound
    <2>3. JobsPerDep = q
      BY <1>3, <2>2 DEF JobsPerDep, Most
    <2>. HIDE DEF q, L
    <2>4. q \in 1 .. requested /\ L * q <= requested
      BY <1>1, <2>1, <2>2
    <2>. QED  BY <2>1, <2>3, <2>4 DEF L
  <1>. QED  BY <1>2, <1>3

LEMMA ItemFinite ==
  ASSUME NEW S \in SUBSET Item
  PROVE  IsFiniteSet(S) /\ Cardinality(S) \in Nat
  <1>1. IsFiniteSet(Item)
    BY ConstantsAssumption, FS_Interval DEF Item
  <1>2. IsFiniteSet(S)
    BY <1>1, FS_Subset
  <1>. QED  BY <1>2, FS_CardinalityType

LEMMA ActiveFinite == \A b : IsFiniteSet(Active(b)) /\ Cardinality(Active(b)) \in Nat
  BY ItemFinite DEF Active

-----------------------------------------------------------------------------
LEMMA InitIInv == Init => IInv
  <1>. SUFFICES ASSUME Init PROVE IInv
    OBVIOUS
  <1>. USE ConstantsAssumption DEF Init, Item, Build
  <1>1. TypeOK
    <2>1. total \in 1 .. requested
      BY AdaptiveRange
    <2>2. Limit \in Nat \ {0}
      BY <2>1 DEF Limit, Least
    <2>. QED  BY <2>1, <2>2 DEF TypeOK
  <1>2. LoopInv
    <2>1. \A b \in Build : Active(b) = {}
      BY DEF Active
    <2>2. \A b \in Build : Cardinality(Active(b)) = 0
      BY <2>1, FS_EmptySet
    <2>3. Limit \in Nat \ {0}
      BY <1>1, Shares
    <2>. QED  BY <2>2, <2>3 DEF LoopInv, Me
  <1>3. CompilersInv
    BY <1>1, Shares DEF CompilersInv
  <1>4. MadeInv
    BY DEF MadeInv, Me
  <1>. QED  BY <1>1, <1>2, <1>3, <1>4 DEF IInv

\* A worker at work does not touch the loop, and goes on being a process that
\* was started and not waited for.
LEMMA WorkerFrame ==
  ASSUME TypeOK, NEW w \in Pair, WorkerStep(w)
  PROVE  /\ UNCHANGED <<Scene, Loop>>
         /\ \A v \in Pair : /\ child'[v] = "none" <=> child[v] = "none"
                            /\ child'[v] = "reaped" <=> child[v] = "reaped"
  <1>. USE DEF TypeOK, Pair, To, UnchangedLoop, Ended
  <1>1. CASE Check(w) \/ StartCompiler(w) \/ CompilerEnds(w)
    BY <1>1 DEF Check, StartCompiler, CompilerEnds
  <1>2. CASE CompilerFails(w) \/ Cancelled(w)
    BY <1>2 DEF CompilerFails, Cancelled
  <1>3. CASE Archive(w)
    BY <1>3 DEF Archive
  <1>4. CASE Mark(w) \/ TestEnds(w)
    BY <1>4 DEF Mark, TestEnds
  <1>. QED  BY <1>1, <1>2, <1>3, <1>4 DEF WorkerStep

LEMMA NextTypeOK == IInv /\ [Next]_vars => TypeOK'
  <1>. SUFFICES ASSUME IInv, [Next]_vars PROVE TypeOK'
    OBVIOUS
  <1>. USE ConstantsAssumption DEF IInv, TypeOK, Scene, Loop, Worker, Working, Ended, Me
  <1>0. Limit \in Nat /\ next \in Nat /\ JobsPerDep \in 1 .. MaxJobs
    BY Shares DEF Item
  <1>a. UNCHANGED <<mode, count, requested, total>> => Limit' = Limit
    BY DEF Limit, InProcess
  <1>1. CASE Start
    <2>1. Me(next) \in Build \X Item
      BY <1>0, <1>1 DEF Start, MayStart, Item
    <2>2. next' \in 1..(count + 1) /\ running' \in 0..Limit
      BY <1>0, <1>1 DEF Start, MayStart, Item
    <2>. QED  BY <1>1, <1>a, <2>1, <2>2 DEF Start
  <1>2. CASE StartFails \/ Finish
    BY <1>2, <1>a DEF StartFails, Finish
  <1>3. ASSUME NEW i \in Item, Reap(i) \/ ReapFailed(i) PROVE TypeOK'
    <2>1. Me(i) \in Build \X Item /\ child[Me(i)] \in Ended /\ finished < count /\ builder = "run"
      BY <1>3 DEF Reap, ReapFailed, Reaped
    <2>2. running \in 1 .. Limit
      <3>1. i \in Active(build)
        BY <2>1 DEF Active
      <3>2. Cardinality(Active(build)) # 0
        BY <3>1, ActiveFinite, FS_EmptySet
      <3>. QED  BY <1>0, <2>1, <3>2, ActiveFinite DEF LoopInv
    <2>3. running' \in 0..Limit /\ finished' \in 0..count
      BY <1>0, <1>3, <2>1, <2>2 DEF Reap, ReapFailed, Item
    <2>4. child' \in [Build \X Item -> {"none", "reaped"} \cup Working \cup Ended]
      BY <1>3, <2>1 DEF Reap, ReapFailed
    <2>. QED  BY <1>3, <1>a, <2>3, <2>4 DEF Reap, ReapFailed
  <1>4. CASE Kill
    <2>1. child' \in [Build \X Item -> {"none", "reaped"} \cup Working \cup Ended]
      BY <1>4 DEF Kill
    <2>. QED  BY <1>4, <1>a, <2>1 DEF Kill
  <1>5. CASE NextBuild
    BY <1>5, <1>0, <1>a DEF NextBuild, Build, Item
  <1>6. ASSUME NEW w \in Build \X Item, WorkerStep(w) PROVE TypeOK'
    <2>1. UNCHANGED <<Scene, Loop>>
      BY <1>6, WorkerFrame DEF Pair
    <2>2. child' \in [Build \X Item -> {"none", "reaped"} \cup Working \cup Ended]
      BY <1>6 DEF WorkerStep, Check, StartCompiler, CompilerEnds, CompilerFails, Cancelled, Archive,
                  Mark, TestEnds, To
    <2>3. compilers' \in [Build \X Item -> 0..MaxJobs]
      BY <1>6, <1>0 DEF WorkerStep, Check, StartCompiler, CompilerEnds, CompilerFails, Cancelled,
                  Archive, Mark, TestEnds
    <2>4. left' \in [Build \X Item -> 0..Objects]
      BY <1>6 DEF WorkerStep, Check, StartCompiler, CompilerEnds, CompilerFails, Cancelled, Archive,
                  Mark, TestEnds
    <2>5. library' \in [Item -> {"none", "whole", "torn"}] /\ ready' \in [Item -> BOOLEAN]
      BY <1>6 DEF WorkerStep, Check, StartCompiler, CompilerEnds, CompilerFails, Cancelled, Archive,
                  Mark, TestEnds
    <2>. QED  BY <1>a, <2>1, <2>2, <2>3, <2>4, <2>5
  <1>7. CASE UNCHANGED vars
    BY <1>7, <1>a DEF vars
  <1>. QED
    BY <1>1, <1>2, <1>3, <1>4, <1>5, <1>6, <1>7 DEF Next, LoopStep

-----------------------------------------------------------------------------
(* LoopInv: the counters of the loop are those of the process table. *)

\* What LoopInv says depends on the loop and on which processes were started
\* and waited for, so the steps of workers keep it.
LEMMA LoopFrame ==
  ASSUME TypeOK, LoopInv, UNCHANGED <<Scene, Loop>>,
         \A v \in Pair : /\ child'[v] = "none" <=> child[v] = "none"
                         /\ child'[v] = "reaped" <=> child[v] = "reaped"
  PROVE  LoopInv'
  <1>. USE DEF Scene, Loop, Pair, Me
  <1>0. build \in Build
    BY DEF TypeOK
  <1>1. \A b \in Build : Active(b)' = Active(b)
    BY DEF Active
  <1>2. Limit' = Limit
    BY DEF Limit, InProcess
  <1>3. /\ \A w \in Build \X Item : w[1] > build => child'[w] = "none"
        /\ \A i \in Item : child'[<<build, i>>] = "none" <=> i >= next
    BY <1>0 DEF LoopInv
  <1>4. \A b \in Build : Cardinality(Active(b)') <= Limit
    BY <1>1 DEF LoopInv
  <1>5. builder = "run" => running = Cardinality(Active(build)') /\ running + finished = next - 1
    BY <1>0, <1>1 DEF LoopInv
  <1>6. builder = "done" => \A i \in 1..count : child'[<<build, i>>] = "reaped"
    BY <1>0, ConstantsAssumption DEF LoopInv, TypeOK, Item
  <1>. QED  BY <1>2, <1>3, <1>4, <1>5, <1>6 DEF LoopInv

\* Starting adds a process to those of the build and waiting removes one.
LEMMA ActiveStart ==
  ASSUME TypeOK, NEW i \in Item, child[Me(i)] = "none",
         NEW s, s \notin {"none", "reaped"},
         child' = [child EXCEPT ![Me(i)] = s],
         NEW b \in Build
  PROVE  Cardinality(Active(b)') = Cardinality(Active(b)) + (IF b = build THEN 1 ELSE 0)
  <1>. USE DEF TypeOK, Me
  <1>1. CASE b = build
    <2>1. Active(b)' = Active(b) \cup {i} /\ i \notin Active(b)
      BY <1>1 DEF Active
    <2>2. Cardinality(Active(b) \cup {i}) = Cardinality(Active(b)) + 1
      BY <2>1, ActiveFinite, FS_AddElement
    <2>. QED  BY <1>1, <2>1, <2>2
  <1>2. CASE b # build
    <2>1. Active(b)' = Active(b)
      BY <1>2 DEF Active
    <2>. QED  BY <1>2, <2>1, ActiveFinite
  <1>. QED  BY <1>1, <1>2

\* A process was waited for, whether it succeeded or not.
LEMMA ReapedChild ==
  ASSUME TypeOK, NEW i \in Item, Reap(i) \/ ReapFailed(i)
  PROVE  /\ Me(i) \in Pair /\ child[Me(i)] \in Ended /\ child'[Me(i)] = "reaped"
         /\ \A v \in Pair \ {Me(i)} : /\ child'[v] = "none" <=> child[v] = "none"
                                      /\ child'[v] = "reaped" <=> child[v] = "reaped"
  <1>. USE DEF TypeOK, Me, Pair
  <1>1. child[Me(i)] \in Ended /\ Me(i) \in Pair
    BY DEF Reap, ReapFailed, Reaped
  <1>2. CASE Reap(i)
    BY <1>1, <1>2 DEF Reap
  <1>3. CASE ReapFailed(i)
    BY <1>1, <1>3 DEF ReapFailed, Terminated, Ended
  <1>. QED  BY <1>1, <1>2, <1>3

LEMMA ActiveReap ==
  ASSUME TypeOK, NEW i \in Item, Reap(i) \/ ReapFailed(i), NEW b \in Build
  PROVE  Cardinality(Active(b)') = Cardinality(Active(b)) - (IF b = build THEN 1 ELSE 0)
  <1>. USE ReapedChild DEF Me, Pair
  <1>1. CASE b = build
    <2>1. Active(b)' = Active(b) \ {i} /\ i \in Active(b)
      BY <1>1 DEF Active, Ended
    <2>2. Cardinality(Active(b) \ {i}) = Cardinality(Active(b)) - 1
      BY <2>1, ActiveFinite, FS_RemoveElement
    <2>. QED  BY <1>1, <2>1, <2>2
  <1>2. CASE b # build
    <2>1. Active(b)' = Active(b)
      BY <1>2 DEF Active
    <2>. QED  BY <1>2, <2>1, ActiveFinite
  <1>. QED  BY <1>1, <1>2

\* When the last process was waited for, all were started and waited for.
LEMMA AllReaped ==
  ASSUME TypeOK, LoopInv, builder = "run", finished = count
  PROVE  \A i \in 1 .. count : child[Me(i)] = "reaped"
  <1>1. next = count + 1 /\ Cardinality(Active(build)) = 0
    BY ActiveFinite, ConstantsAssumption DEF TypeOK, LoopInv, Item
  <1>2. Active(build) = {}
    BY <1>1, ActiveFinite, FS_EmptySet
  <1>3. ASSUME NEW i \in 1 .. count PROVE child[Me(i)] = "reaped"
    <2>1. i \in Item /\ ~(i >= next)
      BY <1>1, <1>3, ConstantsAssumption DEF TypeOK, Item
    <2>. QED  BY <1>2, <2>1 DEF LoopInv, Active, Me
  <1>. QED  BY <1>3

LEMMA NextLoopInv == IInv /\ [Next]_vars => LoopInv'
  <1>. SUFFICES ASSUME IInv, [Next]_vars PROVE LoopInv'
    OBVIOUS
  <1>. USE ConstantsAssumption DEF IInv, TypeOK, Scene, Loop, Worker, Ended, Me
  <1>0. Limit \in Nat /\ next \in Nat
    BY Shares DEF Item
  <1>a. UNCHANGED <<mode, count, requested, total>> => Limit' = Limit
    BY DEF Limit, InProcess
  <1>b. \A b \in Build : Cardinality(Active(b)) \in Nat
    BY ActiveFinite
  <1>1. CASE Start
    <2>1. next \in Item /\ child[Me(next)] = "none" /\ builder = "run" /\ running < Limit
      BY <1>0, <1>1 DEF Start, MayStart, Item, LoopInv
    <2>2. PICK s \in {"check", "test"} : child' = [child EXCEPT ![Me(next)] = s]
      BY <1>1 DEF Start
    <2>3. \A b \in Build :
            Cardinality(Active(b)') = Cardinality(Active(b)) + (IF b = build THEN 1 ELSE 0)
      BY <2>1, <2>2, ActiveStart
    <2>5. \A b \in Build : Cardinality(Active(b)') <= Limit
      BY <1>0, <1>b, <2>1, <2>3 DEF LoopInv
    <2>4. /\ \A w \in Build \X Item : w[1] > build => child'[w] = "none"
          /\ \A i \in Item : child'[<<build, i>>] = "none" <=> i >= next + 1
      <3>1. ASSUME NEW w \in Build \X Item, w # Me(next) PROVE child'[w] = child[w]
        BY <1>1, <3>1 DEF Start
      <3>2. child'[Me(next)] # "none"
        BY <1>1, <2>1 DEF Start
      <3>3. \A w \in Build \X Item : w[1] > build => child'[w] = "none"
        BY <2>1, <3>1 DEF LoopInv, Build
      <3>4. \A i \in Item : child'[<<build, i>>] = "none" <=> i >= next + 1
        <4>. SUFFICES ASSUME NEW i \in Item
             PROVE  child'[<<build, i>>] = "none" <=> i >= next + 1
          OBVIOUS
        <4>1. CASE i = next
          BY <1>0, <3>2, <4>1
        <4>2. CASE i # next
          <5>1. child'[<<build, i>>] = child[<<build, i>>]
            BY <3>1, <4>2
          <5>. QED  BY <1>0, <4>2, <5>1 DEF LoopInv, Item
        <4>. QED  BY <4>1, <4>2
      <3>. QED  BY <3>3, <3>4
    <2>. QED  BY <1>0, <1>1, <1>a, <1>b, <2>1, <2>2, <2>3, <2>4, <2>5 DEF Start, LoopInv
  <1>2. CASE StartFails
    BY <1>2, <1>a DEF StartFails, LoopInv, Active
  <1>3. ASSUME NEW i \in Item, Reap(i) \/ ReapFailed(i) PROVE LoopInv'
    <2>1. builder = "run" /\ builder' \in {"run", "failed"} /\ UNCHANGED <<Scene, build, next>>
          /\ running' = running - 1 /\ finished' = finished + 1
      BY <1>3 DEF Reap, ReapFailed, Reaped
    <2>2. \A b \in Build :
            Cardinality(Active(b)') = Cardinality(Active(b)) - (IF b = build THEN 1 ELSE 0)
      BY <1>3, ActiveReap
    <2>3. \A b \in Build : Cardinality(Active(b)') <= Limit
      BY <1>0, <1>b, <2>2 DEF LoopInv
    <2>4. /\ \A w \in Build \X Item : w[1] > build => child'[w] = "none"
          /\ \A k \in Item : child'[<<build, k>>] = "none" <=> k >= next
      <3>1. \A v \in Pair : child'[v] = "none" <=> child[v] = "none"
        BY <1>3, ReapedChild
      <3>. QED  BY <3>1 DEF LoopInv, Pair
    <2>. QED  BY <1>0, <1>a, <1>b, <2>1, <2>2, <2>3, <2>4 DEF LoopInv, Item
  <1>4. CASE Finish
    BY <1>4, <1>a, AllReaped DEF Finish, LoopInv, Active
  <1>5. CASE Kill
    <2>1. \A v \in Pair : /\ child'[v] = "none" <=> child[v] = "none"
                          /\ child'[v] = "reaped" <=> child[v] = "reaped"
      BY <1>5 DEF Kill, Working, Pair
    <2>2. \A b \in Build : Active(b)' = Active(b)
      BY <2>1 DEF Active, Pair
    <2>. QED  BY <1>5, <1>a, <2>1, <2>2 DEF Kill, LoopInv, Pair
  <1>6. CASE NextBuild
    <2>1. \A b \in Build : Active(b)' = Active(b)
      BY <1>6 DEF NextBuild, Active
    <2>2. build + 1 \in Build /\ Active(build + 1) = {}
      BY <1>6 DEF NextBuild, Active, LoopInv, Build
    <2>3. Cardinality(Active(build + 1)) = 0
      BY <2>2, FS_EmptySet
    <2>. QED  BY <1>6, <1>a, <2>1, <2>2, <2>3 DEF NextBuild, LoopInv, Build, Item
  <1>7. ASSUME NEW w \in Build \X Item, WorkerStep(w) PROVE LoopInv'
    BY <1>7, WorkerFrame, LoopFrame DEF Pair
  <1>8. CASE UNCHANGED vars
    BY <1>8, LoopFrame DEF vars
  <1>. QED
    BY <1>1, <1>2, <1>3, <1>4, <1>5, <1>6, <1>7, <1>8 DEF Next, LoopStep

-----------------------------------------------------------------------------
LEMMA NextCompilersInv == IInv /\ [Next]_vars => CompilersInv'
  <1>. SUFFICES ASSUME IInv, [Next]_vars PROVE CompilersInv'
    OBVIOUS
  <1>. USE DEF IInv, TypeOK, CompilersInv, Scene, Loop, Worker, Working, Ended, Me
  <1>0. JobsPerDep \in Nat
    BY Shares
  <1>a. UNCHANGED <<mode, count, requested, total>> => JobsPerDep' = JobsPerDep
    BY DEF JobsPerDep, Limit, InProcess
  <1>1. CASE Start
    <2>1. next \in Item /\ child[Me(next)] = "none"
      BY <1>1, ConstantsAssumption DEF Start, MayStart, Item, LoopInv
    <2>2. \A w \in Build \X Item : compilers[w] > 0 => w # Me(next)
      BY <2>1
    <2>. QED  BY <1>1, <1>a, <2>2 DEF Start
  <1>2. CASE StartFails \/ Finish
    BY <1>2, <1>a DEF StartFails, Finish
  <1>3. ASSUME NEW i \in Item, Reap(i) \/ ReapFailed(i) PROVE CompilersInv'
    <2>1. Me(i) \in Build \X Item /\ ~(compilers[Me(i)] > 0)
      BY <1>3 DEF Reap, ReapFailed, Reaped
    <2>2. \A w \in Build \X Item : compilers[w] > 0 => w # Me(i) /\ child'[w] = child[w]
      BY <1>3, <2>1 DEF Reap, ReapFailed, Terminated
    <2>3. UNCHANGED <<Scene, Worker, build>> /\ builder = "run"
      BY <1>3 DEF Reap, ReapFailed, Reaped
    <2>. QED  BY <1>a, <2>2, <2>3
  <1>4. CASE Kill
    BY <1>4, <1>a DEF Kill
  <1>5. CASE NextBuild
    <2>1. \A w \in Build \X Item : compilers[w] > 0 => w[1] # build + 1
      BY <1>5 DEF NextBuild, LoopInv, Build
    <2>. QED  BY <1>5, <1>a, <2>1 DEF NextBuild
  <1>6. ASSUME NEW w \in Build \X Item, WorkerStep(w) PROVE CompilersInv'
    <2>1. UNCHANGED <<Scene, Loop>>
      BY <1>6, WorkerFrame DEF Pair
    <2>2. CASE Check(w) \/ Mark(w) \/ TestEnds(w)
      BY <1>a, <2>1, <2>2 DEF Check, Mark, TestEnds, To
    <2>3. CASE StartCompiler(w) \/ CompilerEnds(w)
      BY <1>0, <1>a, <2>1, <2>3 DEF StartCompiler, CompilerEnds
    <2>4. CASE CompilerFails(w) \/ Cancelled(w) \/ Archive(w)
      BY <1>0, <1>a, <2>1, <2>4 DEF CompilerFails, Cancelled, Archive, To
    <2>. QED  BY <1>6, <2>2, <2>3, <2>4 DEF WorkerStep
  <1>7. CASE UNCHANGED vars
    BY <1>7, <1>a DEF vars
  <1>. QED
    BY <1>1, <1>2, <1>3, <1>4, <1>5, <1>6, <1>7 DEF Next, LoopStep

LEMMA NextMadeInv == IInv /\ [Next]_vars => MadeInv'
  <1>. SUFFICES ASSUME IInv, [Next]_vars PROVE MadeInv'
    OBVIOUS
  <1>. USE DEF IInv, TypeOK, MadeInv, Made, Scene, Loop, Worker, Working, Ended, Me
  <1>1. CASE Start
    BY <1>1 DEF Start
  <1>2. CASE StartFails \/ Finish
    BY <1>2 DEF StartFails, Finish
  <1>3. ASSUME NEW i \in Item, Reap(i) PROVE MadeInv'
    BY <1>3 DEF Reap, Reaped
  <1>4. ASSUME NEW i \in Item, ReapFailed(i) PROVE MadeInv'
    BY <1>4 DEF ReapFailed, Reaped, Terminated
  <1>5. CASE Kill
    BY <1>5 DEF Kill
  <1>6. CASE NextBuild
    <2>1. \A i \in Item : child[<<build + 1, i>>] = "none"
      <3>1. build + 1 \in Build /\ build + 1 > build
        BY <1>6, ConstantsAssumption DEF NextBuild, Build
      <3>2. \A i \in Item : <<build + 1, i>> \in Build \X Item
        BY <3>1
      <3>. QED  BY <3>1, <3>2 DEF LoopInv
    <2>. QED  BY <1>6, <2>1 DEF NextBuild
  <1>7. ASSUME NEW w \in Build \X Item, WorkerStep(w) PROVE MadeInv'
    <2>1. UNCHANGED <<Scene, Loop>>
      BY <1>7, WorkerFrame DEF Pair
    <2>2. CASE Check(w) \/ StartCompiler(w) \/ CompilerEnds(w)
      BY <2>1, <2>2 DEF Check, StartCompiler, CompilerEnds, To
    <2>3. CASE CompilerFails(w) \/ Cancelled(w)
      BY <2>1, <2>3 DEF CompilerFails, Cancelled, To
    <2>4. CASE Archive(w)
      BY <2>1, <2>4 DEF Archive, To
    <2>5. CASE Mark(w)
      BY <2>1, <2>5 DEF Mark, To
    <2>6. CASE TestEnds(w)
      BY <2>1, <2>6 DEF TestEnds, To
    <2>. QED  BY <1>7, <2>2, <2>3, <2>4, <2>5, <2>6 DEF WorkerStep
  <1>8. CASE UNCHANGED vars
    BY <1>8 DEF vars
  <1>. QED
    BY <1>1, <1>2, <1>3, <1>4, <1>5, <1>6, <1>7, <1>8 DEF Next, LoopStep

LEMMA Invariance == Spec => []IInv
  <1>1. IInv /\ [Next]_vars => IInv'
    BY NextTypeOK, NextLoopInv, NextCompilersInv, NextMadeInv DEF IInv
  <1>. QED  BY InitIInv, <1>1, PTL DEF Spec

-----------------------------------------------------------------------------
\* The cached counters stay in range, and so do the places of the processes.
THEOREM TypeCorrect == Spec => []TypeOK
  BY Invariance, PTL DEF IInv

\* At most Limit workers of a build have compilers, and each at most its share.
LEMMA CompilersBound ==
  ASSUME IInv, NEW b \in Build
  PROVE  Cardinality(Compilers(b)) <= requested
  <1>. DEFINE A == Active(b)
              J == JobsPerDep
  <1>1. J \in 1 .. requested /\ Limit \in Nat \ {0} /\ Limit * J <= requested /\ requested \in Nat
    BY Shares DEF IInv, TypeOK
  <1>2. IsFiniteSet(A) /\ Cardinality(A) \in Nat /\ Cardinality(A) <= Limit
    BY ActiveFinite DEF IInv, LoopInv
  <1>3. IsFiniteSet(1 .. J) /\ Cardinality(1 .. J) = J
    BY <1>1, FS_Interval
  <1>4. IsFiniteSet(A \X (1 .. J)) /\ Cardinality(A \X (1 .. J)) = Cardinality(A) * J
    BY <1>2, <1>3, FS_Product
  <1>5. Compilers(b) \subseteq A \X (1 .. J)
    <2>. SUFFICES ASSUME NEW c \in Compilers(b) PROVE c[1] \in A /\ c[2] \in 1 .. J /\ c = <<c[1], c[2]>>
      BY DEF Compilers
    <2>1. c[1] \in Item /\ c[2] \in 1 .. MaxJobs /\ c = <<c[1], c[2]>> /\ c[2] <= compilers[<<b, c[1]>>]
      BY DEF Compilers
    <2>2. compilers[<<b, c[1]>>] \in 0 .. MaxJobs
      BY <2>1 DEF IInv, TypeOK
    <2>3. compilers[<<b, c[1]>>] > 0 /\ compilers[<<b, c[1]>>] <= J
      BY <2>1, <2>2, ConstantsAssumption DEF IInv, CompilersInv
    <2>4. child[<<b, c[1]>>] \notin {"none", "reaped"}
      BY <2>1, <2>3 DEF IInv, CompilersInv
    <2>. QED  BY <1>1, <2>1, <2>2, <2>3, <2>4, ConstantsAssumption DEF Active
  <1>6. Cardinality(Compilers(b)) \in Nat /\ Cardinality(Compilers(b)) <= Cardinality(A) * J
    BY <1>4, <1>5, FS_Subset, FS_CardinalityType
  <1>. HIDE DEF A, J
  <1>7. Cardinality(A) * J <= Limit * J
    BY <1>1, <1>2
  <1>8. Cardinality(A) * J \in Nat /\ Limit * J \in Nat
    BY <1>1, <1>2
  <1>. QED  BY <1>1, <1>6, <1>7, <1>8

\* The compilers of a build's workers are within -j, however many dependencies
\* and jobs there are, whichever workers fail or are killed.
THEOREM JobsSharedHolds == Spec => []JobsShared
  <1>1. IInv => JobsShared
    BY CompilersBound DEF JobsShared
  <1>. QED  BY Invariance, <1>1, PTL

\* A build that came to its end waited for all it started, and each of them left
\* a marked library, or passed.
THEOREM SuccessIsCompleteHolds == Spec => []SuccessIsComplete
  <1>1. IInv => SuccessIsComplete
    <2>. SUFFICES ASSUME IInv, builder = "done", NEW i \in 1 .. count
         PROVE  /\ child[Me(i)] = "reaped" /\ compilers[Me(i)] = 0
                /\ mode = "deps" => ready[i] /\ library[i] # "none"
      BY DEF SuccessIsComplete
    <2>1. i \in Item /\ Me(i) \in Build \X Item
      BY ConstantsAssumption DEF IInv, TypeOK, Item, Me
    <2>2. child[Me(i)] = "reaped"
      BY DEF IInv, LoopInv
    <2>3. compilers[Me(i)] = 0
      BY <2>1, <2>2, ConstantsAssumption DEF IInv, TypeOK, CompilersInv
    <2>. QED  BY <2>1, <2>2, <2>3 DEF IInv, MadeInv, Made
  <1>. QED  BY Invariance, <1>1, PTL

-----------------------------------------------------------------------------
(* ObjectCache: the entry that the compilers of several builds share.  Its *)
(* inductive invariant has what a builder has made or copied so far, and,  *)
(* for builds that take turns, how far the one at work has got with the    *)
(* three files of the entry.                                               *)

\* The headers of a builder are a version, and no version is None.
LEMMA HeadersType == \A b \in Builder : Headers[b] \in Version /\ Headers[b] # None
  BY HeadersAssumption DEF Version

LEMMA CacheInitInv == CacheInit => CacheInv
  <1>. SUFFICES ASSUME CacheInit PROVE CacheInv
    OBVIOUS
  <1>1. CacheTypeOK
    BY DEF CacheInit, CacheTypeOK
  <1>2. FilesInv
    BY DEF CacheInit, FilesInv
  <1>3. TurnsInv
    <2>1. Uniform(None)
      BY DEF CacheInit, Uniform
    <2>. QED  BY <2>1 DEF CacheInit, TurnsInv, EntryAt, Own, Busy
  <1>. QED  BY <1>1, <1>2, <1>3 DEF CacheInv

\* FilesInv is needed: only a compiled object is stored.
LEMMA CacheNextTypeOK == CacheInv /\ [CacheNext]_cacheVars => CacheTypeOK'
  <1>. SUFFICES ASSUME CacheInv, [CacheNext]_cacheVars PROVE CacheTypeOK'
    OBVIOUS
  <1>. USE DEF CacheInv, CacheTypeOK, Goto, At
  <1>1. ASSUME NEW b \in Builder, Hit(b) \/ Miss(b) PROVE CacheTypeOK'
    BY <1>1 DEF Hit, Miss, MayBegin
  <1>2. ASSUME NEW b \in Builder, CopyObj(b) \/ CopyDep(b) PROVE CacheTypeOK'
    BY <1>2 DEF CopyObj, CopyDep, Part
  <1>3. ASSUME NEW b \in Builder, DropObj(b) \/ DropDep(b) \/ DropMeta(b) PROVE CacheTypeOK'
    BY <1>3 DEF DropObj, DropDep, DropMeta, Remove, Part
  <1>4. ASSUME NEW b \in Builder, Compile(b) \/ CompileFails(b) PROVE CacheTypeOK'
    BY <1>4, HeadersType DEF Compile, CompileFails
  <1>5. ASSUME NEW b \in Builder, StoreObj(b) \/ StoreDep(b) \/ StoreMeta(b) PROVE CacheTypeOK'
    BY <1>5, HeadersType DEF StoreObj, StoreDep, StoreMeta, Put, Part
  <1>6. ASSUME NEW b \in Builder, Again(b) \/ Crash(b) PROVE CacheTypeOK'
    BY <1>6 DEF Again, Crash
  <1>7. CASE UNCHANGED cacheVars
    BY <1>7 DEF cacheVars
  <1>. QED
    BY <1>1, <1>2, <1>3, <1>4, <1>5, <1>6, <1>7 DEF CacheNext, Step

LEMMA CacheNextFilesInv == CacheInv /\ [CacheNext]_cacheVars => FilesInv'
  <1>. SUFFICES ASSUME CacheInv, [CacheNext]_cacheVars PROVE FilesInv'
    OBVIOUS
  <1>. USE DEF CacheInv, CacheTypeOK, FilesInv, Goto, At
  <1>1. ASSUME NEW b \in Builder, Hit(b) \/ Miss(b) PROVE FilesInv'
    BY <1>1 DEF Hit, Miss, MayBegin
  <1>2. ASSUME NEW b \in Builder, CopyObj(b) \/ CopyDep(b) PROVE FilesInv'
    BY <1>2 DEF CopyObj, CopyDep
  <1>3. ASSUME NEW b \in Builder, DropObj(b) \/ DropDep(b) \/ DropMeta(b) PROVE FilesInv'
    BY <1>3 DEF DropObj, DropDep, DropMeta
  <1>4. ASSUME NEW b \in Builder, Compile(b) \/ CompileFails(b) PROVE FilesInv'
    BY <1>4 DEF Compile, CompileFails
  <1>5. ASSUME NEW b \in Builder, StoreObj(b) \/ StoreDep(b) \/ StoreMeta(b) PROVE FilesInv'
    BY <1>5, HeadersType DEF StoreObj, StoreDep, StoreMeta
  <1>6. ASSUME NEW b \in Builder, Again(b) \/ Crash(b) PROVE FilesInv'
    BY <1>6 DEF Again, Crash
  <1>7. CASE UNCHANGED cacheVars
    BY <1>7 DEF cacheVars
  <1>. QED
    BY <1>1, <1>2, <1>3, <1>4, <1>5, <1>6, <1>7 DEF CacheNext, Step

-----------------------------------------------------------------------------
(* Builds that take turns. *)

\* A build starts when nobody is busy and the entry is about one version, or
\* absent as a whole.
LEMMA FoundUniform ==
  ASSUME TurnsInv, regime.turns, ~regime.kills, NEW b \in Builder, MayBegin(b)
  PROVE  /\ \A c \in Builder : ~Busy(c)
         /\ \E v \in Version \cup {None} : Uniform(v)
  BY DEF TurnsInv, MayBegin

\* While b is busy, what TurnsInv says of the others is that they are not.
LEMMA OthersIdle ==
  ASSUME TurnsInv, regime.turns, ~regime.kills, NEW b \in Builder, Busy(b),
         NEW c \in Builder, c # b
  PROVE  pc[c] \in {"lookup", "done", "dead"}
  BY DEF TurnsInv, Busy

\* A step of b after which b is busy, or the entry uniform, keeps TurnsInv if
\* it leaves the entry as b's new place says and b's files its own.
LEMMA StepOfOne ==
  ASSUME TurnsInv, CacheTypeOK, regime.turns, ~regime.kills, NEW b \in Builder,
         \A c \in Builder \ {b} : ~Busy(c),
         \A c \in Builder \ {b} : pc'[c] = pc[c] /\ obj'[c] = obj[c] /\ dep'[c] = dep[c],
         UNCHANGED regime,
         EntryAt(b)',
         Busy(b)' \/ \E v \in Version \cup {None} : Uniform(v)',
         pc'[b] = "done" => obj'[b] = Headers[b] /\ dep'[b] = Headers[b]
  PROVE  TurnsInv'
  <1>1. \A c \in Builder \ {b} : ~Busy(c)' /\ pc'[c] \in {"lookup", "done", "dead"}
    BY DEF Busy
  <1>2. \A c, d \in Builder : Busy(c)' /\ Busy(d)' => c = d
    BY <1>1
  <1>3. (\A c \in Builder : ~Busy(c)') => \E v \in Version \cup {None} : Uniform(v)'
    OBVIOUS
  <1>4. ASSUME NEW c \in Builder PROVE EntryAt(c)'
    <2>1. CASE c = b
      BY <2>1
    <2>2. CASE c # b
      BY <1>1, <2>2 DEF EntryAt
    <2>. QED  BY <2>1, <2>2
  <1>5. Own'
    BY DEF TurnsInv, Own
  <1>. QED  BY <1>2, <1>3, <1>4, <1>5 DEF TurnsInv

LEMMA CacheNextTurnsInv == CacheInv /\ [CacheNext]_cacheVars => TurnsInv'
  <1>. SUFFICES ASSUME CacheInv, [CacheNext]_cacheVars, regime.turns, ~regime.kills PROVE TurnsInv'
    BY DEF TurnsInv, CacheNext, Step, Hit, Miss, CopyObj, CopyDep, DropObj, DropDep, DropMeta,
           Compile, CompileFails, StoreObj, StoreDep, StoreMeta, Again, Crash, cacheVars
  <1>. USE DEF CacheInv, CacheTypeOK, Goto, At
  <1>1. ASSUME NEW b \in Builder, Hit(b) \/ Miss(b) PROVE TurnsInv'
    <2>1. PICK v \in Version \cup {None} : Uniform(v)
      BY <1>1, FoundUniform DEF Hit, Miss
    <2>2. \A c \in Builder : ~Busy(c)
      BY <1>1, FoundUniform DEF Hit, Miss
    <2>3. EntryAt(b)' /\ Busy(b)' /\ pc'[b] # "done"
      BY <1>1, <2>1 DEF Hit, Miss, EntryAt, Uniform, Busy, Part
    <2>4. \A c \in Builder \ {b} : pc'[c] = pc[c] /\ obj'[c] = obj[c] /\ dep'[c] = dep[c]
      BY <1>1 DEF Hit, Miss
    <2>5. UNCHANGED regime
      BY <1>1 DEF Hit, Miss
    <2>. QED  BY <2>2, <2>3, <2>4, <2>5, StepOfOne
  <1>2. ASSUME NEW b \in Builder, CopyObj(b) \/ CopyDep(b) PROVE TurnsInv'
    <2>1. EntryAt(b) /\ Uniform(Headers[b]) /\ Busy(b) /\ Headers[b] # None
      BY <1>2, HeadersType DEF CopyObj, CopyDep, EntryAt, TurnsInv, Busy
    <2>2. \A c \in Builder \ {b} : ~Busy(c)
      BY <2>1, OthersIdle DEF Busy
    <2>3. /\ EntryAt(b)'
          /\ Uniform(Headers[b])'
          /\ pc'[b] = "done" => obj'[b] = Headers[b] /\ dep'[b] = Headers[b]
      BY <1>2, <2>1 DEF CopyObj, CopyDep, EntryAt, Uniform, Part
    <2>4. \A c \in Builder \ {b} : pc'[c] = pc[c] /\ obj'[c] = obj[c] /\ dep'[c] = dep[c]
      BY <1>2 DEF CopyObj, CopyDep
    <2>5. UNCHANGED regime
      BY <1>2 DEF CopyObj, CopyDep
    <2>. QED  BY <2>2, <2>3, <2>4, <2>5, HeadersType, StepOfOne
  <1>3. ASSUME NEW b \in Builder, DropObj(b) \/ DropDep(b) \/ DropMeta(b) PROVE TurnsInv'
    <2>1. EntryAt(b) /\ Busy(b)
      BY <1>3 DEF DropObj, DropDep, DropMeta, TurnsInv, Busy
    <2>2. \A c \in Builder \ {b} : ~Busy(c)
      BY <2>1, OthersIdle DEF Busy
    <2>3. EntryAt(b)' /\ Busy(b)' /\ pc'[b] # "done"
      BY <1>3, <2>1 DEF DropObj, DropDep, DropMeta, Remove, EntryAt, Uniform, Busy, Part
    <2>4. \A c \in Builder \ {b} : pc'[c] = pc[c] /\ obj'[c] = obj[c] /\ dep'[c] = dep[c]
      BY <1>3 DEF DropObj, DropDep, DropMeta
    <2>5. UNCHANGED regime
      BY <1>3 DEF DropObj, DropDep, DropMeta
    <2>. QED  BY <2>2, <2>3, <2>4, <2>5, StepOfOne
  <1>4. ASSUME NEW b \in Builder, Compile(b) \/ CompileFails(b) PROVE TurnsInv'
    <2>1. Uniform(None) /\ Busy(b)
      BY <1>4 DEF Compile, CompileFails, TurnsInv, EntryAt, Busy
    <2>2. \A c \in Builder \ {b} : ~Busy(c)
      BY <2>1, OthersIdle DEF Busy
    <2>3. EntryAt(b)' /\ Uniform(None)' /\ pc'[b] # "done"
      BY <1>4, <2>1 DEF Compile, CompileFails, EntryAt, Uniform
    <2>4. \A c \in Builder \ {b} : pc'[c] = pc[c] /\ obj'[c] = obj[c] /\ dep'[c] = dep[c]
      BY <1>4 DEF Compile, CompileFails
    <2>5. UNCHANGED regime
      BY <1>4 DEF Compile, CompileFails
    <2>. QED  BY <2>2, <2>3, <2>4, <2>5, StepOfOne
  <1>5. ASSUME NEW b \in Builder, StoreObj(b) \/ StoreDep(b) \/ StoreMeta(b) PROVE TurnsInv'
    <2>1. EntryAt(b) /\ Busy(b)
      BY <1>5 DEF StoreObj, StoreDep, StoreMeta, TurnsInv, Busy
    <2>2. \A c \in Builder \ {b} : ~Busy(c)
      BY <2>1, OthersIdle DEF Busy
    <2>3. /\ EntryAt(b)'
          /\ Busy(b)' \/ Uniform(Headers[b])'
          /\ pc'[b] = "done" => obj'[b] = Headers[b] /\ dep'[b] = Headers[b]
      BY <1>5, <2>1 DEF StoreObj, StoreDep, StoreMeta, Put, EntryAt, Uniform, Part, Busy, FilesInv
    <2>4. \A c \in Builder \ {b} : pc'[c] = pc[c] /\ obj'[c] = obj[c] /\ dep'[c] = dep[c]
      BY <1>5 DEF StoreObj, StoreDep, StoreMeta
    <2>5. UNCHANGED regime
      BY <1>5 DEF StoreObj, StoreDep, StoreMeta
    <2>. QED  BY <2>2, <2>3, <2>4, <2>5, HeadersType, StepOfOne
  <1>6. ASSUME NEW b \in Builder, Again(b) PROVE TurnsInv'
    BY <1>6 DEF Again, TurnsInv, Busy, EntryAt, Uniform, Own
  <1>7. ASSUME NEW b \in Builder, Crash(b) PROVE TurnsInv'
    BY <1>7 DEF Crash
  <1>8. CASE UNCHANGED cacheVars
    BY <1>8 DEF cacheVars, TurnsInv, Busy, EntryAt, Uniform, Own
  <1>. QED
    BY <1>1, <1>2, <1>3, <1>4, <1>5, <1>6, <1>7, <1>8 DEF CacheNext, Step

LEMMA CacheInvariance == CacheSpec => []CacheInv
  <1>1. CacheInv /\ [CacheNext]_cacheVars => CacheInv'
    BY CacheNextTypeOK, CacheNextFilesInv, CacheNextTurnsInv DEF CacheInv
  <1>. QED  BY CacheInitInv, <1>1, PTL DEF CacheSpec

-----------------------------------------------------------------------------
\* The files of the entry and of the builders stay what they can be.
THEOREM CacheTypeCorrect == CacheSpec => []CacheTypeOK
  BY CacheInvariance, PTL DEF CacheInv

\* However builders interleave, remove the entry under each other's copies and
\* are killed, a build that ends well has an object and a depfile.
THEOREM CompleteHolds == CacheSpec => []Complete
  <1>1. CacheInv => Complete
    BY DEF CacheInv, FilesInv, Complete
  <1>. QED  BY CacheInvariance, <1>1, PTL

\* Builds of any number of checkouts that take turns and are not killed get the
\* object of their own headers, though the key does not name them.
THEOREM ObjectIsOwnHolds == CacheSpec => []ObjectIsOwn
  <1>1. CacheInv => ObjectIsOwn
    BY DEF CacheInv, TurnsInv, ObjectIsOwn
  <1>. QED  BY CacheInvariance, <1>1, PTL
=============================================================================
