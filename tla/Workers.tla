------------------------------- MODULE Workers -------------------------------
(***************************************************************************)
(* The two loops of `c` that start processes, up to a limit, and wait for  *)
(* any of them (src/cli.c): compiler_resolve_all builds the source         *)
(* dependencies, a forked worker each, and compiler_cmd_test runs the      *)
(* tests.  A worker is itself a builder that compiles in parallel and then *)
(* archives, in a package directory that outlives it.                      *)
(*                                                                         *)
(* The first failure ends the loop.  Tests are sent SIGTERM; the workers   *)
(* of other dependencies are left to themselves, and the next build may    *)
(* find them at work.                                                      *)
(***************************************************************************)
EXTENDS Integers, FiniteSets

CONSTANTS
  MaxItems,         \* bound on the source dependencies, or the tests
  MaxJobs,          \* bound on -j
  Cpus,
  Objects,          \* objects of a dependency
  Builds            \* bound on the commands, one after the other

ASSUME ConstantsAssumption ==
  /\ MaxItems \in Nat \ {0} /\ MaxJobs \in Nat \ {0} /\ Cpus \in Nat \ {0}
  /\ Objects \in Nat \ {0} /\ Builds \in Nat \ {0}

Item == 1..MaxItems
Build == 1..Builds

VARIABLES
  mode,             \* "deps" or "tests"
  count,            \* how many there are of them
  requested,        \* -j
  total,            \* jobs the loop may use
  build,            \* the current build
  builder,          \* "run", "done", "failed" or "killed"
  next, running, finished,
  child,            \* each build's process for each item
  compilers,        \* running compilers of each worker
  left,             \* objects each worker has still to start
  library,          \* of each dependency: "none", "whole" or "torn"
  ready             \* it is marked

vars == <<mode, count, requested, total, build, builder, next, running, finished,
          child, compilers, left, library, ready>>

Least(a, b) == IF a <= b THEN a ELSE b
Most(a, b) == IF a >= b THEN a ELSE b

\* compiler_adaptive_jobs: half of the processors that have nothing to do.
AdaptiveJobs(jobs, busy) ==
  IF jobs <= 1 \/ busy = 0 THEN Most(jobs, 1)
  ELSE Least(Most(Most(Cpus - busy, 1) \div 2, 1), jobs)

\* One dependency, or one job: the builder does the work itself.
InProcess == mode = "deps" /\ (count <= 1 \/ total <= 1)

Limit == IF InProcess THEN 1 ELSE Least(count, total)

MutJobsPerDep == total
\* The share of the jobs each worker gets.
JobsPerDep == IF InProcess THEN requested ELSE Most(total \div Limit, 1)

Working == {"check", "compile", "failing", "archive", "mark", "test"}
Ended == {"exit0", "exit1"}
Me(i) == <<build, i>>

Init ==
  /\ mode \in {"deps", "tests"} /\ count \in Item /\ requested \in 1..MaxJobs
  /\ total \in {AdaptiveJobs(requested, busy) : busy \in 0..Cpus}
  /\ build = 1 /\ builder = "run"
  /\ next = 1 /\ running = 0 /\ finished = 0
  /\ child = [w \in Build \X Item |-> "none"]
  /\ compilers = [w \in Build \X Item |-> 0]
  /\ left = [w \in Build \X Item |-> Objects]
  /\ ready \in [Item -> BOOLEAN]
  /\ library = [i \in Item |-> IF ready[i] THEN "whole" ELSE "none"]

Scene == <<mode, count, requested, total>>
Loop == <<build, builder, next, running, finished>>
Worker == <<compilers, left, library, ready>>

(* The loop *)

MutMayStart == next <= count
MayStart == next <= count /\ running < Limit

\* fork, or compiler_spawn of a test.
Start ==
  /\ builder = "run" /\ MayStart
  /\ child' = [child EXCEPT ![Me(next)] = IF mode = "deps" THEN "check" ELSE "test"]
  /\ next' = next + 1 /\ running' = running + 1
  /\ UNCHANGED <<Scene, Worker, build, builder, finished>>

\* fork failed, or the test is missing: die.
StartFails ==
  /\ builder = "run" /\ MayStart /\ ~InProcess
  /\ builder' = "failed"
  /\ UNCHANGED <<Scene, Worker, build, next, running, finished, child>>

\* waitpid(-1) has returned the process of i.
Reaped(i) ==
  /\ builder = "run" /\ ~MayStart /\ finished < count
  /\ child[Me(i)] \in Ended

MutReap(i) ==
  /\ Reaped(i) /\ child[Me(i)] = "exit0"
  /\ child' = [child EXCEPT ![Me(i)] = "reaped"]
  /\ finished' = finished + 1
  /\ UNCHANGED <<Scene, Worker, build, builder, next, running>>
MutReapAny(i) ==
  /\ Reaped(i)
  /\ child' = [child EXCEPT ![Me(i)] = "reaped"]
  /\ running' = running - 1 /\ finished' = finished + 1
  /\ UNCHANGED <<Scene, Worker, build, builder, next>>
Reap(i) ==
  /\ Reaped(i) /\ child[Me(i)] = "exit0"
  /\ child' = [child EXCEPT ![Me(i)] = "reaped"]
  /\ running' = running - 1 /\ finished' = finished + 1
  /\ UNCHANGED <<Scene, Worker, build, builder, next>>

\* compiler_cmd_test: the other tests get a SIGTERM, which some may survive.
Terminated(i) ==
  {w \in Build \X Item : mode = "tests" /\ w # Me(i) /\ w[1] = build /\ child[w] = "test"}

\* die
ReapFailed(i) ==
  /\ Reaped(i) /\ child[Me(i)] = "exit1"
  /\ \E dead \in SUBSET Terminated(i) :
       child' = [w \in Build \X Item |->
                   IF w = Me(i) THEN "reaped" ELSE IF w \in dead THEN "exit1" ELSE child[w]]
  /\ builder' = "failed"
  /\ running' = running - 1 /\ finished' = finished + 1
  /\ UNCHANGED <<Scene, Worker, build, next>>

\* All have been waited for.
Finish ==
  /\ builder = "run" /\ finished = count
  /\ builder' = "done"
  /\ UNCHANGED <<Scene, Worker, build, next, running, finished, child>>

\* A signal ends the builder, and the work it does itself; compilers and
\* other processes go on.
Kill ==
  /\ builder = "run"
  /\ builder' = "killed"
  /\ child' = IF InProcess THEN [w \in Build \X Item |-> IF w[1] = build /\ child[w] \in Working THEN "exit1" ELSE child[w]]
              ELSE child
  /\ UNCHANGED <<Scene, Worker, build, next, running, finished>>

\* The lock is free, and the next command starts.
NextBuild ==
  /\ builder # "run" /\ build < Builds
  /\ build' = build + 1 /\ builder' = "run"
  /\ next' = 1 /\ running' = 0 /\ finished' = 0
  /\ UNCHANGED <<Scene, Worker, child>>

(* A worker: compiler_build_dependency *)

To(w, s) == child' = [child EXCEPT ![w] = s]
UnchangedLoop == UNCHANGED <<Scene, Loop>>

\* CACHED: the library and its marker are there.
Check(w) ==
  /\ child[w] = "check"
  /\ To(w, IF library[w[2]] # "none" /\ ready[w[2]] THEN "exit0" ELSE "compile")
  /\ UnchangedLoop /\ UNCHANGED Worker

StartCompiler(w) ==
  /\ child[w] = "compile" /\ left[w] > 0 /\ compilers[w] < JobsPerDep
  /\ compilers' = [compilers EXCEPT ![w] = @ + 1]
  /\ left' = [left EXCEPT ![w] = @ - 1]
  /\ UnchangedLoop /\ UNCHANGED <<child, library, ready>>

CompilerEnds(w) ==
  /\ compilers[w] > 0
  /\ compilers' = [compilers EXCEPT ![w] = @ - 1]
  /\ UnchangedLoop /\ UNCHANGED <<child, left, library, ready>>

\* A compiler fails; the others are cancelled and waited for.
CompilerFails(w) ==
  /\ child[w] = "compile" /\ compilers[w] > 0
  /\ compilers' = [compilers EXCEPT ![w] = @ - 1]
  /\ To(w, "failing")
  /\ UnchangedLoop /\ UNCHANGED <<left, library, ready>>

Cancelled(w) ==
  /\ child[w] = "failing" /\ compilers[w] = 0
  /\ To(w, "exit1")
  /\ UnchangedLoop /\ UNCHANGED Worker

\* Nobody else writes the objects of the same package.
Alone(w) ==
  \A b \in Build \ {w[1]} :
    child[<<b, w[2]>>] \notin {"compile", "failing", "archive", "mark"} /\ compilers[<<b, w[2]>>] = 0

\* ar into a private file that is renamed; what it makes of objects others
\* are writing is anything.
Archive(w) ==
  /\ child[w] = "compile" /\ left[w] = 0 /\ compilers[w] = 0
  /\ \/ library' = [library EXCEPT ![w[2]] = IF Alone(w) THEN "whole" ELSE "torn"] /\ To(w, "mark")
     \/ UNCHANGED library /\ To(w, "exit1")
  /\ UnchangedLoop /\ UNCHANGED <<compilers, left, ready>>

Mark(w) ==
  /\ child[w] = "mark"
  /\ ready' = [ready EXCEPT ![w[2]] = TRUE]
  /\ To(w, "exit0")
  /\ UnchangedLoop /\ UNCHANGED <<compilers, left, library>>

\* A test ends as it likes.
TestEnds(w) ==
  /\ child[w] = "test"
  /\ \E s \in Ended : To(w, s)
  /\ UnchangedLoop /\ UNCHANGED Worker

LoopStep == Start \/ StartFails \/ (\E i \in Item : Reap(i) \/ ReapFailed(i)) \/ Finish

WorkerStep(w) ==
  \/ Check(w) \/ StartCompiler(w) \/ CompilerEnds(w) \/ CompilerFails(w) \/ Cancelled(w)
  \/ Archive(w) \/ Mark(w) \/ TestEnds(w)

Next == LoopStep \/ Kill \/ NextBuild \/ \E w \in Build \X Item : WorkerStep(w)

\* The builder and its workers are scheduled, compilers and tests end.
Spec ==
  /\ Init /\ [][Next]_vars
  /\ WF_vars(LoopStep)
  /\ \A w \in Build \X Item : WF_vars(WorkerStep(w))

-----------------------------------------------------------------------------
TypeOK ==
  /\ mode \in {"deps", "tests"} /\ count \in Item /\ requested \in 1..MaxJobs
  /\ total \in 1..requested
  /\ build \in Build /\ builder \in {"run", "done", "failed", "killed"}
  /\ next \in 1..(count + 1) /\ running \in 0..Limit /\ finished \in 0..count
  /\ child \in [Build \X Item -> {"none", "reaped"} \cup Working \cup Ended]
  /\ compilers \in [Build \X Item -> 0..MaxJobs] /\ left \in [Build \X Item -> 0..Objects]
  /\ library \in [Item -> {"none", "whole", "torn"}] /\ ready \in [Item -> BOOLEAN]

\* The compilers that the workers of one build run at a time are within -j,
\* however the jobs are divided among them (compiler_resolve_all).
Compilers(b) == {c \in Item \X (1..MaxJobs) : c[2] <= compilers[<<b, c[1]>>]}
JobsShared == \A b \in Build : Cardinality(Compilers(b)) <= requested

\* A build that comes to its end has every library marked and every worker
\* waited for, and no test has failed (compiler_resolve_all,
\* compiler_cmd_test), also next to workers an earlier build left behind.
SuccessIsComplete ==
  builder = "done" =>
    \A i \in 1..count :
      /\ child[Me(i)] = "reaped" /\ compilers[Me(i)] = 0
      /\ mode = "deps" => ready[i] /\ library[i] # "none"

\* The loop never waits for processes that are not there: it comes to an end.
LoopEnds == builder = "run" ~> builder # "run"

-----------------------------------------------------------------------------
(* The inductive strengthening of these, proved in WorkersProofs.          *)

\* Processes of a build that were started and not waited for.
Active(b) == {i \in Item : child[<<b, i>>] \notin {"none", "reaped"}}

LoopInv ==
  /\ \A w \in Build \X Item : w[1] > build => child[w] = "none"
  /\ \A i \in Item : child[Me(i)] = "none" <=> i >= next
  /\ \A b \in Build : Cardinality(Active(b)) <= Limit
  /\ builder = "run" => running = Cardinality(Active(build)) /\ running + finished = next - 1
  /\ builder = "done" => \A i \in 1..count : child[Me(i)] = "reaped"

\* Compilers are those of a worker at work, or of a builder that was killed.
CompilersInv ==
  \A w \in Build \X Item :
    /\ compilers[w] <= JobsPerDep
    /\ compilers[w] > 0 =>
         \/ child[w] \in {"compile", "failing"}
         \/ child[w] = "exit1" /\ ~(w[1] = build /\ builder = "run")

Made(i) == mode = "deps" => ready[i] /\ library[i] # "none"
MadeInv ==
  /\ \A w \in Build \X Item :
       /\ child[w] = "test" => mode = "tests"
       /\ child[w] = "mark" => library[w[2]] # "none"
       /\ child[w] = "exit0" => Made(w[2])
  /\ builder \in {"run", "done"} => \A i \in Item : child[Me(i)] = "reaped" => Made(i)

IInv == TypeOK /\ LoopInv /\ CompilersInv /\ MadeInv
=============================================================================
