---------------------------- MODULE ProjectLock ----------------------------
(***************************************************************************)
(* The project lock of src/cache_io.h and the processes that share it.     *)
(*                                                                         *)
(* Every `c` command of one project directory takes flock(LOCK_EX) in a    *)
(* constructor, before main.  main then runs the commands of its chain one *)
(* by one, each in a forked child (cli_run_segment), the segment.  `c      *)
(* watch` forks once more for each build; a command with several source    *)
(* dependencies forks a worker for each (compiler_resolve_all).            *)
(*                                                                         *)
(* flock belongs to the open file description, which all of these          *)
(* processes share: LOCK_UN in any of them unlocks it for all, closing a   *)
(* copy of the descriptor unlocks nothing until the last copy is closed.   *)
(* A process that exits through exit(), as die() does, runs the destructor *)
(* c_project_lock_cleanup; one that exits through _exit() or is killed     *)
(* does not.  So a worker that fails takes the lock from its segment and   *)
(* from the other workers.                                                 *)
(*                                                                         *)
(* All invocations here run in the same project directory.  An invocation  *)
(* may be nested: started by the program that `c run` or `c test` of its   *)
(* host is running.                                                        *)
(***************************************************************************)
EXTENDS Integers, Sequences, FiniteSets

CONSTANTS
  Invocation,       \* `c` processes of the project, each with its children
  Worker,           \* the source dependencies, each built by a worker
  Scenes,           \* the situations considered
  None

Command == {"build", "test", "run", "watch"}
Role == {"main", "segment", "builder"} \cup Worker

ASSUME InvocationAssumption == IsFiniteSet(Invocation) /\ None \notin Invocation
ASSUME WorkerAssumption == Worker \cap {"main", "segment", "builder"} = {}
ASSUME ScenesAssumption ==
  \A s \in Scenes :
    /\ \A i \in Invocation : s.chain[i] \in Seq(Command) /\ s.chain[i] # <<>>
    /\ s.host \in [Invocation -> Invocation \cup {None}]
    /\ \A i \in Invocation : s.host[i] # i
    /\ s.deps \in [Invocation -> SUBSET Worker]
    /\ s.tests \in Nat \ {0}
    /\ s.kills \in BOOLEAN

VARIABLES
  scene,            \* chain: the commands of an invocation; host: the one whose
                    \* program starts it, or None; deps: the dependencies its
                    \* builds fork workers for; tests: how many `c test` runs at
                    \* a time; kills: may processes be killed?
  at,               \* index of the command it is running
  main,             \* its main process
  segment,          \* the child that runs the current command
  builder,          \* the child of `c watch` that runs one build
  worker,           \* of the current command, for each dependency
  rc,               \* exit status of the last segment, 0 or 1
  lock,             \* the invocation whose file description has the flock
  fds,              \* its processes with c_project_lock_fd >= 0
  keyed,            \* its processes with C_PROJECT_LOCK_KEY in the environment
  died              \* history: invocations a process of which has called die

vars == <<scene, at, main, segment, builder, worker, rc, lock, fds, keyed, died>>

Chain(i) == scene.chain[i]
Host(i) == scene.host[i]
Current(i) == Chain(i)[at[i]]

\* c_project_command_flags: any `run` before `--` asks for the early release.
MutReleaseForRun(i) == FALSE
ReleaseForRun(i) == \E k \in DOMAIN Chain(i) : Chain(i)[k] = "run"

\* The state of the workers of a command that starts.
NoWorkers == [w \in Worker |-> "none"]
AtWork(i) == {w \in Worker : worker[i][w] = "work"}
Failed(i) == {w \in Worker : worker[i][w] = "failed"}

\* Every source dependency has been built and its worker reaped: the only way
\* out of compiler_resolve_all but die.
Resolved(i) ==
  AtWork(i) = {} /\ Failed(i) = {} /\ \A w \in scene.deps[i] : worker[i][w] = "built"

\* Invocations started by the program i is running and not finished yet.
Nested(i) == {j \in Invocation : Host(j) = i /\ main[j] # "unborn"}
Unfinished(i) ==
  {j \in Nested(i) : \/ main[j] # "gone" \/ segment[j] \notin {"none", "exited"}
                     \/ AtWork(j) # {}}

\* cli_run_segment reads the output of the segment until every process that
\* inherited the pipe, orphans included, has closed it.
SegmentOver(i) ==
  /\ main[i] = "wait" /\ segment[i] = "exited" /\ builder[i] = "none"
  /\ AtWork(i) = {} /\ Unfinished(i) = {}

-----------------------------------------------------------------------------
(* Changes of the flock and of the per-process copies of its descriptor.   *)

\* c_project_lock_release in process r: LOCK_UN, close, unsetenv.
LockAfterRelease(i, r) == IF r \in fds[i] /\ lock = i THEN None ELSE lock

MutLockAfterClose(i, r) == lock
\* A process disappears without the destructor: only its copy is closed.
LockAfterClose(i, r) == IF fds[i] = {r} /\ lock = i THEN None ELSE lock

Forget(f, i, r) == [f EXCEPT ![i] = @ \ {r}]

\* fork copies the descriptor and the environment of r to its child c.
Inherit(f, i, r, c) == [f EXCEPT ![i] = IF r \in @ THEN @ \cup {c} ELSE @ \ {c}]

Release(i, r) ==
  /\ lock' = LockAfterRelease(i, r)
  /\ fds' = [fds EXCEPT ![i] = @ \ {r}]
  /\ keyed' = Forget(keyed, i, r)

Close(i, r) ==
  /\ lock' = LockAfterClose(i, r)
  /\ fds' = [fds EXCEPT ![i] = @ \ {r}]
  /\ keyed' = [keyed EXCEPT ![i] = @ \ {r}]

\* die(): exit(1), which runs the destructor.
Die(i, r) == Release(i, r) /\ died' = died \cup {i}

-----------------------------------------------------------------------------
Init ==
  /\ scene \in Scenes
  /\ at = [i \in Invocation |-> 1]
  /\ main = [i \in Invocation |-> IF Host(i) = None THEN "lock" ELSE "unborn"]
  /\ segment = [i \in Invocation |-> "none"]
  /\ builder = [i \in Invocation |-> "none"]
  /\ worker = [i \in Invocation |-> NoWorkers]
  /\ rc = [i \in Invocation |-> 0]
  /\ lock = None
  /\ fds = [i \in Invocation |-> {}]
  /\ keyed = [i \in Invocation |-> {}]
  /\ died = {}

(* c_project_lock_acquire, the constructor. *)

\* The key of an ancestor in the environment: run under the ancestor's lock.
Reenter(i) ==
  /\ main[i] = "lock" /\ "main" \in keyed[i]
  /\ main' = [main EXCEPT ![i] = "fork"]
  /\ UNCHANGED <<scene, at, segment, builder, worker, rc, lock, fds, keyed, died>>

\* flock(fd, LOCK_EX) blocks until the lock is free.
Acquire(i) ==
  /\ main[i] = "lock" /\ "main" \notin keyed[i]
  /\ lock = None
  /\ lock' = i
  /\ fds' = [fds EXCEPT ![i] = {"main"}]
  /\ keyed' = [keyed EXCEPT ![i] = {"main"}]
  /\ main' = [main EXCEPT ![i] = "fork"]
  /\ UNCHANGED <<scene, at, segment, builder, worker, rc, died>>

(* main and cli_run_segment. *)

ForkSegment(i) ==
  /\ main[i] = "fork"
  /\ main' = [main EXCEPT ![i] = "wait"]
  /\ segment' = [segment EXCEPT ![i] = IF Current(i) = "watch" THEN "watch" ELSE "work"]
  /\ builder' = [builder EXCEPT ![i] = "none"]
  /\ worker' = [worker EXCEPT ![i] = NoWorkers]
  /\ fds' = Inherit(fds, i, "main", "segment")
  /\ keyed' = Inherit(keyed, i, "main", "segment")
  /\ UNCHANGED <<scene, at, rc, lock, died>>

MutNextSegment(i) ==
  /\ SegmentOver(i) /\ rc[i] = 0
  /\ at' = [at EXCEPT ![i] = @ + 1]
  /\ main' = [main EXCEPT ![i] = "fork"]
  /\ UNCHANGED <<scene, segment, builder, worker, rc, lock, fds, keyed, died>>

\* The segment succeeded and the chain goes on.
NextSegment(i) ==
  /\ SegmentOver(i) /\ rc[i] = 0
  /\ at[i] < Len(Chain(i))
  /\ at' = [at EXCEPT ![i] = @ + 1]
  /\ main' = [main EXCEPT ![i] = "fork"]
  /\ UNCHANGED <<scene, segment, builder, worker, rc, lock, fds, keyed, died>>

\* main returns: the chain is at its end or its segment failed.
Return(i) ==
  /\ SegmentOver(i)
  /\ rc[i] # 0 \/ at[i] = Len(Chain(i))
  /\ main' = [main EXCEPT ![i] = "gone"]
  /\ Release(i, "main")
  /\ UNCHANGED <<scene, at, segment, builder, worker, rc, died>>

(* compiler_dispatch in the segment child. *)

\* The work of a `build` is done: _exit(0), no destructor.
BuildOk(i) ==
  /\ segment[i] = "work" /\ Current(i) = "build" /\ Resolved(i)
  /\ segment' = [segment EXCEPT ![i] = "exited"]
  /\ rc' = [rc EXCEPT ![i] = 0]
  /\ Close(i, "segment")
  /\ UNCHANGED <<scene, at, main, builder, worker, died>>

\* The work fails: a failing compiler, linker or worker, or a fork.  Nobody
\* waits for the workers.
WorkFails(i) ==
  /\ segment[i] = "work"
  /\ segment' = [segment EXCEPT ![i] = "exited"]
  /\ rc' = [rc EXCEPT ![i] = 1]
  /\ Die(i, "segment")
  /\ UNCHANGED <<scene, at, main, builder, worker>>

\* The built program or tests are spawned through c_project_posix_spawnp.
StartProgram(i) ==
  /\ segment[i] = "work" /\ Current(i) \in {"run", "test"} /\ Resolved(i)
  /\ segment' = [segment EXCEPT ![i] = "program"]
  /\ IF ReleaseForRun(i) THEN Release(i, "segment") ELSE UNCHANGED <<lock, fds, keyed>>
  /\ UNCHANGED <<scene, at, main, builder, worker, rc, died>>

\* `c run` ends with exit(status of the program).
RunEnds(i) ==
  /\ segment[i] = "program" /\ Current(i) = "run" /\ Unfinished(i) = {}
  /\ segment' = [segment EXCEPT ![i] = "exited"]
  /\ rc' \in {[rc EXCEPT ![i] = r] : r \in {0, 1}}
  /\ Release(i, "segment")
  /\ UNCHANGED <<scene, at, main, builder, worker, died>>

TestsPass(i) ==
  /\ segment[i] = "program" /\ Current(i) = "test" /\ Unfinished(i) = {}
  /\ segment' = [segment EXCEPT ![i] = "exited"]
  /\ rc' = [rc EXCEPT ![i] = 0]
  /\ Close(i, "segment")
  /\ UNCHANGED <<scene, at, main, builder, worker, died>>

\* One test fails: the others get SIGTERM, which their own `c` does not, and
\* nobody is waited for.
TestFails(i) ==
  /\ segment[i] = "program" /\ Current(i) = "test"
  /\ Cardinality(Unfinished(i)) < scene.tests
  /\ segment' = [segment EXCEPT ![i] = "exited"]
  /\ rc' = [rc EXCEPT ![i] = 1]
  /\ Die(i, "segment")
  /\ UNCHANGED <<scene, at, main, builder, worker>>

\* The program of i, or one of its tests, runs `c` in the same project.
StartNested(i, j) ==
  /\ Host(j) = i /\ main[j] = "unborn"
  /\ segment[i] = "program"
  /\ main' = [main EXCEPT ![j] = "lock"]
  /\ keyed' = [keyed EXCEPT ![j] = IF "segment" \in keyed[i] THEN {"main"} ELSE {}]
  /\ UNCHANGED <<scene, at, segment, builder, worker, rc, lock, fds, died>>

(* compiler_resolve_all forks the workers of the source dependencies and   *)
(* waits for them.                                                         *)

\* Workers go on being forked until a failed one is reaped.
ForkWorker(i, w) ==
  /\ segment[i] = "work" /\ w \in scene.deps[i] /\ worker[i][w] = "none"
  /\ worker' = [worker EXCEPT ![i][w] = "work"]
  /\ fds' = Inherit(fds, i, "segment", w)
  /\ keyed' = Inherit(keyed, i, "segment", w)
  /\ UNCHANGED <<scene, at, main, segment, builder, rc, lock, died>>

MutWorkerOk(i, w) ==
  /\ worker[i][w] = "work"
  /\ worker' = [worker EXCEPT ![i][w] = "built"]
  /\ Release(i, w)
  /\ UNCHANGED <<scene, at, main, segment, builder, rc, died>>

\* _exit(0), no destructor.
WorkerOk(i, w) ==
  /\ worker[i][w] = "work"
  /\ worker' = [worker EXCEPT ![i][w] = "built"]
  /\ Close(i, w)
  /\ UNCHANGED <<scene, at, main, segment, builder, rc, died>>

\* die() in compiler_build_dependency: the destructor runs in the worker.
WorkerFails(i, w) ==
  /\ worker[i][w] = "work"
  /\ worker' = [worker EXCEPT ![i][w] = "failed"]
  /\ Die(i, w)
  /\ UNCHANGED <<scene, at, main, segment, builder, rc>>

(* compiler_cmd_watch: builds at once and then on every change, for ever. *)

ForkBuilder(i) ==
  /\ segment[i] = "watch" /\ builder[i] = "none"
  /\ builder' = [builder EXCEPT ![i] = "work"]
  /\ fds' = Inherit(fds, i, "segment", "builder")
  /\ keyed' = Inherit(keyed, i, "segment", "builder")
  /\ UNCHANGED <<scene, at, main, segment, worker, rc, lock, died>>

BuilderOk(i) ==
  /\ builder[i] = "work"
  /\ builder' = [builder EXCEPT ![i] = "none"]
  /\ Close(i, "builder")
  /\ UNCHANGED <<scene, at, main, segment, worker, rc, died>>

\* die() in compiler_cmd_build_or_run: exit(1) in the builder.
BuilderFails(i) ==
  /\ builder[i] = "work"
  /\ builder' = [builder EXCEPT ![i] = "none"]
  /\ Die(i, "builder")
  /\ UNCHANGED <<scene, at, main, segment, worker, rc>>

(* A process is killed; its children live on with their own descriptors. *)

KillMain(i) ==
  /\ scene.kills
  /\ main[i] \in {"lock", "fork", "wait"}
  /\ main' = [main EXCEPT ![i] = "gone"]
  /\ Close(i, "main")
  /\ UNCHANGED <<scene, at, segment, builder, worker, rc, died>>

KillSegment(i) ==
  /\ scene.kills
  /\ segment[i] \in {"work", "program", "watch"}
  /\ segment' = [segment EXCEPT ![i] = "exited"]
  /\ rc' = [rc EXCEPT ![i] = 1]
  /\ Close(i, "segment")
  /\ UNCHANGED <<scene, at, main, builder, worker, died>>

KillWorker(i, w) ==
  /\ scene.kills
  /\ worker[i][w] = "work"
  /\ worker' = [worker EXCEPT ![i][w] = "failed"]
  /\ Close(i, w)
  /\ UNCHANGED <<scene, at, main, segment, builder, rc, died>>

-----------------------------------------------------------------------------
Step(i) ==
  \/ Reenter(i) \/ Acquire(i)
  \/ ForkSegment(i) \/ NextSegment(i) \/ Return(i)
  \/ BuildOk(i) \/ WorkFails(i)
  \/ StartProgram(i) \/ RunEnds(i) \/ TestsPass(i) \/ TestFails(i)
  \/ ForkBuilder(i) \/ BuilderOk(i) \/ BuilderFails(i)
  \/ \E w \in Worker : ForkWorker(i, w) \/ WorkerOk(i, w) \/ WorkerFails(i, w)
  \/ KillMain(i) \/ KillSegment(i) \/ \E w \in Worker : KillWorker(i, w)

\* Every top-level invocation is over; nested ones may never have been started.
Terminated ==
  /\ \A i \in Invocation : main[i] \in {"unborn", "gone"}
  /\ UNCHANGED vars

Next ==
  \/ \E i \in Invocation : Step(i)
  \/ \E i, j \in Invocation : StartNested(i, j)
  \/ Terminated

Spec == Init /\ [][Next]_vars

\* Processes of `c` do not stop by themselves, the kernel serves the waiters
\* of a flock, a test ends.  The program of `c run` may never end.
OwnWork(i) ==
  \/ Reenter(i) \/ ForkSegment(i) \/ NextSegment(i) \/ Return(i)
  \/ BuildOk(i) \/ WorkFails(i) \/ StartProgram(i) \/ TestsPass(i) \/ TestFails(i)
  \/ \E w \in Worker : ForkWorker(i, w) \/ WorkerOk(i, w) \/ WorkerFails(i, w)

FairSpec ==
  /\ Spec
  /\ \A i \in Invocation : WF_vars(OwnWork(i)) /\ SF_vars(Acquire(i))

-----------------------------------------------------------------------------
TypeOK ==
  /\ scene \in Scenes
  /\ \A i \in Invocation : at[i] \in 1 .. Len(Chain(i))
  /\ main \in [Invocation -> {"unborn", "lock", "fork", "wait", "gone"}]
  /\ segment \in [Invocation -> {"none", "work", "program", "watch", "exited"}]
  /\ builder \in [Invocation -> {"none", "work"}]
  /\ worker \in [Invocation -> [Worker -> {"none", "work", "built", "failed"}]]
  /\ rc \in [Invocation -> {0, 1}]
  /\ lock \in Invocation \cup {None}
  /\ fds \in [Invocation -> SUBSET Role]
  /\ keyed \in [Invocation -> SUBSET Role]
  /\ died \subseteq Invocation

\* A chain that keeps the lock to its last command: what it runs before does
\* not give it up, and nothing watches.
KeepsLock(i) ==
  \A k \in DOMAIN Chain(i) :
    /\ Chain(i)[k] \in {"run", "test"} /\ ReleaseForRun(i) => k = Len(Chain(i))
    /\ Chain(i)[k] # "watch"

\* A program or test starts one `c`, and then no process is killed and tests run
\* one at a time.
OneNested ==
  (\E i \in Invocation : Host(i) # None) =>
    /\ ~scene.kills /\ scene.tests = 1
    /\ \A i, j \in Invocation : Host(i) = Host(j) /\ Host(i) # None => i = j

Orderly == OneNested /\ \A i \in Invocation : KeepsLock(i)

\* A segment that will write into the project: with a failed worker all it can
\* do is fork, reap and die.
Writes(i) == segment[i] = "work" /\ Failed(i) = {}

\* Workers count as builds too, and orphans of a killed segment with them.
\* When a process of their command has died they may be without a lock.
Mutating(i) == Writes(i) \/ builder[i] = "work" \/ (i \notin died /\ AtWork(i) # {})

OneBuild == \A i, j \in Invocation : Mutating(i) /\ Mutating(j) => i = j

\* cache_io.h:40: two `c` processes never build the project at a time, so no
\* object, depfile, output or compile_commands.json has two writers, also while
\* workers fail, which unlocks the project under their segment.  So it is with
\* chains that keep the lock, however they are nested in each other's programs.
\* What goes on without the lock are the workers a failure leaves behind; they
\* write into the dependency cache alone.
BuildMutex == Orderly => OneBuild

Alive(i, r) ==
  \/ r = "main" /\ main[i] \in {"lock", "fork", "wait"}
  \/ r = "segment" /\ segment[i] \in {"work", "program", "watch"}
  \/ r = "builder" /\ builder[i] = "work"
  \/ r \in AtWork(i)

\* However processes of an invocation end, by _exit, die, return or a signal,
\* the project is never left locked with none of them alive to release it.
NoStaleLock == lock # None => \E r \in fds[lock] : Alive(lock, r)

\* cache_io.h:46: an invocation waiting for the lock gets it in the end, also
\* when the program another one runs never returns, unless one watches.
LockIsGranted ==
  \A i \in Invocation :
    main[i] = "lock" /\ (\A j \in Invocation : "watch" \notin {Chain(j)[k] : k \in DOMAIN Chain(j)})
      ~> main[i] # "lock"

-----------------------------------------------------------------------------
(* The inductive strengthening of these, proved in ProjectLockProofs.      *)

\* Copies of the descriptor are open in processes that are alive, and the file
\* description that is locked has one.  Workers are at work beside a segment
\* that waits for them or has failed.
HolderOf(i) ==
  /\ main[i] \in {"unborn", "lock"} => fds[i] = {}
  /\ main[i] \in {"unborn", "lock", "fork"} =>
        segment[i] \in {"none", "exited"} /\ builder[i] = "none" /\ AtWork(i) = {}
  /\ segment[i] = "work" \/ (segment[i] = "exited" /\ rc[i] = 1) \/ AtWork(i) = {}
  /\ \A r \in fds[i] : Alive(i, r)
  /\ lock = i => fds[i] # {}

HolderInv == \A i \in Invocation : HolderOf(i)

\* A command at work, its workers, or the program it runs without giving up
\* the lock.
InScope(i) ==
  \/ Writes(i)
  \/ i \notin died /\ (segment[i] = "work" \/ AtWork(i) # {})
  \/ segment[i] = "program" /\ "segment" \in keyed[i]

\* i runs under the key of its host.
Under(i) == Host(i) # None /\ segment[Host(i)] = "program" /\ "segment" \in keyed[Host(i)]

\* The chain of i goes on when its segment is reaped.
GoesOn(i) == main[i] = "wait" /\ segment[i] = "exited" /\ rc[i] = 0 /\ at[i] < Len(Chain(i))

ScopeOf(i) ==
  /\ segment[i] # "watch" /\ builder[i] = "none"
  /\ main[i] \in {"fork", "wait"} => "main" \in keyed[i]
  /\ segment[i] = "work" \/ (segment[i] = "program" /\ ~ReleaseForRun(i)) => "segment" \in keyed[i]
  /\ lock = i /\ main[i] \in {"fork", "wait"} => "main" \in fds[i]
  /\ lock = i /\ segment[i] \in {"work", "program"} => "segment" \in fds[i]
  /\ lock = i => AtWork(i) \subseteq fds[i]
  /\ main[i] = "lock" /\ "main" \in keyed[i] => Under(i)
  /\ main[i] = "fork" \/ InScope(i) \/ GoesOn(i) => lock = i \/ Under(i)

ScopeInv == Orderly => \A i \in Invocation : ScopeOf(i)

IInv == TypeOK /\ HolderInv /\ ScopeInv
=============================================================================
