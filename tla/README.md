# Verification of C-BuildSystem

TLA+ models of `c`, the C build tool in `src/`, with TLC runs that check them
on small instances and TLAPS proofs about all eleven components. The models are
translated from the Unix build of the source; line numbers below refer to it
(`cli.c` is `src/src/cli.c`, and so on).

## The system

`c` compiles a project described by `build.c`. The user's command is a chain
(`c clean build run`); `main` in `cli.c` forks a child for each command and
waits for it. `wrapper.c` is the executable the user calls; it hands native
projects to `c-native`, which is `cli.c` with `main.c` and `perf_v2.h` included
in it and `cache_io.h` and `cache_cleanup.h` forced in front.

| Component | State | Operations | Talks to | What makes it correct |
|---|---|---|---|---|
| Project lock (`cache_io.h:40-216`) | a flock per project directory, the descriptor copies of the processes that inherited it, `C_PROJECT_LOCK_KEY` in each environment | acquire in a constructor, re-enter by key, release in a destructor or before a run | every process `c` forks or spawns, nested `c` commands | one process tree writes into a project; waiting commands get the lock; a dead process does not keep it |
| Command chain (`cli.c:1427-1490`) | position in the chain, status of the last segment | fork a segment, copy its output, stop at a failure | project lock | segments run one after the other |
| Compile engine (`cli.c:569-693`) | task table, counters, compiler processes | spawn, reap, cancel, mark | compilers, object cache, markers | job limit; nothing marked before everything is compiled; no compiler left behind |
| Freshness and hashes (`cli.c:236-409`, `perf_v2.h:90-140`) | mtimes, depfile, marker, per-process stamp and hash caches, persistent hashes | test, hash, remember | object cache, compilers | an object taken for fresh is what a compiler would make now |
| Object cache (`cli.c:450-566`) | object, depfile and metadata per key, shared by all projects of a user | restore, store, drop | other builders | a restored object belongs to the reader's headers |
| Target graph (`cli.c:1135-1171`) | traversal state, outputs, link lists | visit, append closure, build | link step | dependencies first, cycles reported, link lines complete and usable |
| Target build and link (`cli.c:1039-1133`, `main.c:360-400`) | objects by option hash, output and its marker | compile, relink or keep, publish | graph, engine | outputs follow sources, options and libraries |
| Test runner (`cli.c:1193-1243`) | running tests | spawn, reap, fail | project lock | job limit, failure reported |
| Watch (`cli.c:1271-1295`) | fingerprint of the tree | poll, build in a child | project lock | a change is built in the end |
| Dependencies (`main.c:640-880`) | git mirrors, checkouts, packages in a user-wide cache, `c.lock` | clone, check out, build, pin, update | other projects of the user | published entries are whole; pins survive |
| Dependency builds (`cli.c:890-948`) | workers, their share of the jobs, a marked library per package | divide the jobs, fork, reap | compilers, packages | within `-j`; a success is complete |
| Cache cleanup (`cache_cleanup.h`) | the same cache | prune after an update or removal | dependencies | only unused entries go |
| Assets, nested builds (`cbuild_target_dep.h`) | manifests, a dependency's own build tree | build the target, publish the manifest | dependencies | no stale artifact is linked |
| Generators (`cli.c:968-1037`) | stamps of generated files | run if stale | target build, watch | generated sources follow their inputs |
| Wrapper (`wrapper.c`) | backend chosen, CMake build directory, `build.c` | dispatch, configure once, convert | other build systems | what is built is what was asked for; `build.c` is not overwritten |
| build.c API (`include/cbuild.h`) | fixed-size arrays, growing lists | declare | everything | limits are refused, not overrun |

The hard parts are the processes that share one lock by inheritance, compilers
that outlive what started them, files compared by time while they change, and
three directories (`build/`, the object cache, the dependency cache) that are
written by several processes with no lock or with the project lock only.

## Modules

| Module | Models | Main actions |
|---|---|---|
| `TaskPool` | `compiler_execute_tasks`, `compiler_cancel_tasks` | `Spawn`, `ReapOk`, `ReapBad`, `RecordFails`, `Mark`, `Kill`, `WaitCancelled`, `Invalidate`, `Crash`; the compilers' `Write`, `ExitOk`, `ExitBad` |
| `BatchPublish` | what a batch promises: all or nothing | `Build`, `Publish`, `Abort` |
| `TaskPoolProofs` | theorems about `TaskPool` | |
| `ProjectLock` | the lock and the processes that share it | `Acquire`, `Reenter`, `ForkSegment`, `Return`, `StartProgram`, `TestFails`, `ForkWorker`, `WorkerFails`, `ForkBuilder`, `BuilderFails`, `KillMain`, `KillWorker`, ... |
| `TargetGraph` | one traversal, its recursion as a stack of frames | `VisitGoal`, `VisitDep`, `Cycle`, `LinkPush`, `BuildTarget`, ... |
| `BuildOrder` | what `TargetGraph` guarantees and `TargetBuild` assumes of an order | |
| `TargetBuild` | a history of builds of a small graph with edits | `Edit`, `EditBuild`, `UseFresh`, `Restore`, `Invalidate`, `CompileOk`, `UseOutput`, `Publish`, `LinkFails`, `Crash`, ... |
| `ObjectBuild` | one object over builds, with headers, hashes and the cache | `DepfileFresh` as guard of `UseFresh`/`NotFresh`, `HashSource`, `RestoreObject`, `RestoreDepfile`, `Read`, `Write`, `Store`, `Mark`, `OrphanWrites`, ... |
| `ObjectCache` | the three files of one cache entry under concurrent builders | `Hit`, `CopyObj`, `CopyDep`, `DropObj`, `StoreObj`, ... |
| `Workers` | the worker pool of `compiler_resolve_all` and the loop of `compiler_cmd_test`, over several builds | `Start`, `Reap`, `ReapFailed`, `Finish`, `NextBuild`; a worker's `Check`, `StartCompiler`, `Cancelled`, `Archive`, `Mark`; `Kill` |
| `DepCache` | mirror, checkout and package of a dependency in the cache all projects share | `Look`, `Validate`, `Commit`, `Unmark`, `Tear`, `Remove`, `Make`, `Publish`, `Install`, `Mark`, `Use`, `Kill` |
| `LockUpdate` | `c.lock`, checkouts and asset manifests of one project through its commands | `StartCommand`, `Drop`, `Resolve`, `PublishAssets`, `Save`, `Compile`, `Retarget`, `PruneSource`, `DepsClean`, `CClean`, `Die`, `KillCommand`, `EditBuild`, `MoveUpstream` |
| `Watch` | the polling watcher, builds with a generator, and the user who edits | `Poll`, `BuildOver`, `Resolve`, `Check`, `Generate`, `Stamp`, `Compile`, `GeneratorFails`, `Edit`, `Spoil`, ... |
| `Wrapper` | choice of backend, configure-once, convert | `Dispatch`, `Configure`, `Generate`, `CMakeBuild`, `CTest`, `Make`, `Choose`, `OpenBridge`, `WriteBridge`, `Kill`, `KillWrapper`, `Edit` |

`ProjectLockProofs`, `TargetGraphProofs`, `TargetBuildProofs`, `ObjectBuildProofs`,
`WorkersProofs`, `DepCacheProofs` and `WrapperProofs` hold the theorems about the
module they are named after. `ProjectLockProofs` is also about `Watch`,
`WorkersProofs` about `ObjectCache` and `DepCacheProofs` about `LockUpdate`, whose
initial predicate, steps and specification therefore have names of their own
(`WatchSpec`, `CacheSpec`, `LockSpec`). The inductive invariant stands at the end
of the module, or in the proofs where it is long (`TargetBuild`, `Wrapper`).

`MC*` modules hold the instances. `Mut*` operators are faulty variants of the
definition that follows them, kept to show that each property depends on the
code it is about.

How they fit together: `TargetGraph` decides the order in which targets are
built, which `TargetBuild` takes as given in `project.order` (`BuildOrder` states
the interface, and `BuildsInOrder` proves that the traversal keeps it); a target's
compile batch is one step of `TargetBuild` (`CompileOk` or `CompileFails`), which
`TaskPool` details; an object's own history is `ObjectBuild`, and the entry it
stores and restores atomically is taken apart in `ObjectCache`. That builds of
one project exclude each other is the assumption of `TargetBuild`,
`ObjectBuild` and `LockUpdate`, and the subject of `ProjectLock`. `LockUpdate`
says which checkouts a project needs and when it prunes them, each in one step;
`DepCache` takes the making and the removal of one entry apart, between
projects. A worker of `Workers` compiles with the engine `TaskPool` details, and
the builds `Watch` starts are histories of `ObjectBuild` with a generator in front.

### Correspondence

A module that is checked in several situations picks one of them in `Init` and
keeps it: `scene` (`ProjectLock`, `DepCache`), `project` (`TargetGraph`,
`TargetBuild`), `mode` (`ObjectBuild`, `Workers`), `regime` (`ObjectCache`). The sets they are picked
from are constants, given in the `MC*` modules.

* **TaskPool.** `pc` is the loop the builder is in; `active`, `next`, `running`,
  `finished` are the variables of the function, `proc` is the kernel's process
  table and `obj`/`ready` are the files. `waitpid(-1)` is a choice among the
  exited children; `reaped` is the kernel's record of what it has returned, which
  the builder does not see. `RecordFails` is the `mkdir_p` under
  `compiler_history_record` or `compiler_object_cache_store` that dies without
  cancelling. Assumed: a compiler that exits 0 has written its whole object.
* **ProjectLock.** `fds[i]` says which processes of invocation `i` have a copy of
  the descriptor and `keyed[i]` which have the key in their environment.
  `Release` is `c_project_lock_release` (LOCK_UN acts for all copies, also those
  of other processes), `Close` is a process ending through `_exit` or a signal.
  `StartNested` is a program or test that calls `c` in the same project. A scene
  gives each invocation its chain, its source dependencies and, if it is nested, its
  host. With several dependencies a command forks a `Worker` for each
  (`compiler_resolve_all`), which inherits descriptor and key; one that fails leaves
  through `die`, whose destructor unlocks for all. `died` remembers that.
* **TargetGraph.** A frame is an activation of `compiler_build_target_graph`; the
  recursion of the link closure is a work list in the same preorder.
* **TargetBuild.** The clock has `project.ticks` ticks a second; objects are
  compared in ticks, outputs in seconds as `mtime_of` does. `project.order` is an
  order `TargetGraph` may build the targets in, `project.archives` the static
  libraries of each target's link closure.
* **ObjectBuild.** The clock is the number of edits; what a builder writes between
  two edits has the time of the first, and equal times count as not newer, as in
  `compiler_stamp_compare`. Hashes are the contents they were made from.
* **ObjectCache.** The headers of a checkout stand for their hashes and for the
  object compiled from them.
* **Workers.** `child` and `compilers` are the process table over all builds,
  `next`, `running`, `finished` the variables of the loop, `library` and `ready`
  the package directories, which outlive a build. One dependency, or one job, is
  built by the builder itself (`InProcess`), which the same actions model.
* **DepCache.** An entry is `none`, `torn` or `whole`; what `remove_tree` and
  `cmake --install` leave half done is `torn`. `stage` and `step` are where a
  process is in `ensure_git_mirror` and `resolve_dependency`. That checkouts are
  made in a private directory first shows as `Make` leaving `entry` alone.
* **LockUpdate.** `lock` is the file, `mem` the `LockFile` in memory, `before` the
  copy the cleanup takes in its constructor. A directory name is the record of
  what its hash is made of; its `part` is all files, the listed paths, or the one
  file that the command line of a build or run forwards (`forwarded`,
  `dependency_runtime_asset`). The lock is held, so one command runs at a time.
* **Watch.** A file gets a content it never had or any earlier one (`content`), and a
  new modification time each time it does (`time`). The times of what builds write are
  seen only through change; they count modulo `Times`, which is large enough that no
  two between two fingerprints are the same. `stale` is what the comparison of times says of
  the object; `mixed` remembers the contents that were hashed for a generator that
  then read another. The first fingerprint is taken by the first `BuildOver`.
* **Wrapper.** `dir[type]` is a CMake build directory: not there, with a
  `CMakeCache.txt` only, or generated. `broken` files make cmake or make fail. GNU
  make's own search order (`MakeReads`) and cmake's writing of its cache before its
  files (`Generate`) are external.

## Runs

Each module has one run that must pass:

| Run | Instances | Distinct states |
|---|---|---|
| `TaskPool` | four tasks, two jobs; spawns, compilers, markers, removals and records may fail, the builder may be killed anywhere | 8 970 |
| `ProjectLock` | three invocations: the chains of the help text with kills (`Documented`), a nested `c` (`Nesting`) and one nested in it (`Deep`), a watch beside builds and `c run build` with kills (`Watchers`), builds with two dependency workers each, in chains, killed, and nested (`Dependencies`) | 92 657 |
| `TargetGraph` | every dependency list, kind and goal list on three targets; every graph of one program and three libraries | 69 481 |
| `TargetBuild` | an application with two configurations and one with a library, with faults and kills; one with several builds to the second | 2 834 000 |
| `ObjectBuild` | kills without the cache; cache with edits between builds; edits and kills during builds; orphaned compilers as well | 1 120 000 |
| `ObjectCache` | three builders of two checkouts: in turns, or at once with kills | 112 436 |
| `Workers` | one or two dependencies or tests, up to three jobs on two processors, two builds of which the first may fail or be killed | 345 000 |
| `DepCache` | three processes: builds and cleaners in turns, killed anywhere; builds side by side on a full cache, on siblings of one mirror, and together with cleaners | 281 000 |
| `LockUpdate` | a dependency with two refs and with listed paths or its repository as assets, and one with single files; two commits; a `c.lock` of three entries, of which the cleanup reads two | 3 231 000 |
| `Watch` | three edits, which may put contents back, and two failures of the generator, without dependencies | 535 250 |
| `Wrapper` | three commands from two terminals, three configuration files, one edit, killed with cmake or without it | 948 000 |

and one ends in a counterexample against what the help text says (quoted in
`PROJECT.json`, `findings`): `Watch_lockfile`, the module `Watch` with a
dependency. Every build writes a new `c.lock` into the tree it is started for, so
after the first edit the watcher builds for ever.

### What the properties say, and of which situations

**TaskPool.** `JobLimit`, `ReadyIsFinal` (nothing is marked ready before all
compilers ended well), `NoOrphans` (a batch that ended by itself left no compiler
behind), `SignalsOwnChildren` (SIGTERM is never sent to a pid that `waitpid` has
returned: the builder goes by `active`, the kernel by `reaped`),
`ImplementsBatch` (all or nothing), `FailFast` (after a failure the batch ends
even if healthy compilers hang).

**ProjectLock.** `BuildMutex`: two invocations never work on the project at once
if they are `Orderly`: every chain `KeepsLock` (what gives the lock up, a `run` or
a `test` in a chain with a `run`, comes last, and nobody watches), and where a
program starts `c` again it starts one (`OneNested`), tests run one at a time and
nobody is killed. Dependency workers count as work on the project, unless a
process of their invocation has called `die` (`died`). A worker that fails unlocks
the project under its segment; until that has reaped it and died, all the segment
can do is fork further workers and wait, so it writes nothing any more (`Writes`),
and another command may start. What is outside is under Known limits.
`NoStaleLock` holds of every scene, whatever is killed; `LockIsGranted` excludes
watchers, which keep the lock for good.

**TargetGraph.** `DependenciesFirst` (with it a library's output is there when it
is pushed), `CyclesFound` (a reported cycle is one, no target on a cycle is built,
none is in progress twice, so the recursion ends), `ClosureComplete` (every
library once), for every project.

**TargetBuild.** `OwnCurrent`: after a success an output holds the target's own
objects, and the libraries older than it, as they are. `NothingToDo` is the
converse: a repeated build does no work. Both are proved for every project.
`OwnCurrent` takes `TimesTell` to hold: links do not fail and builds are not killed,
or the clock has one tick a second. Without it a link that fails in the second in
which the output was made leaves an output that looks up to date (Known limits),
which is why the instance with several builds to the second has no faults.

**ObjectBuild.** `Current` (the object is what a compiler would make now) and
`Honest` (a cache entry is what its metadata says) hold if the builder is
`Undisturbed`: nothing is edited while it runs, no compiler survives it, and it
is not killed while it uses the cache. `BuildIsCurrent` and `CacheIsHonest` claim
them there. `HashIsHonest` holds in every mode.

**ObjectCache.** `Complete` holds with builders and kills interleaved in any way;
`ObjectIsOwn` where builds take turns and none is killed.

**Workers.** `JobsShared`: the compilers of all workers of a build are within `-j`,
however the jobs are divided. `SuccessIsComplete`: a build that comes to its end
has every library marked and every worker reaped, also next to workers an earlier
build left. `LoopEnds`: it never waits for processes that are not there.

**DepCache.** `MarkedIsWhole`: a mark vouches for a whole entry, unless someone is
just removing it; of packages, which are built in place, only where nobody else
works on them (`Undisturbed`: one process at a time, a full cache, or builds that
share no more than the mirror). `UsesWhole` and `Recovers` (no build dies of what
a killed one left) are claimed there too, `Recovers` not of siblings on a cold
cache, which contend for the mirror. All three take the kills to be `Careful`:
builds may be killed anywhere where they do not disturb each other, cleaners
where no mark lies inside what they remove.

**LockUpdate.** `PinsKept`: a pin goes or changes only in an update that asked for
it, and there are never two for one declaration. `SoundStaysLive`: a manifest in
step with `c.lock` leads to an existing full checkout throughout every command,
failed and killed ones included, if no other name is the beginning of its name
(`Unprefixed`). `ReadyAfterSuccess`: after a success everything `build.c` declares is
pinned and has the checkout it needs (`SourceDir`): all files, the paths it lists, or,
after `c build -- file` or `c run -- file`, that one file. A cleanup spares it if it
knows of it (`Spared`: `c.lock` fits the array of the cleanup, the name is
`Unprefixed`, and the checkout is not one of listed paths).

**Watch.** `GeneratedIsCurrent`: a stamp that says fresh is right, however input
and output were edited and put back, also between the hash of the input and the
generator's reading it. One case is excepted, in which the code is wrong
(`Unmixed`): the input is, again, what was hashed before a generator read
something else. `Settles` and `UpToDate`: when the user has stopped, the watcher
goes to sleep, and the object is made from what is there unless the last build
failed or the input is mixed. `Windows` leaves out edits during the first build
and while a compiler runs; `Spoil` leaves the output alone just after it was made,
before it is hashed.

**Wrapper.** `BuiltAsAsked`: a build or test that succeeds has built the
configuration file found at its start, in the type asked for, if the choice is
`Unambiguous`: one CMake project, one makefile make finds by itself, one compiler.
`WritesOwnFile`: the file a convert without `--force` writes its bridge into is
one it has created, still empty, with no other convert about to write there,
unless a forced one has opened it since (`raced`). `ConvertPreserves`: a convert
without a file writes what would have been built.

The type invariants of `TargetGraph`, `TargetBuild`, `ObjectCache`, `LockUpdate` and
`Wrapper` are proved and not checked by a run; the runs check those of the other
modules.

### Known limits

What follows is what the code does outside the situations above. Each was met as
a counterexample of TLC, or as a case the properties had to except.

*Lock.* In `c run build` the first segment's child releases the lock its parent
shares, and the build runs without it; so does the build of the `run` in `c test
run`, whose test gave the lock up already. A failing build of `c watch` also
unlocks, since the builder leaves through `exit` and runs the destructor. Tests in
parallel that each call `c build` build at the same time under their host's key,
and a failing test unlocks while another's `c build` still works. So do the
dependency workers of a command that fails or is killed (`cli.c:925`,
`cache_io.h:198`): the first that fails unlocks, the others go on without the
lock, and the segment with them until it reaps the failed one; they write into the
dependency cache, which no project lock covers anyway. Workers of the builds of a
watch are not modelled. A test that calls `c run` whose program calls `c build`:
the innermost command waits for its own ancestor.

*Targets.* An application that links two libraries which both link a static third
has the third before one of its users on the link line (`cli.c:1151`). It is not
linked again when only a library was rebuilt (`cli.c:1109`). Going back to an
earlier `build.c` keeps the later output (`cli.c:1107`). A link that fails within
the second of the previous output is taken for up to date.

*Objects.* An edit between a compiler's read and its write is older than the
object, so it is never built, and it enters the object cache under the hash of the
new header (`cli.c:559`). An orphaned compiler replaces a marked object. A kill
between restoring object and depfile, or between the files of a cache entry,
leaves files that do not belong together; so do two checkouts storing one key at
once (`cli.c:564`).

*Workers.* Workers of a failed or killed build go on and may write into the
package of the next build's worker, which can archive and mark a torn library.
They also keep the pipe open from which the parent `c` reads (`cli.c:1443`), so it
waits for them.

*Dependency cache.* With an empty cache, two builders of the same package find it
missing and build into one directory; the loser of a rename dies if the winner has
not marked its entry yet, and a builder may remove what was published and not yet
marked. Pruning removes entries other projects use. Checkouts from one mirror
contend for git's index lock and may fail; the index lock a killed git leaves
behind is never removed and not modelled. A prune or clean killed while it removes
a package leaves its stamp inside.

*c.lock and cleanup.* Changing a ref back and forth leaves two entries of one
name, of which the cleanup retargets by the first. Path-limited checkouts
(`c_dep_asset_only`) are pruned although `c.lock` names their commit
(`cache_cleanup.h:190` against `main.c:785`). A name `a` also prunes the checkouts
of `a-b` (`Overlap`). `c update -j 4` does no cleanup. Neither does an update
killed between saving and cleaning, nor the next one, for which nothing has
changed. The cleanup reads 128 entries of `c.lock`, the rest of the program 256
(`cache_cleanup.h:28`, `cbuild.h:32`): beyond 128, `c update lib` moves lib to the
end, where the cleanup does not see it, and prunes what it has just resolved. The
manifest of a whole repository cannot be retargeted, which ends the cleanup
(`cache_cleanup.h:324`).

*Watch.* An edit during the first build, or while a compiler runs, is not built
until the next edit. With a dependency the watcher never rests
(`Watch_lockfile`), nor does it with a generator that touches its output and fails.
An input that changes between its hash (`cli.c:984`) and the generator's reading it,
and is put back at any time later, is taken for fresh with an output made from the
other content, and so is its object. An output changed between the end of its
generator and its hash (`cli.c:1028`) is vouched for as well.

*Wrapper.* A failed or killed first configure leaves `CMakeCache.txt`: CMake is
not configured again and every later build fails; so does the second of two first
builds at once. A `convert` without `--force` that has created `build.c` and not
yet written it writes over what a forced one has written in between
(`wrapper.c:553-562`). Once configured, another `--cc`, another source file or one
`C_CMAKE_BUILD_DIR` for both types is ignored (`Overridden`). `c convert Makefile`
beside a `GNUmakefile` builds the latter. A convert killed between opening and
writing leaves an empty native `build.c`.

### Bounds

* `Count` 4, `Jobs` 2: tasks waiting, running, reaped and failed exist together;
  the proofs lift the bound.
* Three invocations: a holder, a waiter and either a second waiter or a nested
  command, or three nested in each other (`Deep`). Chains have up to three
  segments, so a chain has a first, an inner and a last one.
* Three targets with every ordered dependency list, four with ascending lists:
  four are needed for a diamond.
* `MaxClock` 3, `mode.edits` 2 to 5: a build, a change, a second change that
  reverts the first, and a build after each; fewer where kills and orphans
  multiply the states. Two contents of a source, of which the second includes the
  header, so that dependencies themselves change.
* Three builders on a cache entry, two versions of a header.
* `Workers`: two items, two objects each, three jobs: more jobs than items, and
  fewer; two builds, so that one meets the workers of the other.
* `DepCache`: three processes: two that meet, and one after them; three keys, so
  that siblings share the mirror only.
* `LockUpdate`: two commits, one move of upstream, a `LockFile` of three entries so
  that it fills up (`C_MAX_DEPS`) and is longer than the cleanup's array of two; any
  number of commands.
* `Watch`: three edits, two failures (`MaxFailures`: a generator that fails for
  ever builds for ever); an edit, another, and one back. `Wrapper`: three commands, one edit:
  configure, change, build again.

### Fairness

* `TaskPool`: the builder takes its steps (`WF_vars(Builder)`; it only waits in
  `waitpid`), and a compiler that was sent SIGTERM exits. That others exit is not
  assumed: `FailFast` does without.
* `ProjectLock`: processes of `c` proceed, tests end, and the kernel does not
  starve a waiter of a flock (strong fairness of `Acquire`). The program of
  `c run` need not end. Killing and watching are never forced.
* `Workers`: the loop takes its steps, and compilers and tests end (the code has
  no timeouts, so a test that hangs hangs the loop).
* `Watch`: builds take their steps and end, and the watcher is scheduled. Editing
  and failing are not forced, only bounded: `Settles` is about what follows the
  last of them.

Deadlock is not checked where a system really stops: in `TargetGraph`, whose
traversal ends; in `DepCache`, `Workers` and `Wrapper`, whose processes end; in
`Watch`, which sleeps when nothing is edited. `ProjectLock` names the state in
which everybody is gone (`Terminated`).

## Proofs

Each safety property that a run checks is a theorem. Each is proved for every value
of the constants, so for any number of processes, targets, builds, edits, pins or
keys, from the assumptions named in the module:

| Module | Assumed of the constants |
|---|---|
| `TaskPool` | `Count` in `Nat \ {0}` (a batch of zero returns at once), `Jobs` an integer |
| `ProjectLock` | finitely many invocations; chains are not empty, none is its own host; workers are not called like the other processes |
| `TargetGraph` | finitely many targets; no target links itself or another one twice (`c_link_target` refuses it) |
| `TargetBuild` | a project has a target; its order names each one once, after the static libraries it is linked with (`IsBuildOrder`, what `BuildsInOrder` shows of `TargetGraph`); a second has a tick; `None` is no object and no output |
| `ObjectBuild` | the source is no header; sources include headers only; `None` is no object and no depfile |
| `ObjectCache` | every builder has its headers; `None` is no version of them |
| `DepCache` | a scene gives every process its kind and its key |
| `LockUpdate` | the bounds are natural numbers, of commits at least one; every name overlaps itself; `None` is no name and no entry of `c.lock`. Nothing relates the two sizes of `c.lock` |
| `Workers` | the bounds are positive numbers |
| `Watch` | the bounds are natural numbers |
| `Wrapper` | there are commands, of the fields they have; the empty string names no file |

No safety property here is inductive alone; each module has an invariant that is
(`IInv`, or `WatchInv`, `CacheInv`, `LockInv`, `BuildInv`, `WrapperInv`), checked by
TLC before it was proved. One lemma per part of it, or per action where the parts
hang together, shows that a step keeps it.

**TaskPool.** `TypeCorrect`, `JobLimitHolds`, `CountersAgreeHolds`,
`ReadyIsFinalHolds`, `NoOrphansHolds`, the action property
`SignalsOwnChildrenHolds`, and `RefinesBatch`: every behaviour of the engine is one
of `BatchPublish`. `IInv` adds to the types `StartInv` (tasks start in order, a
running compiler is unreaped, and `active` is what the kernel takes for children:
what `SignalsOwnChildren` needs), `CountInv` (the counters are the cardinality of the
active tasks: what `JobLimit` needs, and what shows that leaving the loop means
everything was reaped), `BuiltInv` (a reaped task in the loop succeeded, a cancelled
batch has one that did not: what separates commit from abort) and `CursorInv`
(where the marking, waiting and invalidating loops are: what `NoOrphans` needs).
The refinement maps `decision` to whether all tasks are built or the batch was
given up, `built` to the tasks reaped with status 0, `ready` to itself.

**ProjectLock.** `NoStaleLockHolds` from `HolderInv`: descriptors are open in
processes that are alive, and the locked description has one. `BuildMutexHolds`
from `ScopeInv`: an invocation that works, none of whose workers has failed, or
whose chain goes on, has the lock with its descriptor still open, workers theirs,
or its host is running a program under a key (`Under`). The rest is counting
(`OneAtWork`): all in scope but the owner of the lock have hosts in scope whose
program is running, and no two the same, so at most one in scope is not such a
host. That is why the theorem covers nesting of any depth.

**TargetGraph.** `TypeCorrect` (with the bound of the recursion),
`DependenciesFirstHolds`, `CyclesFoundHolds`, `ClosureCompleteHolds`. `PathInv`: the
active calls are distinct targets and a path in the graph, so a dependency in
progress is reached from itself, and the stack is no longer than there are targets.
`PassedInv` and `BuiltInv`: what a caller has passed in its loop is built, so a
target whose loop is over has all its dependencies built; as what is built is closed
under the links and does not hold the target, it cannot reach itself. `LinkInv`:
what is linked and what is still to be looked at is closed under the links, so when
nothing is left it is all that the target reaches (`Reachable`, the least closed
set, which needs no recursion). `BuildsInOrder` composes the module with `TargetBuild`:
what was built before a target is closed under the links, so it holds everything the
target reaches, and the order of the targets and the static libraries of their link
lines are as `ProjectsAssumption` of `TargetBuild` asks.

**TargetBuild.** `TypeCorrect`, `OwnCurrentHolds`, and the action property
`NothingToDoHolds`. `ObjectInv`: a marked object that is not older than its source is
what the source compiles to. `OutputInv`: an output with other contents than the
source is older than it, and has the libraries that are older than itself as they are.
As the link step compares whole seconds, that alone does not force a link;
`RebuiltInv` adds that, if nothing cuts a build short, the target of such an output
has no fresh object, or is the one at work and its link is still to come. `TimesTell`
says that one of the two will do. `PlaceInv` and `DoneInv` follow the build along
`project.order`: the targets before `at` are done and nothing later in the order
takes that back, which is where the order is used.

**ObjectBuild.** `BuildIsCurrentHolds`, `CacheIsHonestHolds`, `HashIsHonestHolds`.
The key is `ObjectInv`: a file of the depfile that is not newer than the object is
as it was when the object was made, also while the builder is between compiling and
marking, and the depfile lists what was read. `StampInv` says that what a builder
remembers of stamps and hashes is still true if nobody edits behind its back.

**ObjectCache.** `CompleteHolds` for any interleaving and any kills, from what each
builder has copied; `ObjectIsOwnHolds` for builders in turns, from `EntryAt`: what
of the entry is there at each step of the one at work.

**DepCache.** `MarkedIsWholeHolds`, `UsesWholeHolds`, `RecoversHolds`. `TornInv`: an
entry that is torn and marked, or about to be, has its remover at work. `OwnInv`: a
running build finds its entries as it left them, mirror before checkout before
package. `WarmInv`: builds that find everything there change nothing. `PathInv`
fixes which steps belong to builds and which to cleaners.

**LockUpdate.** `SoundStaysLiveHolds`, `ReadyAfterSuccessHolds`, the action
property `PinsKeptHolds` and `LockTypeCorrect`. `PinsInv`: while dependencies are
resolved, the list in memory has all that `c.lock` has, with no pin twice.
`ReadyInv`: what is not left to do is pinned in that list and checked out, so it
is in `c.lock` once that is saved, and `forwarded` stays what it was when the
checkout was made; a checkout that is pruned is not one, because all of `c.lock`
is in the cleanup's array and what is `Spared` is full. `SoundInv` follows a
manifest that was in step: it leads to the old checkout until it is its turn, to
the new one while the old ones are pruned (`Rooted`). It needs nothing of the
sizes: an entry that the cleanup does not see, it does not retarget or prune for.
What searches find in a list is the entry at the least place. That there is a
least one is a lemma (`Least`, from the library's theorem that `<` is
well-founded), and the same lemma stands for induction over the loop of
`cmd_update`: `KeptFound` takes the least round after which the loop has not kept
what it should.

**Workers.** `JobsSharedHolds`: `LoopInv` ties the loop's counters to the process
table (at most `Limit` workers that have not been reaped), `CompilersInv` bounds
each worker's compilers by `JobsPerDep`, and the product is within `-j`.
`SuccessIsCompleteHolds`: `MadeInv`, a worker that exits 0 has left its library
marked and nobody takes that back.

**Watch.** `GeneratedIsCurrentHolds` from `StampInv`: a stamp names an output made from
the input it names, unless that input is `mixed`; between the generator and its stamp
that is true of what was read. Nothing is assumed of the order of contents.

**Wrapper.** `TypeCorrect`, `BuiltAsAskedHolds`, `WritesOwnFileHolds` and the action
property `ConvertPreservesHolds`. `PlaceInv`: which commands and
backends a place is of, and a directory whose files are being generated is there.
`DirInv`: under `Unambiguous`, a configured directory names the one CMake project, the
type it is the directory of and the one compiler, so a directory an earlier, killed or
concurrent command configured is as good as its own. `RanInv` carries that to the end
of the command. `ConvertInv`: while a convert is between choosing and writing, what it
has chosen is still what the directory would be built with, since nobody edits then.
`BridgeInv`: an unforced convert that is about to write, and whose `build.c` no forced
one has opened, found none when it opened, so it is the only one about to write.

Only model-checked:

* liveness: `FailFast`, `LockIsGranted`, `LoopEnds`, `Settles`, `UpToDate`. Fairness
  and ENABLED are outside of the prover.
* that builds of one project exclude each other, which `ObjectBuild`, `TargetBuild`
  and `LockUpdate` take for granted, and that a checkout or a compile batch is what
  those modules make one step of: `ProjectLock`, `DepCache` and `TaskPool` prove it of
  themselves, and the modules are put together in prose (How they fit together). Only
  `TargetGraph` and `TargetBuild` are composed by a theorem.

## Not modelled

Depfile parsing, the slots of the stamp cache (`cli.c:283`), glob expansion, the split of the command line, wording and
layout of output, and the text of generated files. The hash functions are taken to
be injective. Power loss is not modelled: a rename is durable when it returns.
Replacing a file by one with an older time is not an edit any test here sees
(`cli.c:398` compares times only). The grouping of sources into unity files, the
growth of lists in `cbuild.h`, the signature of dependency artifacts
(`cbuild_target_dep.h`) and the CMake arguments in a package's key are pure
functions of their input, kept out as data. The nested build of a dependency's
own target is a `c` with a lock of its own in another directory. The Windows port,
installers, CI, fuzzers, benchmarks and examples stay out.

## What could follow

* `TaskPool` below the compile step of `TargetBuild`, composed by a theorem as
  `TargetGraph` is above it.
* `Watch` on top of `ObjectBuild`, instead of the `stale` flag that stands for it.
* The unity files and the lists of `cbuild.h`, as pure functions, if they change.
