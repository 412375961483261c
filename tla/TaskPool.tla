------------------------------ MODULE TaskPool ------------------------------
(***************************************************************************)
(* The parallel compile engine of src/cli.c: compiler_execute_tasks starts *)
(* up to Limit compilers, reaps them with waitpid(-1), and on the first    *)
(* failure hands over to compiler_cancel_tasks.  Ready markers, which make *)
(* an object trustworthy for every later build, are written only after the *)
(* last compiler succeeded.                                                *)
(*                                                                         *)
(* Tasks are numbered in the order the estimate sort leaves them in.  The  *)
(* tasks come from compiler_prepare_task with result BUILD, hence with     *)
(* marker, object and depfile removed.  A compiler writes its object in    *)
(* place while it runs; that an exit status of 0 means a whole object is   *)
(* the one thing assumed of it.                                            *)
(***************************************************************************)
EXTENDS Integers, FiniteSets

CONSTANTS
  Count,            \* number of tasks to compile
  Jobs              \* compiler_perf.jobs after compiler_adaptive_jobs

ASSUME CountAssumption == Count \in Nat \ {0}   \* a batch of 0 returns at once
ASSUME JobsAssumption == Jobs \in Int

Task == 1 .. Count

\* The clamping of `limit`: at least one job, at most one per task.
Limit == IF Jobs < 1 THEN 1 ELSE IF Jobs > Count THEN Count ELSE Jobs

VARIABLES
  pc,               \* where the builder is, see BuilderState
  next,             \* tasks started so far
  running, finished,
  cursor,           \* progress of the loop the builder is in, when it is in one
  active,           \* tasks[i].active: spawned and not yet reaped
  proc,             \* the compiler process: not started, running, or exited
  reaped,           \* the kernel's view: waitpid has returned the pid, which
                    \* may belong to some other process from then on
  signaled,         \* compilers sent SIGTERM
  obj,              \* the object file of each task
  ready,            \* tasks whose object has its .c-ready marker
  stored            \* tasks whose object was copied to the object cache

builderVars == <<pc, next, running, finished, cursor, active>>
vars == <<pc, next, running, finished, cursor, active, proc, reaped, signaled,
          obj, ready, stored>>

\* "dead" ended by itself after cancelling or marking failed, "lost" by a die
\* that left the compilers alone, "crashed" by a signal.
Ended == {"done", "dead", "lost", "crashed"}
BuilderState == {"loop", "mark", "kill", "wait", "invalidate"} \cup Ended

Started == 1 .. next
Live == {i \in Task : proc[i] = "running"}
Active == {i \in Task : active[i]}
Exited(i) == proc[i] \in {"ok", "bad"}

\* The pids that are the builder's: kill and waitpid reach its own compiler.
Children == {i \in Task : proc[i] # "idle" /\ i \notin reaped}

-----------------------------------------------------------------------------
Init ==
  /\ pc = "loop"
  /\ next = 0 /\ running = 0 /\ finished = 0 /\ cursor = 0
  /\ active = [i \in Task |-> FALSE]
  /\ proc = [i \in Task |-> "idle"]
  /\ reaped = {}
  /\ signaled = {}
  /\ obj = [i \in Task |-> "absent"]
  /\ ready = {}
  /\ stored = {}

\* The inner loop keeps Limit compilers running while tasks remain.
MutMayStart == next < Count /\ running <= Limit
MayStart == next < Count /\ running < Limit

Spawn ==
  /\ pc = "loop" /\ finished < Count /\ MayStart
  /\ proc' = [proc EXCEPT ![next + 1] = "running"]
  /\ active' = [active EXCEPT ![next + 1] = TRUE]
  /\ next' = next + 1
  /\ running' = running + 1
  /\ UNCHANGED <<pc, finished, cursor, reaped, signaled, obj, ready, stored>>

\* posix_spawnp fails: the task stays inactive and the batch is cancelled.
SpawnFails ==
  /\ pc = "loop" /\ finished < Count /\ MayStart
  /\ pc' = "kill"
  /\ UNCHANGED <<next, running, finished, cursor, active, proc, reaped,
                 signaled, obj, ready, stored>>

\* The outer loop ends when every task has been collected.
MutAfterReap(done) == IF next = Count THEN "mark" ELSE "loop"
AfterReap(done) == IF done = Count THEN "mark" ELSE "loop"

\* waitpid(-1) returns any exited child, in whatever order they exit.
MutReapOkMarks(i) ==
  /\ pc = "loop" /\ finished < Count /\ ~MayStart
  /\ active[i] /\ proc[i] = "ok"
  /\ active' = [active EXCEPT ![i] = FALSE]
  /\ reaped' = reaped \cup {i}
  /\ running' = running - 1
  /\ finished' = finished + 1
  /\ ready' = ready \cup {i}
  /\ pc' = AfterReap(finished')
  /\ UNCHANGED <<next, cursor, proc, signaled, obj, stored>>

ReapOk(i) ==
  /\ pc = "loop" /\ finished < Count /\ ~MayStart
  /\ active[i] /\ proc[i] = "ok"
  /\ active' = [active EXCEPT ![i] = FALSE]
  /\ reaped' = reaped \cup {i}
  /\ running' = running - 1
  /\ finished' = finished + 1
  /\ stored' \in {stored, stored \cup {i}}
  /\ pc' = AfterReap(finished')
  /\ UNCHANGED <<next, cursor, proc, signaled, obj, ready>>

\* Recording the compile time or storing the object creates directories, and
\* mkdir_p dies when it cannot: exit without compiler_cancel_tasks.
RecordFails(i) ==
  /\ pc = "loop" /\ finished < Count /\ ~MayStart
  /\ active[i] /\ proc[i] = "ok"
  /\ active' = [active EXCEPT ![i] = FALSE]
  /\ reaped' = reaped \cup {i}
  /\ running' = running - 1
  /\ finished' = finished + 1
  /\ pc' = "lost"
  /\ UNCHANGED <<next, cursor, proc, signaled, obj, ready, stored>>

MutReapBadKeepsActive(i) ==
  /\ pc = "loop" /\ finished < Count /\ ~MayStart
  /\ active[i] /\ proc[i] = "bad"
  /\ reaped' = reaped \cup {i}
  /\ running' = running - 1
  /\ finished' = finished + 1
  /\ pc' = "kill"
  /\ UNCHANGED <<next, cursor, active, proc, signaled, obj, ready, stored>>

ReapBad(i) ==
  /\ pc = "loop" /\ finished < Count /\ ~MayStart
  /\ active[i] /\ proc[i] = "bad"
  /\ active' = [active EXCEPT ![i] = FALSE]
  /\ reaped' = reaped \cup {i}
  /\ running' = running - 1
  /\ finished' = finished + 1
  /\ pc' = "kill"
  /\ UNCHANGED <<next, cursor, proc, signaled, obj, ready, stored>>

MutMark ==
  /\ pc = "mark"
  /\ ready' = ready \cup {cursor}
  /\ cursor' = cursor + 1
  /\ pc' = IF cursor = Count THEN "done" ELSE "mark"
  /\ UNCHANGED <<next, running, finished, active, proc, reaped, signaled, obj,
                 stored>>

\* The final loop of write_ready_marker calls, one atomic rename each.
Mark ==
  /\ pc = "mark"
  /\ ready' = ready \cup {cursor + 1}
  /\ cursor' = cursor + 1
  /\ pc' = IF cursor' = Count THEN "done" ELSE "mark"
  /\ UNCHANGED <<next, running, finished, active, proc, reaped, signaled, obj,
                 stored>>

\* write_text_file_atomic dies, leaving the remaining objects unmarked.
MarkFails ==
  /\ pc = "mark"
  /\ pc' = "dead"
  /\ UNCHANGED <<next, running, finished, cursor, active, proc, reaped,
                 signaled, obj, ready, stored>>

-----------------------------------------------------------------------------
(* compiler_cancel_tasks: signal, then reap, then remove what was built.   *)

MutSignalNone == {}
ToSignal == Active

Kill ==
  /\ pc = "kill"
  /\ signaled' = ToSignal
  /\ cursor' = 0
  /\ pc' = "wait"
  /\ UNCHANGED <<next, running, finished, active, proc, reaped, obj, ready,
                 stored>>

\* waitpid on one pid blocks until it has exited; a task never started, or
\* reaped before, is passed over.
MutMayPass(i) == TRUE
MayPass(i) == active[i] => Exited(i)

WaitCancelled ==
  /\ pc = "wait"
  /\ MayPass(cursor + 1)
  /\ active' = [active EXCEPT ![cursor + 1] = FALSE]
  /\ reaped' = IF active[cursor + 1] THEN reaped \cup {cursor + 1} ELSE reaped
  /\ cursor' = IF cursor + 1 = Count THEN 0 ELSE cursor + 1
  /\ pc' = IF cursor + 1 = Count THEN "invalidate" ELSE "wait"
  /\ UNCHANGED <<next, running, finished, proc, signaled, obj, ready, stored>>

Invalidate ==
  /\ pc = "invalidate"
  /\ ready' = ready \ {cursor + 1}
  /\ obj' = [obj EXCEPT ![cursor + 1] = "absent"]
  /\ cursor' = cursor + 1
  /\ pc' = IF cursor' = Count THEN "dead" ELSE "invalidate"
  /\ UNCHANGED <<next, running, finished, active, proc, reaped, signaled, stored>>

\* unlink fails: the builder dies before the rest is invalidated.
InvalidateFails ==
  /\ pc = "invalidate"
  /\ ready' \in {ready, ready \ {cursor + 1}}
  /\ pc' = "dead"
  /\ UNCHANGED <<next, running, finished, cursor, active, proc, reaped,
                 signaled, obj, stored>>

\* The builder alone is killed: its compilers keep running.
Crash ==
  /\ pc \notin Ended
  /\ pc' = "crashed"
  /\ UNCHANGED <<next, running, finished, cursor, active, proc, reaped,
                 signaled, obj, ready, stored>>

-----------------------------------------------------------------------------
(* The compilers, outside src/.                                            *)

Write(i) ==
  /\ proc[i] = "running" /\ obj[i] = "absent"
  /\ obj' = [obj EXCEPT ![i] = "partial"]
  /\ UNCHANGED <<builderVars, proc, reaped, signaled, ready, stored>>

ExitOk(i) ==
  /\ proc[i] = "running"
  /\ proc' = [proc EXCEPT ![i] = "ok"]
  /\ obj' = [obj EXCEPT ![i] = "whole"]
  /\ UNCHANGED <<builderVars, reaped, signaled, ready, stored>>

\* An error, a crash of the compiler, or the SIGTERM of the cancellation.
ExitBad(i) ==
  /\ proc[i] = "running"
  /\ proc' = [proc EXCEPT ![i] = "bad"]
  /\ UNCHANGED <<builderVars, reaped, signaled, obj, ready, stored>>

-----------------------------------------------------------------------------
Builder ==
  \/ Spawn \/ SpawnFails
  \/ \E i \in Task : ReapOk(i) \/ RecordFails(i) \/ ReapBad(i)
  \/ Mark \/ MarkFails
  \/ Kill \/ WaitCancelled \/ Invalidate \/ InvalidateFails

Compiler(i) == Write(i) \/ ExitOk(i) \/ ExitBad(i)

Terminated == pc \in Ended /\ UNCHANGED vars

Next ==
  \/ Builder
  \/ Crash
  \/ \E i \in Task : Compiler(i)
  \/ Terminated

Spec == Init /\ [][Next]_vars

\* The builder never stops by itself and a compiler that got SIGTERM exits;
\* a compiler nobody signals may hang for ever.
FairSpec ==
  /\ Spec
  /\ WF_vars(Builder)
  /\ \A i \in Task : WF_vars(i \in signaled /\ ExitBad(i))

-----------------------------------------------------------------------------
TypeOK ==
  /\ pc \in BuilderState
  /\ next \in 0 .. Count /\ running \in 0 .. Count /\ finished \in 0 .. Count
  /\ cursor \in 0 .. Count
  /\ active \in [Task -> BOOLEAN]
  /\ proc \in [Task -> {"idle", "running", "ok", "bad"}]
  /\ reaped \subseteq Task
  /\ signaled \subseteq Task
  /\ obj \in [Task -> {"absent", "partial", "whole"}]
  /\ ready \subseteq Task
  /\ stored \subseteq Task

\* The counters of compiler_execute_tasks follow the real processes, so the
\* job limit (-j, C_JOBS) bounds the compilers alive at any moment, those
\* running while a batch is cancelled included.
JobLimit == Cardinality(Live) <= Limit

\* A marker vouches for an object nobody writes any more: it is whole, and its
\* compiler has been reaped (cli.c:691, the markers come after the loop).
ReadyIsFinal ==
  \A i \in ready : obj[i] = "whole" /\ proc[i] = "ok" /\ ~active[i]

\* A builder that succeeds, or that cancels its batch after a compiler or a
\* spawn failed, leaves no compiler behind that could still write into the
\* tree (cli.c:634-638); one that is killed or dies while recording may.
NoOrphans ==
  pc \in {"done", "dead"} =>
    \A i \in Task : proc[i] # "running" /\ ~active[i]

\* kill(pid, SIGTERM) hits the builder's own compilers only: never the pid of
\* a task that was not started, nor one waitpid has already returned, which the
\* kernel may have given to another process.  The builder knows its children by
\* tasks[i].active alone, set and cleared in three places (cli.c:633-683).
SignalsOwnChildren ==
  [][signaled' \ signaled \subseteq Children]_vars

\* While the builder collects compilers no exited one is lost: each started
\* task is counted as running or as finished.
CountersAgree ==
  pc = "loop" => /\ finished + running = next
                 /\ running = Cardinality(Active)

\* One failing compiler ends the batch even when another compiler hangs,
\* because the hanging one is sent SIGTERM before it is waited for.
FailFast ==
  (pc = "loop" /\ \E i \in Task : proc[i] = "bad")
    ~> pc \in {"dead", "lost", "crashed"}

-----------------------------------------------------------------------------
(* The inductive strengthening of the invariants, proved in TaskPoolProofs. *)

\* Tasks are started in order; tasks[i].active says which are still children,
\* and a running compiler is one of them.
StartInv ==
  \A i \in Task : /\ i > next <=> proc[i] = "idle"
                  /\ active[i] <=> i \in Children
                  /\ i \in reaped => Exited(i)

CountInv ==
  /\ Cardinality(Active) <= Limit
  /\ CountersAgree
  /\ pc = "loop" => finished < Count

\* Nothing is taken for built that was not; what is built is whole.
BuiltInv ==
  /\ pc = "loop" => \A i \in Task : i <= next /\ ~active[i] => proc[i] = "ok"
  /\ pc \in {"mark", "done"} \/ ready # {} =>
        \A i \in Task : proc[i] = "ok" /\ ~active[i]
  /\ pc \in {"kill", "wait", "invalidate"} =>
        \E i \in Task : proc[i] \in {"idle", "bad"}
  /\ \/ \A i \in Task : proc[i] = "ok" => obj[i] = "whole"
     \/ /\ pc \in {"invalidate", "dead", "crashed"}
        /\ \E i \in Task : proc[i] \in {"idle", "bad"}

CursorInv ==
  /\ pc = "loop" => cursor = 0
  /\ pc \in {"mark", "wait", "invalidate"} => cursor < Count
  /\ pc = "wait" => \A i \in Task : i <= cursor => ~active[i]
  /\ pc \in {"invalidate", "dead"} => \A i \in Task : ~active[i]

IInv == TypeOK /\ StartInv /\ CountInv /\ BuiltInv /\ CursorInv

-----------------------------------------------------------------------------
Built == {i \in Task : proc[i] = "ok" /\ ~active[i]}
Decision ==
  IF Built = Task THEN "commit"
  ELSE IF pc \in {"kill", "wait", "invalidate", "dead", "lost", "crashed"}
    THEN "abort"
  ELSE "open"

Batch == INSTANCE BatchPublish
           WITH decision <- Decision, built <- Built, ready <- ready

\* The engine implements the all-or-nothing publication of BatchPublish.
ImplementsBatch == Batch!Spec
=============================================================================
