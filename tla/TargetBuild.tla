----------------------------- MODULE TargetBuild -----------------------------
(***************************************************************************)
(* A history of `c build` commands of one project: compiler_build_target   *)
(* of src/cli.c, run on the targets of the graph in the order TargetGraph  *)
(* builds them, with edits of the sources and of build.c in between.       *)
(*                                                                         *)
(* A target has one translation unit.  What it is built with apart from    *)
(* the sources' contents (defines, flags, the list of sources, compiler,   *)
(* unity mode) is its option; compiler_build_target hashes it into the     *)
(* name of the directory under build/.objs that holds the objects, while   *)
(* the output build/debug/<name> has one name for all of them.             *)
(*                                                                         *)
(* Objects and sources are compared in nanoseconds, outputs and objects    *)
(* with mtime_of, in whole seconds.  Time passes at any moment; an edit is *)
(* later than everything before it.  The project lock keeps builds apart   *)
(* and edits happen between builds here.                                   *)
(***************************************************************************)
EXTENDS Integers, Sequences, FiniteSets, BuildOrder

CONSTANTS
  Target,
  Options,          \* what build.c may say of a target
  Contents,         \* contents of a source
  Projects,         \* the projects considered
  MaxClock,         \* bound on the clock
  None

\* The order is one TargetGraph produces (TargetGraphProofs!BuildsInOrder).
ASSUME ProjectsAssumption ==
  \A p \in Projects :
    /\ p.order \in Seq(Target) /\ p.order # <<>>
    /\ p.archives \in [Target -> SUBSET Target]
    /\ IsBuildOrder(p.order, p.archives)
    /\ p.options \subseteq Options
    /\ p.ticks \in Nat \ {0}
    /\ p.faults \in BOOLEAN
ASSUME BoundAssumption == MaxClock \in Nat

Made == [content : Contents, option : Options]

ASSUME NoneAssumption ==
  /\ Contents # {}
  /\ \A c \in Contents \cup {None}, time \in 0 .. MaxClock : [content |-> c, mtime |-> time] # None
  /\ \A p \in Projects, t \in Target, m \in Made, time \in 0 .. MaxClock :
       \A a \in [p.archives[t] -> Made] : [own |-> m, archives |-> a, mtime |-> time] # None

VARIABLES
  project,          \* order: its targets, each after the ones it links; archives:
                    \* the static libraries a target is linked with; options: those
                    \* build.c takes; ticks: of the clock per second; faults: may
                    \* compilers and linkers fail and builds be killed?
  clock,
  source,           \* content and mtime of a target's source
  option,           \* what build.c says of a target
  object,           \* its object for each option: content and mtime, or None
  marked,           \* <<target, option>> whose object has a ready marker
  stored,           \* <<target, option, content>> in the object cache
  output,           \* what a target's output was made from, and its mtime
  published,        \* targets whose output has a ready marker
  pc, at,           \* the build in progress and the target it has come to
  changed,          \* compiled or cache_hits of that target
  verdict           \* of the last build, "none" once its input was changed

files == <<source, option, object, marked, stored, output, published>>
vars == <<project, clock, files, pc, at, changed, verdict>>

Built == {project.order[k] : k \in DOMAIN project.order}
Second(time) == time \div project.ticks
T == project.order[at]

\* Content of the output a build from scratch makes.
Own(t) == [content |-> source[t].content, option |-> option[t]]

-----------------------------------------------------------------------------
\* Contents only differ from each other: which one a source starts with is all one.
Initial == CHOOSE c \in Contents : TRUE

Init ==
  /\ project \in Projects
  /\ clock = 0
  /\ source = [t \in Built |-> [content |-> Initial, mtime |-> 0]]
  /\ option \in [Built -> project.options]
  /\ object = [t \in Built |-> [o \in Options |-> None]]
  /\ marked = {}
  /\ stored = {}
  /\ output = [t \in Built |-> None]
  /\ published = {}
  /\ pc = "idle" /\ at = 1 /\ changed = FALSE /\ verdict = "none"

Tick ==
  /\ clock < MaxClock
  /\ clock' = clock + 1
  /\ UNCHANGED <<project, files, pc, at, changed, verdict>>

Edit(t, c) ==
  /\ pc = "idle" /\ clock < MaxClock
  /\ c # source[t].content
  /\ clock' = clock + 1
  /\ source' = [source EXCEPT ![t] = [content |-> c, mtime |-> clock']]
  /\ verdict' = "none"
  /\ UNCHANGED <<project, option, object, marked, stored, output, published, pc, at, changed>>

EditBuild(t, o) ==
  /\ pc = "idle" /\ o \in project.options \ {option[t]}
  /\ option' = [option EXCEPT ![t] = o]
  /\ verdict' = "none"
  /\ UNCHANGED <<project, clock, source, object, marked, stored, output, published, pc, at, changed>>

\* `c clean` removes build/; the object cache survives.
Clean ==
  /\ pc = "idle"
  /\ object' = [t \in Built |-> [o \in Options |-> None]]
  /\ marked' = {}
  /\ output' = [t \in Built |-> None]
  /\ published' = {}
  /\ verdict' = "none"
  /\ UNCHANGED <<project, clock, source, option, stored, pc, at, changed>>

Start ==
  /\ pc = "idle"
  /\ pc' = "prepare" /\ at' = 1
  /\ UNCHANGED <<project, clock, files, changed, verdict>>

-----------------------------------------------------------------------------
(* compiler_prepare_task and compiler_execute_tasks for one object.        *)

Obj == object[T][option[T]]
Id == <<T, option[T]>>
Key == <<T, option[T], source[T].content>>

Fresh == Id \in marked /\ Obj # None /\ Obj.mtime >= source[T].mtime

MutUseFresh ==
  /\ pc = "prepare" /\ Fresh
  /\ pc' = "link"
  /\ UNCHANGED <<project, clock, files, at, changed, verdict>>

UseFresh ==
  /\ pc = "prepare" /\ Fresh
  /\ changed' = FALSE
  /\ pc' = "link"
  /\ UNCHANGED <<project, clock, files, at, verdict>>

NewObject == [content |-> source[T].content, mtime |-> clock]
Partial == [content |-> None, mtime |-> clock]

Restore ==
  /\ pc = "prepare" /\ ~Fresh /\ Key \in stored
  /\ object' = [object EXCEPT ![T][option[T]] = NewObject]
  /\ marked' = marked \cup {Id}
  /\ changed' = TRUE
  /\ pc' = "link"
  /\ UNCHANGED <<project, clock, source, option, stored, output, published, at, verdict>>

\* The object cache may be off or may have lost the entry.
Invalidate ==
  /\ pc = "prepare" /\ ~Fresh
  /\ object' = [object EXCEPT ![T][option[T]] = None]
  /\ marked' = marked \ {Id}
  /\ pc' = "compile"
  /\ UNCHANGED <<project, clock, source, option, stored, output, published, at, changed, verdict>>

CompileOk ==
  /\ pc = "compile"
  /\ object' = [object EXCEPT ![T][option[T]] = NewObject]
  /\ stored' \in {stored, stored \cup {Key}}
  /\ changed' = TRUE
  /\ pc' = "mark"
  /\ UNCHANGED <<project, clock, source, option, marked, output, published, at, verdict>>

Mark ==
  /\ pc = "mark"
  /\ marked' = marked \cup {Id}
  /\ pc' = "link"
  /\ UNCHANGED <<project, clock, source, option, object, stored, output, published, at, changed, verdict>>

\* compiler_cancel_tasks leaves neither object nor marker; the build dies.
CompileFails ==
  /\ project.faults
  /\ pc = "compile"
  /\ pc' = "idle" /\ verdict' = "failed"
  /\ UNCHANGED <<project, clock, files, at, changed>>

-----------------------------------------------------------------------------
(* The link step.                                                          *)

MutUpToDateByTime ==
  /\ output[T] # None
  /\ T \in published
  /\ Second(Obj.mtime) <= Second(output[T].mtime)

\* The negation of `relink || compiled || cache_hits`.
UpToDate ==
  /\ output[T] # None
  /\ T \in published
  /\ Second(Obj.mtime) <= Second(output[T].mtime)
  /\ ~changed

Advance == IF at = Len(project.order)
             THEN pc' = "idle" /\ verdict' = "ok" /\ UNCHANGED at
             ELSE pc' = "prepare" /\ at' = at + 1 /\ UNCHANGED verdict

UseOutput ==
  /\ pc = "link" /\ UpToDate
  /\ Advance
  /\ UNCHANGED <<project, clock, files, changed>>

\* The linker writes into a temporary directory; a rename replaces the output.
Link ==
  /\ pc = "link" /\ ~UpToDate
  /\ output' = [output EXCEPT ![T] =
                  [own |-> [content |-> Obj.content, option |-> option[T]],
                   archives |-> [l \in project.archives[T] |-> output[l].own],
                   mtime |-> clock]]
  /\ pc' = "publish"
  /\ UNCHANGED <<project, clock, source, option, object, marked, stored, published, at, changed, verdict>>

Publish ==
  /\ pc = "publish"
  /\ published' = published \cup {T}
  /\ Advance
  /\ UNCHANGED <<project, clock, source, option, object, marked, stored, output, changed>>

\* The output of the build before stays in place, with its marker.
LinkFails ==
  /\ project.faults
  /\ pc = "link" /\ ~UpToDate
  /\ pc' = "idle" /\ verdict' = "failed"
  /\ UNCHANGED <<project, clock, files, at, changed>>

\* Killed anywhere; a compiler that was running may leave part of an object.
Crash ==
  /\ project.faults
  /\ pc # "idle"
  /\ object' \in {object} \cup
       (IF pc = "compile" THEN {[object EXCEPT ![T][option[T]] = Partial]} ELSE {})
  /\ pc' = "idle" /\ verdict' = "failed"
  /\ UNCHANGED <<project, clock, source, option, marked, stored, output, published, at, changed>>

-----------------------------------------------------------------------------
Build ==
  \/ Start
  \/ UseFresh \/ Restore \/ Invalidate \/ CompileOk \/ Mark \/ CompileFails
  \/ UseOutput \/ Link \/ Publish \/ LinkFails

Next ==
  \/ Tick
  \/ \E t \in Built, c \in Contents : Edit(t, c)
  \/ \E t \in Built, o \in Options : EditBuild(t, o)
  \/ Clean
  \/ Build
  \/ Crash

Spec == Init /\ [][Next]_vars

-----------------------------------------------------------------------------
TypeOK ==
  /\ project \in Projects
  /\ clock \in 0 .. MaxClock
  /\ source \in [Built -> [content : Contents, mtime : 0 .. clock]]
  /\ option \in [Built -> project.options]
  /\ object \in [Built -> [Options -> {None} \cup [content : Contents \cup {None}, mtime : 0 .. clock]]]
  /\ marked \subseteq Built \X Options
  /\ stored \subseteq Built \X Options \X Contents
  /\ output = [t \in Built |-> output[t]]
  /\ \A t \in Built : output[t] # None =>
       output[t] \in [own : Made, archives : [project.archives[t] -> Made], mtime : 0 .. clock]
  /\ published \subseteq Built
  /\ pc \in {"idle", "prepare", "compile", "mark", "link", "publish"}
  /\ at \in 1 .. Len(project.order)
  /\ changed \in BOOLEAN
  /\ verdict \in {"none", "ok", "failed"}

\* The times tell what is older: no build is cut short, or each tick is a second.
TimesTell == project.faults => project.ticks = 1

\* After a build that succeeded each output holds the target's own objects as a
\* build from scratch would make them, unless it is left from another option,
\* and the libraries that are older than it as they are.
OwnCurrent ==
  TimesTell /\ verdict = "ok" =>
    \A t \in Built :
      /\ output[t] # None
      /\ output[t].own.option = option[t] => output[t].own = Own(t)
      /\ \A l \in project.archives[t] :
           output[l].mtime < output[t].mtime => output[t].archives[l] = output[l].own

\* A build of a project nothing was changed in since the last one that
\* succeeded compiles nothing and links nothing.
NothingToDo ==
  [][verdict = "ok" /\ pc # "idle" => pc' # "compile" /\ output' = output]_vars
=============================================================================
