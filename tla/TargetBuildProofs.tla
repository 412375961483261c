-------------------------- MODULE TargetBuildProofs --------------------------
(***************************************************************************)
(* Proofs about TargetBuild for any project, options, contents and ticks   *)
(* of the clock per second.  ObjectInv says that a marked object which is  *)
(* not older than its source is what the source compiles to.  OutputInv    *)
(* and RebuiltInv say why the link test may compare whole seconds and      *)
(* forget which option an output was made with: the contents of an output  *)
(* differ from the source only if the source is later than the output, and *)
(* unless builds are cut short only as long as the next link is forced.    *)
(***************************************************************************)
EXTENDS TargetBuild, TLAPS

FreshObject(t, o) ==
  <<t, o>> \in marked /\ object[t][o] # None /\ object[t][o].mtime >= source[t].mtime

ObjectInv ==
  \A t \in Built, o \in Options : FreshObject(t, o) => object[t][o].content = source[t].content

OutputInv ==
  \A t \in Built :
    output[t] # None =>
      /\ output[t].own.content = source[t].content \/ output[t].mtime < source[t].mtime
      /\ \A l \in project.archives[t] :
           output[l] # None /\ (output[l].mtime < output[t].mtime => output[t].archives[l] = output[l].own)

Outdated(t) == output[t] # None /\ output[t].own.content # source[t].content

RebuiltInv ==
  ~project.faults =>
    \A t \in Built :
      Outdated(t) =>
        \/ \A o \in Options : ~FreshObject(t, o)
        \/ t = T /\ pc \in {"mark", "link"} /\ changed

\* Nothing is left to do for a target.
Linked(t) ==
  /\ FreshObject(t, option[t])
  /\ output[t] # None
  /\ Second(object[t][option[t]].mtime) <= Second(output[t].mtime)
  /\ TimesTell => ~Outdated(t)
Done(t) == Linked(t) /\ t \in published

PlaceInv ==
  /\ pc = "compile" => Id \notin marked
  /\ pc = "mark" => changed /\ Obj # None /\ Obj.content = source[T].content /\ Obj.mtime >= source[T].mtime
  /\ pc = "link" => FreshObject(T, option[T])
  /\ pc = "publish" => Linked(T)

Before == {project.order[k] : k \in 1 .. at - 1}

DoneInv ==
  /\ pc # "idle" => \A t \in Before : Done(t)
  /\ verdict = "ok" =>
       /\ \A t \in Built : Done(t)
       /\ pc \in {"idle", "prepare"} \/ (pc = "link" /\ ~changed)

BuildInv == TypeOK /\ ObjectInv /\ OutputInv /\ RebuiltInv /\ PlaceInv /\ DoneInv

(* What the constants say. *)

LEMMA DivMonotonic ==
  ASSUME NEW a \in Nat, NEW b \in Nat, NEW n \in Nat \ {0}, a <= b
  PROVE  a \div n <= b \div n
  OBVIOUS

LEMMA ProjectType ==
  ASSUME TypeOK
  PROVE  /\ project.order \in Seq(Target) /\ Len(project.order) \in Nat \ {0}
         /\ project.ticks \in Nat \ {0} /\ project.faults \in BOOLEAN
         /\ project.options \subseteq Options
         /\ Built \subseteq Target
         /\ at \in 1 .. Len(project.order) /\ T \in Built /\ option[T] \in Options /\ Id \in Built \X Options
         /\ \A t \in Built : option[t] \in Options
         /\ \A t \in Built : project.archives[t] \subseteq Built
         /\ \A k \in 1 .. Len(project.order) : project.archives[project.order[k]] \subseteq {project.order[j] : j \in 1 .. k - 1}
         /\ \A t \in Built : \E k \in 1 .. Len(project.order) : t = project.order[k]
         /\ \A j, k \in 1 .. Len(project.order) : project.order[j] = project.order[k] => j = k
  <1>1. project \in Projects /\ at \in 1 .. Len(project.order) /\ option \in [Built -> project.options]
    BY DEF TypeOK
  <1>2. /\ project.order \in Seq(Target) /\ project.order # <<>>
        /\ project.archives \in [Target -> SUBSET Target] /\ project.options \subseteq Options
        /\ project.ticks \in Nat \ {0} /\ project.faults \in BOOLEAN
        /\ \A k \in DOMAIN project.order :
             /\ \A j \in DOMAIN project.order : project.order[j] = project.order[k] => j = k
             /\ project.archives[project.order[k]] \subseteq {project.order[j] : j \in 1 .. k - 1}
    BY <1>1, ProjectsAssumption DEF IsBuildOrder
  <1>3. DOMAIN project.order = 1 .. Len(project.order) /\ Len(project.order) \in Nat \ {0}
    BY <1>2
  <1>4. Built \subseteq Target /\ T \in Built
    BY <1>1, <1>2, <1>3 DEF Built, T
  <1>5. \A t \in Built : option[t] \in Options
    BY <1>1, <1>2
  <1>6. \A t \in Built : \E k \in 1 .. Len(project.order) : t = project.order[k]
    BY <1>3 DEF Built
  <1>7. \A t \in Built : project.archives[t] \subseteq Built
    BY <1>2, <1>3, <1>6 DEF Built
  <1>. QED
    BY <1>1, <1>2, <1>3, <1>4, <1>5, <1>6, <1>7 DEF Id

\* A file that was written is there.
LEMMA ObjectWritten ==
  ASSUME TypeOK, NEW c \in Contents \cup {None}
  PROVE  [content |-> c, mtime |-> clock] # None
  BY NoneAssumption DEF TypeOK

LEMMA OutputWritten ==
  ASSUME TypeOK, NEW t \in Built, NEW m \in Made, NEW a \in [project.archives[t] -> Made]
  PROVE  [own |-> m, archives |-> a, mtime |-> clock] # None
  <1>1. project \in Projects /\ clock \in 0 .. MaxClock /\ t \in Target
    BY ProjectType DEF TypeOK
  <1>. QED  BY <1>1, NoneAssumption

LEMMA InitBuildInv == Init => BuildInv
  <1>. SUFFICES ASSUME Init PROVE BuildInv
    OBVIOUS
  <1>1. TypeOK
    <2>1. project \in Projects /\ Len(project.order) \in Nat \ {0} /\ project.options \subseteq Options
      BY ProjectsAssumption DEF Init
    <2>2. Initial \in Contents /\ MaxClock \in Nat
      BY NoneAssumption, BoundAssumption DEF Initial
    <2>3. /\ source \in [Built -> [content : Contents, mtime : 0 .. clock]] /\ clock \in 0 .. MaxClock
          /\ option \in [Built -> project.options]
      BY <2>2 DEF Init
    <2>4. /\ object \in [Built -> [Options -> {None} \cup [content : Contents \cup {None}, mtime : 0 .. clock]]]
          /\ output = [t \in Built |-> output[t]] /\ \A t \in Built : output[t] = None
      BY DEF Init
    <2>5. /\ marked = {} /\ stored = {} /\ published = {}
          /\ pc = "idle" /\ changed \in BOOLEAN /\ verdict = "none" /\ at = 1
      BY DEF Init
    <2>6. at \in 1 .. Len(project.order)
      BY <2>1, <2>5
    <2>. QED  BY <2>1, <2>3, <2>4, <2>5, <2>6 DEF TypeOK
  <1>2. /\ pc = "idle" /\ verdict = "none"
        /\ \A t \in Built : output[t] = None /\ \A o \in Options : object[t][o] = None
    BY DEF Init
  <1>. QED
    BY <1>1, <1>2 DEF BuildInv, ObjectInv, OutputInv, RebuiltInv, Outdated, PlaceInv, DoneInv, FreshObject

\* What a link puts together is there.
LEMMA LinkParts ==
  ASSUME BuildInv, pc = "link"
  PROVE  /\ FreshObject(T, option[T]) /\ Obj.content = source[T].content
         /\ \A l \in project.archives[T] : output[l] # None /\ output[l].own \in Made /\ l # T
         /\ [content |-> Obj.content, option |-> option[T]] \in Made
         /\ [l \in project.archives[T] |-> output[l].own] \in [project.archives[T] -> Made]
  <1>t. TypeOK /\ ObjectInv /\ PlaceInv /\ DoneInv
    BY DEF BuildInv
  <1>1. FreshObject(T, option[T]) /\ Obj.content = source[T].content
    BY <1>t, ProjectType DEF PlaceInv, ObjectInv, Obj
  <1>2. ASSUME NEW l \in project.archives[T]
        PROVE  output[l] # None /\ output[l].own \in Made /\ l # T
    <2>1. at \in 1 .. Len(project.order) /\ T = project.order[at]
      BY <1>t, ProjectType DEF T
    <2>2. PICK j \in 1 .. at - 1 : l = project.order[j]
      <3>1. project.archives[project.order[at]] \subseteq {project.order[j] : j \in 1 .. at - 1}
        BY <1>t, <2>1, ProjectType
      <3>. QED  BY <2>1, <3>1
    <2>3. output[l] # None
      BY <1>t, <2>2 DEF DoneInv, Before, Done, Linked
    <2>4. l # T
      <3>1. j \in 1 .. Len(project.order) /\ j # at
        BY <2>1, <2>2, <1>t, ProjectType
      <3>. QED  BY <2>1, <2>2, <3>1, <1>t, ProjectType
    <2>5. l \in Built
      BY <1>t, ProjectType
    <2>. QED  BY <1>t, <2>3, <2>4, <2>5 DEF TypeOK
  <1>3. source[T].content \in Contents /\ option[T] \in Options
    BY <1>t, ProjectType DEF TypeOK
  <1>. QED  BY <1>1, <1>2, <1>3 DEF Made

LEMMA NextTypeOK == BuildInv /\ [Next]_vars => TypeOK'
  <1>. SUFFICES ASSUME BuildInv, [Next]_vars PROVE TypeOK'
    OBVIOUS
  <1>t. TypeOK
    BY DEF BuildInv
  <1>p. project' = project /\ Built' = Built
    <2>1. project' = project
      BY DEF Next, Build, Tick, Edit, EditBuild, Clean, Start, UseFresh, Restore, Invalidate, CompileOk, Mark,
             CompileFails, UseOutput, Link, Publish, LinkFails, Crash, vars
    <2>. QED  BY <2>1 DEF Built
  <1>c. /\ clock' \in 0 .. MaxClock /\ 0 .. clock \subseteq 0 .. clock' /\ clock \in 0 .. MaxClock
        /\ clock' \in 0 .. clock'
    <2>1. clock \in 0 .. MaxClock /\ MaxClock \in Nat
      BY <1>t, BoundAssumption DEF TypeOK
    <2>2. clock' = clock \/ (clock < MaxClock /\ clock' = clock + 1)
      BY DEF Next, Build, Tick, Edit, EditBuild, Clean, Start, UseFresh, Restore, Invalidate, CompileOk, Mark,
             CompileFails, UseOutput, Link, Publish, LinkFails, Crash, vars
    <2>. QED  BY <2>1, <2>2
  <1>s. source' = source => source' \in [Built -> [content : Contents, mtime : 0 .. clock']]
    BY <1>t, <1>c DEF TypeOK
  <1>o. object' = object =>
          object' \in [Built -> [Options -> {None} \cup [content : Contents \cup {None}, mtime : 0 .. clock']]]
    BY <1>t, <1>c DEF TypeOK
  <1>w. output' = output =>
          /\ output' = [t \in Built |-> output'[t]]
          /\ \A t \in Built : output'[t] # None =>
               output'[t] \in [own : Made, archives : [project.archives[t] -> Made], mtime : 0 .. clock']
    BY <1>t, <1>c DEF TypeOK
  <1>g. Advance => pc' \in {"idle", "prepare"} /\ at' \in 1 .. Len(project.order) /\ verdict' \in {"none", "ok", "failed"}
    <2>1. at \in 1 .. Len(project.order) /\ Len(project.order) \in Nat /\ verdict \in {"none", "ok", "failed"}
      BY <1>t, ProjectType DEF TypeOK
    <2>. QED  BY <2>1 DEF Advance
  <1>x. \A x \in {None} \cup [content : Contents \cup {None}, mtime : 0 .. clock'] :
          object' = [object EXCEPT ![T][option[T]] = x] =>
            object' \in [Built -> [Options -> {None} \cup [content : Contents \cup {None}, mtime : 0 .. clock']]]
    BY <1>t, <1>c, ProjectType DEF TypeOK
  <1>n. NewObject \in [content : Contents \cup {None}, mtime : 0 .. clock] /\ Key \in Built \X Options \X Contents
        /\ Partial \in [content : Contents \cup {None}, mtime : 0 .. clock]
    BY <1>t, <1>c, ProjectType DEF NewObject, Partial, Key, TypeOK
  <1>. USE <1>t, <1>p, <1>c DEF TypeOK
  <1>1. CASE Tick \/ UNCHANGED vars
    BY <1>1, <1>s, <1>o, <1>w DEF Tick, files, vars
  <1>2. CASE \E t \in Built, c \in Contents : Edit(t, c)
    <2>1. PICK t \in Built, c \in Contents : Edit(t, c)
      BY <1>2
    <2>2. source' \in [Built -> [content : Contents, mtime : 0 .. clock']]
      BY <2>1 DEF Edit
    <2>. QED  BY <2>1, <2>2, <1>o, <1>w DEF Edit
  <1>3. CASE \E t \in Built, o \in Options : EditBuild(t, o)
    BY <1>3, <1>s, <1>o, <1>w DEF EditBuild
  <1>4. CASE Clean
    BY <1>4, <1>s DEF Clean
  <1>5. CASE Start
    <2>1. 1 \in 1 .. Len(project.order)
      BY ProjectType
    <2>. QED  BY <1>5, <2>1, <1>s, <1>o, <1>w DEF Start, files
  <1>6. CASE UseFresh
    BY <1>6, <1>s, <1>o, <1>w DEF UseFresh, files
  <1>7. CASE Restore
    <2>1. object' \in [Built -> [Options -> {None} \cup [content : Contents \cup {None}, mtime : 0 .. clock']]]
      BY <1>7, <1>n, <1>x DEF Restore
    <2>. QED  BY <1>7, <2>1, <1>s, <1>w, ProjectType DEF Restore
  <1>8. CASE Invalidate
    <2>1. object' \in [Built -> [Options -> {None} \cup [content : Contents \cup {None}, mtime : 0 .. clock']]]
      BY <1>8, <1>x DEF Invalidate
    <2>. QED  BY <1>8, <2>1, <1>s, <1>w DEF Invalidate
  <1>9. CASE CompileOk
    <2>1. object' \in [Built -> [Options -> {None} \cup [content : Contents \cup {None}, mtime : 0 .. clock']]]
      BY <1>9, <1>n, <1>x DEF CompileOk
    <2>2. stored' \subseteq Built \X Options \X Contents
      BY <1>9, <1>n DEF CompileOk
    <2>. QED  BY <1>9, <2>1, <2>2, <1>s, <1>w DEF CompileOk
  <1>10. CASE Mark
    BY <1>10, <1>s, <1>o, <1>w, ProjectType DEF Mark
  <1>11. CASE CompileFails \/ LinkFails
    BY <1>11, <1>s, <1>o, <1>w DEF CompileFails, LinkFails, files
  <1>12. CASE UseOutput
    BY <1>12, <1>s, <1>o, <1>w, <1>g DEF UseOutput, files
  <1>13. CASE Publish
    <2>1. T \in Built
      BY ProjectType
    <2>. QED  BY <1>13, <2>1, <1>s, <1>o, <1>w, <1>g DEF Publish
  <1>14. CASE Link
    <2>1. pc = "link" /\ clock' = clock
      BY <1>14 DEF Link
    <2>2. [own |-> [content |-> Obj.content, option |-> option[T]],
           archives |-> [l \in project.archives[T] |-> output[l].own],
           mtime |-> clock] \in [own : Made, archives : [project.archives[T] -> Made], mtime : 0 .. clock']
      BY <2>1, LinkParts
    <2>3. /\ output' = [t \in Built |-> output'[t]]
          /\ \A t \in Built : output'[t] # None =>
               output'[t] \in [own : Made, archives : [project.archives[t] -> Made], mtime : 0 .. clock']
      <3>1. output' = [output EXCEPT ![T] = [own |-> [content |-> Obj.content, option |-> option[T]],
                                             archives |-> [l \in project.archives[T] |-> output[l].own],
                                             mtime |-> clock]]
        BY <1>14 DEF Link
      <3>. QED  BY <2>1, <2>2, <3>1
    <2>. QED  BY <1>14, <2>3, <1>s, <1>o DEF Link
  <1>15. CASE Crash
    <2>1. object' \in [Built -> [Options -> {None} \cup [content : Contents \cup {None}, mtime : 0 .. clock']]]
      BY <1>15, <1>n, <1>x, <1>o DEF Crash
    <2>. QED  BY <1>15, <2>1, <1>s, <1>w DEF Crash
  <1>. QED
    BY <1>1, <1>2, <1>3, <1>4, <1>5, <1>6, <1>7, <1>8, <1>9, <1>10, <1>11, <1>12, <1>13, <1>14, <1>15 DEF Next, Build

-----------------------------------------------------------------------------
(* What a step does to the sources, objects and outputs.                   *)

LEMMA ProjectKept == [Next]_vars => project' = project /\ Built' = Built
  <1>1. [Next]_vars => project' = project
    BY DEF Next, Build, Tick, Edit, EditBuild, Clean, Start, UseFresh, Restore, Invalidate, CompileOk, Mark,
           CompileFails, UseOutput, Link, Publish, LinkFails, Crash, vars
  <1>. QED  BY <1>1 DEF Built

LEMMA SourceEffect ==
  ASSUME TypeOK, [Next]_vars, NEW t \in Built
  PROVE  \/ source'[t] = source[t]
         \/ /\ source'[t].mtime = clock + 1 /\ pc = "idle" /\ pc' = "idle"
            /\ UNCHANGED <<object, marked, output>>
  <1>1. CASE source' = source
    BY <1>1
  <1>2. CASE \E u \in Built, c \in Contents : Edit(u, c)
    <2>1. PICK u \in Built, c \in Contents : Edit(u, c)
      BY <1>2
    <2>2. clock \in Nat /\ clock' = clock + 1 /\ pc = "idle" /\ pc' = "idle" /\ UNCHANGED <<object, marked, output>>
      BY <2>1, BoundAssumption DEF Edit, TypeOK
    <2>3. t = u => source'[t].mtime = clock'
      BY <2>1 DEF Edit, TypeOK
    <2>4. t # u => source'[t] = source[t]
      BY <2>1 DEF Edit, TypeOK
    <2>. QED  BY <2>2, <2>3, <2>4
  <1>. QED
    BY <1>1, <1>2 DEF Next, Build, Tick, EditBuild, Clean, Start, UseFresh, Restore, Invalidate, CompileOk, Mark,
           CompileFails, UseOutput, Link, Publish, LinkFails, Crash, files, vars

\* The times in the objects and outputs are in the past.
LEMMA Past ==
  ASSUME TypeOK, NEW t \in Built
  PROVE  /\ clock \in Nat /\ source[t].mtime \in 0 .. clock
         /\ \A o \in Options : object[t][o] # None => object[t][o].mtime \in 0 .. clock
         /\ output[t] # None => output[t].mtime \in 0 .. clock
  BY BoundAssumption DEF TypeOK

LEMMA ObjectEffect ==
  ASSUME TypeOK, PlaceInv, [Next]_vars, NEW t \in Built, NEW o \in Options, FreshObject(t, o)'
  PROVE  \/ FreshObject(t, o) /\ object'[t][o] = object[t][o] /\ source'[t] = source[t]
         \/ /\ t = T /\ o = option[T] /\ source'[t] = source[t] /\ object'[t][o].content = source[T].content
            /\ \/ pc = "prepare" /\ ~Fresh /\ pc' = "link" /\ changed'
               \/ pc = "mark" /\ pc' = "link" /\ changed' = changed
  <1>s. CASE source'[t] # source[t]
    <2>1. source'[t].mtime = clock + 1 /\ UNCHANGED <<object, marked, output>>
      BY <1>s, SourceEffect
    <2>2. object[t][o] # None /\ object[t][o].mtime >= source'[t].mtime
      BY <2>1 DEF FreshObject
    <2>3. object[t][o].mtime \in 0 .. clock /\ clock \in Nat
      BY <2>2, Past
    <2>. QED  BY <2>1, <2>2, <2>3
  <1>u. CASE source'[t] = source[t] /\ object'[t][o] = object[t][o] /\ (<<t, o>> \in marked' => <<t, o>> \in marked)
    BY <1>u DEF FreshObject
  <1>1. CASE source'[t] = source[t] /\ Restore
    <2>1. t # T \/ o # option[T] => object'[t][o] = object[t][o] /\ (<<t, o>> \in marked' => <<t, o>> \in marked)
      BY <1>1 DEF Restore, Id, TypeOK
    <2>2. t = T /\ o = option[T] => object'[t][o] = NewObject
      BY <1>1 DEF Restore, TypeOK
    <2>. QED  BY <1>1, <1>u, <2>1, <2>2 DEF Restore, NewObject
  <1>2. CASE source'[t] = source[t] /\ Mark
    <2>1. t # T \/ o # option[T] => (<<t, o>> \in marked' => <<t, o>> \in marked)
      BY <1>2 DEF Mark, Id
    <2>2. t = T /\ o = option[T] => object'[t][o].content = source[T].content
      BY <1>2 DEF Mark, PlaceInv, Obj
    <2>. QED  BY <1>2, <1>u, <2>1, <2>2 DEF Mark
  <1>3. CASE source'[t] = source[t] /\ (Invalidate \/ CompileOk \/ Crash)
    <2>1. t # T \/ o # option[T] => object'[t][o] = object[t][o] /\ (<<t, o>> \in marked' => <<t, o>> \in marked)
      BY <1>3 DEF Invalidate, CompileOk, Crash, TypeOK
    <2>2. pc = "compile" => <<T, option[T]>> \notin marked
      BY DEF PlaceInv, Id
    <2>3. t = T /\ o = option[T] =>
            <<t, o>> \notin marked' \/ (object'[t][o] = object[t][o] /\ <<t, o>> \in marked)
      BY <1>3, <2>2 DEF Invalidate, CompileOk, Crash, Id
    <2>4. FreshObject(t, o)' => <<t, o>> \in marked'
      BY DEF FreshObject
    <2>. QED  BY <1>3, <1>u, <2>1, <2>3, <2>4
  <1>4. CASE source'[t] = source[t] /\ Clean
    BY <1>4 DEF Clean, FreshObject
  <1>5. CASE Tick \/ (\E u \in Built, c \in Contents : Edit(u, c)) \/ (\E u \in Built, p \in Options : EditBuild(u, p))
             \/ Start \/ UseFresh \/ CompileFails \/ UseOutput \/ Link \/ Publish \/ LinkFails \/ UNCHANGED vars
    <2>1. UNCHANGED <<object, marked>>
      BY <1>5 DEF Tick, Edit, EditBuild, Start, UseFresh, CompileFails, UseOutput, Link, Publish, LinkFails, files, vars
    <2>. QED  BY <1>s, <1>u, <2>1
  <1>. QED
    BY <1>s, <1>1, <1>2, <1>3, <1>4, <1>5 DEF Next, Build

LEMMA OutputEffect ==
  ASSUME TypeOK, [Next]_vars, NEW t \in Built, output'[t] # output[t]
  PROVE  output'[t] = None \/ (Link /\ t = T)
  <1>1. CASE output' = output
    BY <1>1
  <1>2. CASE Clean
    BY <1>2 DEF Clean
  <1>3. CASE Link
    BY <1>3 DEF Link, TypeOK
  <1>. QED
    BY <1>1, <1>2, <1>3 DEF Next, Build, Tick, Edit, EditBuild, Start, UseFresh, Restore, Invalidate, CompileOk, Mark,
           CompileFails, UseOutput, Publish, LinkFails, Crash, files, vars

\* What a link makes.
LEMMA LinkEffect ==
  ASSUME BuildInv, Link
  PROVE  /\ output'[T] # None /\ output'[T].mtime = clock
         /\ output'[T].own = [content |-> source[T].content, option |-> option[T]]
         /\ \A l \in project.archives[T] : output'[T].archives[l] = output[l].own
         /\ \A t \in Built \ {T} : output'[t] = output[t]
  <1>t. TypeOK
    BY DEF BuildInv
  <1>. DEFINE New == [own |-> [content |-> Obj.content, option |-> option[T]],
                      archives |-> [l \in project.archives[T] |-> output[l].own],
                      mtime |-> clock]
  <1>1. pc = "link" /\ output' = [output EXCEPT ![T] = New]
    BY DEF Link
  <1>2. DOMAIN output = Built /\ T \in Built
    BY <1>t, ProjectType DEF TypeOK
  <1>3. output'[T] = New /\ \A t \in Built \ {T} : output'[t] = output[t]
    BY <1>1, <1>2
  <1>4. New # None
    BY <1>1, <1>2, <1>t, LinkParts, OutputWritten
  <1>. QED  BY <1>1, <1>3, <1>4, LinkParts

-----------------------------------------------------------------------------
(* The parts of the invariant. *)

LEMMA NextObjectInv == BuildInv /\ [Next]_vars => ObjectInv'
  <1>. SUFFICES ASSUME BuildInv, [Next]_vars, NEW t \in Built, NEW o \in Options, FreshObject(t, o)'
                PROVE  object'[t][o].content = source'[t].content
    BY ProjectKept DEF ObjectInv
  <1>. QED  BY ObjectEffect DEF BuildInv, ObjectInv

LEMMA NextOutputInv == BuildInv /\ [Next]_vars => OutputInv'
  <1>. SUFFICES ASSUME BuildInv, [Next]_vars, NEW t \in Built, output'[t] # None
                PROVE  /\ output'[t].own.content = source'[t].content \/ output'[t].mtime < source'[t].mtime
                       /\ \A l \in project.archives[t] :
                            /\ output'[l] # None
                            /\ output'[l].mtime < output'[t].mtime => output'[t].archives[l] = output'[l].own
    BY ProjectKept DEF OutputInv
  <1>t. TypeOK /\ OutputInv
    BY DEF BuildInv
  <1>1. CASE output'[t] = output[t]
    <2>1. output[t].mtime \in 0 .. clock /\ clock \in Nat /\ output[t] # None
      BY <1>1, <1>t, Past
    <2>2. output[t].own.content = source[t].content \/ output[t].mtime < source[t].mtime
      BY <1>t, <2>1 DEF OutputInv
    <2>3. output'[t].own.content = source'[t].content \/ output'[t].mtime < source'[t].mtime
      BY <1>1, <1>t, <2>1, <2>2, SourceEffect
    <2>4. ASSUME NEW l \in project.archives[t]
          PROVE  /\ output'[l] # None
                 /\ output'[l].mtime < output'[t].mtime => output'[t].archives[l] = output'[l].own
      <3>1. l \in Built /\ output[l] # None
        BY <1>t, <2>1, ProjectType DEF OutputInv
      <3>2. CASE output'[l] = output[l]
        BY <1>1, <1>t, <2>1, <3>1, <3>2 DEF OutputInv
      <3>3. CASE output'[l] # output[l] /\ Link /\ l = T
        <4>1. output'[l] # None /\ output'[l].mtime = clock
          BY <3>3, LinkEffect
        <4>. QED  BY <1>1, <2>1, <4>1
      <3>4. CASE output'[l] # output[l] /\ output'[l] = None
        <4>1. ~Link
          BY <3>1, <3>4, LinkEffect
        <4>2. Clean
          BY <3>4, <4>1 DEF Next, Build, Tick, Edit, EditBuild, Start, UseFresh, Restore, Invalidate, CompileOk, Mark,
               CompileFails, UseOutput, Publish, LinkFails, Crash, files, vars
        <4>. QED  BY <4>2 DEF Clean
      <3>. QED  BY <1>t, <3>1, <3>2, <3>3, <3>4, OutputEffect
    <2>. QED  BY <2>3, <2>4
  <1>2. CASE output'[t] # output[t]
    <2>1. Link /\ t = T
      BY <1>2, <1>t, OutputEffect
    <2>2. source' = source /\ pc = "link"
      BY <2>1 DEF Link
    <2>3. ASSUME NEW l \in project.archives[t]
          PROVE  output'[l] # None /\ output'[t].archives[l] = output'[l].own
      <3>1. l \in Built /\ l # T /\ output[l] # None
        BY <1>t, <2>1, <2>2, LinkParts, ProjectType
      <3>. QED  BY <2>1, <3>1, LinkEffect
    <2>. QED  BY <2>1, <2>2, <2>3, LinkEffect
  <1>. QED  BY <1>1, <1>2

\* The target a build is at stays the same until it is done with it.
LEMMA TargetKept ==
  ASSUME TypeOK, [Next]_vars, pc \in {"compile", "mark"} \/ (pc = "link" /\ pc' = "link")
         \/ (pc = "prepare" /\ pc' \in {"compile", "link"})
  PROVE  at' = at /\ T' = T /\ option' = option
  <1>1. at' = at /\ option' = option
    BY DEF Next, Build, Tick, Edit, EditBuild, Clean, Start, UseFresh, Restore, Invalidate, CompileOk, Mark,
           CompileFails, UseOutput, Link, Publish, LinkFails, Crash, Advance, files, vars
  <1>. QED  BY <1>1, ProjectKept DEF T

LEMMA NextRebuiltInv == BuildInv /\ [Next]_vars => RebuiltInv'
  <1>. SUFFICES ASSUME BuildInv, [Next]_vars, ~project.faults, NEW t \in Built, Outdated(t)',
                       NEW o \in Options, FreshObject(t, o)'
                PROVE  t = T' /\ pc' \in {"mark", "link"} /\ changed'
    BY ProjectKept DEF RebuiltInv
  <1>t. TypeOK /\ PlaceInv /\ RebuiltInv
    BY DEF BuildInv
  <1>1. source'[t] = source[t]
    BY <1>t, ObjectEffect
  <1>2. output'[t] = output[t] /\ Outdated(t)
    <2>1. output'[t] # None /\ output'[t].own.content # source[t].content
      BY <1>1 DEF Outdated
    <2>2. ~(Link /\ t = T)
      BY <2>1, LinkEffect
    <2>. QED  BY <1>t, <2>1, <2>2, OutputEffect DEF Outdated
  <1>3. CASE ~FreshObject(t, o)
    <2>1. /\ t = T
          /\ \/ pc = "prepare" /\ pc' = "link" /\ changed'
             \/ pc = "mark" /\ pc' = "link" /\ changed' = changed
      BY <1>t, <1>3, ObjectEffect
    <2>2. T' = T
      BY <1>t, <2>1, TargetKept
    <2>3. pc = "mark" => changed
      BY <1>t DEF PlaceInv
    <2>. QED  BY <2>1, <2>2, <2>3
  <1>4. CASE FreshObject(t, o)
    <2>1. t = T /\ pc \in {"mark", "link"} /\ changed
      BY <1>t, <1>2, <1>4 DEF RebuiltInv
    <2>2. ~Link
      BY <1>2, <2>1, <1>t, LinkEffect DEF Outdated
    <2>3. pc' \in {"mark", "link"} /\ changed' /\ (pc = "link" => pc' = "link")
      BY <2>1, <2>2 DEF Next, Build, Tick, Edit, EditBuild, Clean, Start, UseFresh, Restore, Invalidate, CompileOk,
           Mark, CompileFails, UseOutput, UpToDate, Publish, LinkFails, Crash, files, vars
    <2>4. T' = T
      BY <1>t, <2>1, <2>3, TargetKept
    <2>. QED  BY <2>1, <2>3, <2>4
  <1>. QED  BY <1>3, <1>4

\* What is done stays done when nothing of it changes.
LEMMA DoneKept ==
  ASSUME project' = project, NEW t,
         UNCHANGED <<source, option>>, object'[t] = object[t], output'[t] = output[t],
         \A o : <<t, o>> \in marked => <<t, o>> \in marked',
         t \in published => t \in published'
  PROVE  (Linked(t) => Linked(t)') /\ (Done(t) => Done(t)')
  BY DEF Done, Linked, FreshObject, Outdated, TimesTell, Second

LEMMA NextPlaceInv == BuildInv /\ [Next]_vars => PlaceInv'
  <1>. SUFFICES ASSUME BuildInv, [Next]_vars PROVE PlaceInv'
    OBVIOUS
  <1>t. TypeOK /\ PlaceInv /\ ObjectInv
    BY DEF BuildInv
  <1>. USE DEF PlaceInv
  <1>p. project' = project /\ T \in Built /\ option[T] \in Options
    BY <1>t, ProjectKept, ProjectType
  <1>c. clock \in Nat /\ source[T].mtime \in 0 .. clock /\ source[T].content \in Contents
    BY <1>t, <1>p, Past DEF TypeOK
  <1>n. [content |-> source[T].content, mtime |-> clock] # None
    BY <1>t, <1>c, ObjectWritten
  <1>1. CASE UNCHANGED <<files, pc, at, changed>>
    <2>1. T' = T /\ UNCHANGED <<source, option, object, marked, output, published, pc, changed>>
      BY <1>1, <1>p DEF T, files
    <2>. QED  BY <1>t, <1>p, <2>1 DEF Id, Obj, FreshObject, Linked, Outdated, TimesTell, Second
  <1>2. CASE UseFresh
    <2>1. T' = T /\ UNCHANGED <<source, option, object, marked>> /\ pc' = "link"
      BY <1>2, <1>p DEF UseFresh, T, files
    <2>. QED  BY <1>2, <2>1 DEF UseFresh, Fresh, FreshObject, Obj, Id
  <1>3. CASE Restore
    <2>1. T' = T /\ UNCHANGED <<source, option>> /\ pc' = "link" /\ <<T, option[T]>> \in marked'
      BY <1>3, <1>p DEF Restore, T, Id
    <2>2. object'[T][option[T]] = [content |-> source[T].content, mtime |-> clock]
      BY <1>3, <1>p, <1>t DEF Restore, TypeOK, NewObject
    <2>. QED  BY <2>1, <2>2, <1>c, <1>n DEF FreshObject
  <1>4. CASE Invalidate
    <2>1. T' = T /\ UNCHANGED option /\ pc' = "compile" /\ <<T, option[T]>> \notin marked'
      BY <1>4, <1>p DEF Invalidate, T, Id
    <2>. QED  BY <2>1 DEF Id
  <1>5. CASE CompileOk
    <2>1. T' = T /\ UNCHANGED <<source, option>> /\ pc' = "mark" /\ changed'
      BY <1>5, <1>p DEF CompileOk, T
    <2>2. object'[T][option[T]] = [content |-> source[T].content, mtime |-> clock]
      BY <1>5, <1>p, <1>t DEF CompileOk, TypeOK, NewObject
    <2>. QED  BY <2>1, <2>2, <1>c, <1>n DEF Obj
  <1>6. CASE Mark
    <2>1. T' = T /\ UNCHANGED <<source, option, object>> /\ pc = "mark" /\ pc' = "link" /\ <<T, option[T]>> \in marked'
      BY <1>6, <1>p DEF Mark, T, Id
    <2>. QED  BY <1>t, <2>1 DEF FreshObject, Obj
  <1>7. CASE Link
    <2>1. T' = T /\ UNCHANGED <<source, option, object, marked>> /\ pc = "link" /\ pc' = "publish"
      BY <1>7, <1>p DEF Link, T
    <2>2. FreshObject(T, option[T]) /\ FreshObject(T, option[T])'
      BY <1>t, <2>1 DEF FreshObject
    <2>3. output'[T] # None /\ output'[T].mtime = clock /\ output'[T].own.content = source[T].content
      BY <1>7, LinkEffect
    <2>4. Second(object[T][option[T]].mtime) <= Second(clock)
      <3>1. object[T][option[T]].mtime \in 0 .. clock /\ project.ticks \in Nat \ {0}
        BY <1>t, <1>p, <2>2, Past, ProjectType DEF FreshObject
      <3>. QED  BY <3>1, <1>c, DivMonotonic DEF Second
    <2>5. Second(object[T][option[T]].mtime)' <= Second(output[T].mtime)'
      BY <1>p, <2>1, <2>3, <2>4 DEF Second
    <2>6. Linked(T)'
      BY <2>1, <2>2, <2>3, <2>5 DEF Linked, Outdated
    <2>. QED  BY <2>1, <2>6
  <1>8. CASE Start \/ UseOutput \/ Publish \/ CompileFails \/ LinkFails \/ Crash \/ Clean
    <2>1. pc' \in {"idle", "prepare"}
      BY <1>8 DEF Start, UseOutput, Publish, CompileFails, LinkFails, Crash, Clean, Advance
    <2>. QED  BY <2>1
  <1>9. CASE (\E t \in Built, c \in Contents : Edit(t, c)) \/ (\E t \in Built, o \in Options : EditBuild(t, o))
    BY <1>9 DEF Edit, EditBuild
  <1>10. CASE Tick \/ UNCHANGED vars
    BY <1>1, <1>10 DEF Tick, files, vars
  <1>. QED
    BY <1>2, <1>3, <1>4, <1>5, <1>6, <1>7, <1>8, <1>9, <1>10 DEF Next, Build

\* An output that passes the link test is current.
LEMMA UpToDateIsDone ==
  ASSUME BuildInv, pc = "link", UpToDate
  PROVE  Done(T)
  <1>t. TypeOK /\ OutputInv /\ RebuiltInv /\ PlaceInv
    BY DEF BuildInv
  <1>1. T \in Built /\ option[T] \in Options /\ project.faults \in BOOLEAN
    BY <1>t, ProjectType
  <1>2. FreshObject(T, option[T]) /\ output[T] # None /\ T \in published /\ ~changed
        /\ Second(object[T][option[T]].mtime) <= Second(output[T].mtime)
    BY <1>t DEF PlaceInv, UpToDate, Obj
  <1>3. CASE ~project.faults
    BY <1>t, <1>1, <1>2, <1>3 DEF RebuiltInv, Done, Linked
  <1>4. CASE project.ticks = 1
    <2>1. /\ clock \in Nat /\ source[T].mtime \in 0 .. clock
          /\ object[T][option[T]].mtime \in 0 .. clock /\ output[T].mtime \in 0 .. clock
      BY <1>t, <1>1, <1>2, Past DEF FreshObject
    <2>2. object[T][option[T]].mtime <= output[T].mtime
      BY <1>2, <1>4, <2>1 DEF Second
    <2>3. ~(output[T].mtime < source[T].mtime)
      BY <1>2, <2>1, <2>2 DEF FreshObject
    <2>. QED  BY <1>t, <1>1, <1>2, <2>3 DEF OutputInv, Outdated, Done, Linked
  <1>. QED  BY <1>1, <1>2, <1>3, <1>4 DEF TimesTell, Done, Linked

\* While a build that has nothing to do runs, it finds nothing to do.
LEMMA NothingFound ==
  ASSUME BuildInv, verdict = "ok"
  PROVE  /\ pc \in {"idle", "prepare", "link"}
         /\ Fresh /\ (pc = "link" => UpToDate)
  <1>1. TypeOK /\ DoneInv
    BY DEF BuildInv
  <1>2. Done(T)
    BY <1>1, ProjectType DEF DoneInv
  <1>. QED  BY <1>1, <1>2 DEF DoneInv, Done, Linked, FreshObject, Fresh, UpToDate, Id, Obj

LEMMA AdvanceDone ==
  ASSUME BuildInv, [Next]_vars, Advance,
         \A t \in Before \cup {T} : Done(t)',
         verdict = "ok" => \A t \in Built : Done(t)'
  PROVE  DoneInv'
  <1>t. TypeOK
    BY DEF BuildInv
  <1>1. at \in 1 .. Len(project.order) /\ Len(project.order) \in Nat /\ project' = project /\ Built' = Built
    BY <1>t, ProjectKept, ProjectType
  <1>b. Before \cup {T} = {project.order[k] : k \in 1 .. at}
    <2>1. 1 .. at = (1 .. at - 1) \cup {at}
      BY <1>1
    <2>. QED  BY <2>1 DEF Before, T
  <1>2. CASE at = Len(project.order)
    <2>1. pc' = "idle"
      BY <1>2 DEF Advance
    <2>2. \A t \in Built : t \in Before \cup {T}
      BY <1>t, <1>b, <1>2, ProjectType
    <2>. QED  BY <1>1, <2>1, <2>2 DEF DoneInv
  <1>3. CASE at # Len(project.order)
    <2>1. pc' = "prepare" /\ at' = at + 1 /\ verdict' = verdict
      BY <1>3 DEF Advance
    <2>2. Before' = Before \cup {T}
      <3>1. at' - 1 = at
        BY <1>1, <2>1
      <3>. QED  BY <1>1, <1>b, <3>1 DEF Before
    <2>. QED  BY <1>1, <2>1, <2>2 DEF DoneInv
  <1>. QED  BY <1>2, <1>3

LEMMA NextDoneInv == BuildInv /\ [Next]_vars => DoneInv'
  <1>. SUFFICES ASSUME BuildInv, [Next]_vars PROVE DoneInv'
    OBVIOUS
  <1>t. TypeOK /\ DoneInv /\ PlaceInv
    BY DEF BuildInv
  <1>p. /\ project' = project /\ Built' = Built /\ T \in Built
        /\ at \in 1 .. Len(project.order) /\ Len(project.order) \in Nat
    BY <1>t, ProjectKept, ProjectType
  <1>b. at' = at => Before' = Before
    BY <1>p DEF Before
  <1>e. Before \subseteq Built \ {T}
    <2>1. ASSUME NEW k \in 1 .. at - 1 PROVE project.order[k] \in Built \ {T}
      <3>1. k \in 1 .. Len(project.order) /\ k # at
        BY <1>p
      <3>2. project.order[k] # project.order[at]
        BY <1>t, <1>p, <3>1, ProjectType
      <3>3. project.order[k] \in Built
        BY <1>t, <3>1, ProjectType DEF Built
      <3>. QED  BY <3>2, <3>3 DEF T
    <2>. QED  BY <2>1 DEF Before
  <1>k. UNCHANGED files => \A t : Done(t) => Done(t)'
    BY <1>p, DoneKept DEF files
  <1>1. CASE Tick \/ UNCHANGED vars
    <2>1. UNCHANGED <<files, pc, at, changed, verdict>>
      BY <1>1 DEF Tick, files, vars
    <2>. QED  BY <1>t, <1>p, <1>b, <1>k, <2>1 DEF DoneInv
  <1>2. CASE Clean \/ (\E t \in Built, c \in Contents : Edit(t, c)) \/ (\E t \in Built, o \in Options : EditBuild(t, o))
    <2>1. pc' = "idle" /\ verdict' = "none"
      BY <1>2 DEF Clean, Edit, EditBuild
    <2>. QED  BY <2>1 DEF DoneInv
  <1>3. CASE CompileFails \/ LinkFails \/ Crash
    <2>1. pc' = "idle" /\ verdict' = "failed"
      BY <1>3 DEF CompileFails, LinkFails, Crash
    <2>. QED  BY <2>1 DEF DoneInv
  <1>4. CASE Start
    <2>1. UNCHANGED files /\ pc' = "prepare" /\ at' = 1 /\ verdict' = verdict
      BY <1>4 DEF Start
    <2>2. Before' = {}
      BY <2>1 DEF Before
    <2>. QED  BY <1>t, <1>p, <1>k, <2>1, <2>2 DEF DoneInv
  <1>5. CASE UseFresh
    <2>1. UNCHANGED files /\ pc = "prepare" /\ pc' = "link" /\ at' = at /\ verdict' = verdict /\ ~changed'
      BY <1>5 DEF UseFresh
    <2>. QED  BY <1>t, <1>p, <1>b, <1>k, <2>1 DEF DoneInv
  <1>6. CASE Restore \/ Invalidate \/ CompileOk \/ Mark \/ Link
    <2>1. /\ UNCHANGED <<source, option, published, at>> /\ pc # "idle"
          /\ \A t \in Built \ {T} : object'[t] = object[t] /\ output'[t] = output[t]
          /\ \A t \in Built \ {T} : \A o : <<t, o>> \in marked => <<t, o>> \in marked'
      BY <1>6, <1>t DEF Restore, Invalidate, CompileOk, Mark, Link, TypeOK, Id
    <2>2. verdict' = verdict /\ verdict # "ok"
      BY <1>6, NothingFound DEF Restore, Invalidate, CompileOk, Mark, Link
    <2>3. \A t \in Before : Done(t)'
      <3>1. ASSUME NEW t \in Built \ {T}, Done(t) PROVE Done(t)'
        BY <1>p, <2>1, <3>1, DoneKept
      <3>. QED  BY <1>t, <1>e, <2>1, <3>1 DEF DoneInv
    <2>. QED  BY <1>p, <1>b, <2>1, <2>2, <2>3 DEF DoneInv
  <1>7. CASE UseOutput
    <2>1. UNCHANGED files /\ pc = "link" /\ UpToDate /\ Advance
      BY <1>7 DEF UseOutput
    <2>2. \A t \in Before \cup {T} : Done(t)
      BY <1>t, <2>1, UpToDateIsDone DEF DoneInv
    <2>3. /\ \A t \in Before \cup {T} : Done(t)'
          /\ verdict = "ok" => \A t \in Built : Done(t)'
      BY <1>t, <1>k, <2>1, <2>2 DEF DoneInv
    <2>. QED  BY <2>1, <2>3, AdvanceDone
  <1>8. CASE Publish
    <2>1. /\ UNCHANGED <<source, option, object, marked, output>> /\ pc = "publish" /\ Advance
          /\ published' = published \cup {T}
      BY <1>8 DEF Publish
    <2>2. verdict # "ok"
      BY <2>1, NothingFound
    <2>3. \A t : (Linked(t) => Linked(t)') /\ (Done(t) => Done(t)')
      BY <1>p, <2>1, DoneKept
    <2>4. \A t \in {T} : Done(t)'
      <3>. SUFFICES ASSUME NEW t, t = T PROVE Done(t)'
        OBVIOUS
      <3>1. Linked(t)' /\ t \in published'
        BY <1>t, <2>1, <2>3 DEF PlaceInv
      <3>. QED  BY <3>1 DEF Done
    <2>5. \A t \in Before \cup {T} : Done(t)'
      BY <1>t, <2>1, <2>3, <2>4 DEF DoneInv
    <2>. QED  BY <2>1, <2>2, <2>5, AdvanceDone
  <1>. QED
    BY <1>1, <1>2, <1>3, <1>4, <1>5, <1>6, <1>7, <1>8 DEF Next, Build

LEMMA Invariance == Spec => []BuildInv
  <1>1. BuildInv /\ [Next]_vars => BuildInv'
    BY NextTypeOK, NextObjectInv, NextOutputInv, NextRebuiltInv, NextPlaceInv, NextDoneInv DEF BuildInv
  <1>. QED  BY InitBuildInv, <1>1, PTL DEF Spec

-----------------------------------------------------------------------------
\* The files of the targets, the build in progress and what the cache holds
\* stay of their types, and nothing is dated in the future
\* (compiler_build_target).
THEOREM TypeCorrect == Spec => []TypeOK
  BY Invariance, PTL DEF BuildInv

\* After a build that succeeded every output holds the target's object as the
\* sources and its option make it, and the libraries it is younger than, for
\* every project, history of edits of sources and build.c, cleans, failures
\* and kills; the premise TimesTell is part of the property.
THEOREM OwnCurrentHolds == Spec => []OwnCurrent
  <1>1. BuildInv => OwnCurrent
    <2>. SUFFICES ASSUME BuildInv, TimesTell, verdict = "ok", NEW t \in Built
                  PROVE  /\ output[t] # None
                         /\ output[t].own.option = option[t] => output[t].own = Own(t)
                         /\ \A l \in project.archives[t] :
                              output[l].mtime < output[t].mtime => output[t].archives[l] = output[l].own
      BY DEF OwnCurrent
    <2>t. TypeOK /\ OutputInv /\ DoneInv
      BY DEF BuildInv
    <2>1. output[t] # None /\ output[t].own.content = source[t].content
      BY <2>t DEF DoneInv, Done, Linked, Outdated
    <2>2. output[t].own \in Made
      BY <2>t, <2>1 DEF TypeOK
    <2>3. output[t].own.option = option[t] => output[t].own = Own(t)
      BY <2>1, <2>2 DEF Made, Own
    <2>. QED  BY <2>t, <2>1, <2>3 DEF OutputInv
  <1>. QED  BY Invariance, <1>1, PTL

\* A build of a project nothing was changed in compiles and links nothing,
\* however fast the clock ticks and whatever failed before.
THEOREM NothingToDoHolds == Spec => NothingToDo
  <1>1. BuildInv /\ [Next]_vars => [verdict = "ok" /\ pc # "idle" => pc' # "compile" /\ output' = output]_vars
    <2>. SUFFICES ASSUME BuildInv, Next, verdict = "ok", pc # "idle"
                  PROVE  pc' # "compile" /\ output' = output
      OBVIOUS
    <2>1. pc \in {"prepare", "link"} /\ Fresh /\ (pc = "link" => UpToDate)
      BY NothingFound
    <2>. QED
      BY <2>1 DEF Next, Build, Tick, Edit, EditBuild, Clean, Start, UseFresh, Restore, Invalidate, CompileOk, Mark,
           CompileFails, UseOutput, Link, Publish, LinkFails, Crash, Advance, files
  <1>. QED  BY Invariance, <1>1, PTL DEF Spec, NothingToDo
=============================================================================
