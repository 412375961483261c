---------------------------- MODULE WrapperProofs ----------------------------
(***************************************************************************)
(* Proofs about Wrapper for any commands, files and number of processes.   *)
(* PlaceInv says which commands and backends a place is of; DirInv that a  *)
(* configured directory serves whoever finds it, RanInv that what came of  *)
(* it is what was asked for; ConvertInv that a convert writes what it      *)
(* found, which nobody edits while it runs, and BridgeInv where.           *)
(***************************************************************************)
EXTENDS Wrapper, TLAPS

(* The inductive invariant.  What a process has promised when it succeeds: *)

Promised(p) == cmd[p].verb \in {"build", "test"} /\ backend[p].kind \in {"cmake", "make"}

\* What the place of a process says of its command and its backend.
PlaceInv ==
  \A p \in Process :
    /\ pc[p] \in {"configured", "configure", "generate", "build", "ctest"} =>
         cmd[p].verb \in {"build", "test"} /\ backend[p].kind = "cmake"
    /\ pc[p] = "generate" => dir[DirOf(p)].state # "none"
    /\ pc[p] = "make" => backend[p].kind = "make" /\ cmd[p].type = "debug"
    /\ pc[p] = "native" => ~Promised(p)
    /\ pc[p] = "clean" => cmd[p].verb = "clean"
    /\ pc[p] \in {"open", "write"} => cmd[p].verb = "convert"

\* The user waits for the commands, so a convert still means what it has found.
ConvertInv ==
  \A p \in Process :
    pc[p] \in {"open", "write"} => backend[p] # None /\ (cmd[p].file = "" => backend[p] = ByPriority)

\* A build directory is configured as everyone who uses it asks.
DirInv ==
  Unambiguous =>
    \A t \in Type :
      dir[t].state # "none" => dir[t].of.type = t /\ \A c \in Command : dir[t].of.cc = c.cc

\* What was built is what was asked for, also while the tests run.
RanInv ==
  Unambiguous =>
    \A p \in Process :
      pc[p] = "ctest" \/ (pc[p] = "done" /\ rc[p] = 0 /\ Promised(p)) =>
        ran[p] = Built(backend[p].source, cmd[p].type, cmd[p].cc)

\* A process killed without its cmake is no convert, and a convert that is
\* about to write finds a build.c: the one it created, or it was overtaken.
BridgeInv ==
  /\ \A p \in lone : pc[p] \in {"configure", "generate", "done"}
  /\ (\E p \in Process : pc[p] = "write") => buildc # None
  /\ WritesOwnFile

WrapperInv == TypeOK /\ PlaceInv /\ ConvertInv /\ DirInv /\ RanInv /\ BridgeInv

LEMMA FirstPresentIs ==
  ASSUME NEW a, NEW b, NEW c, FirstPresent(a, b, c) # ""
  PROVE  FirstPresent(a, b, c) \in {a, b, c} \cap present
  BY DEF FirstPresent

LEMMA BackendsAre ==
  ASSUME NEW b \in Backends
  PROVE  /\ b # Torn
         /\ b.kind = "cmake" => b.source \in File \cap CMakeFile
         /\ b.kind = "make" => b.source \in File \ CMakeFile /\ b = Backend("make", b.source)
  <1>1. CASE b \in {None, Native}
    <2>1. b.kind \in {"none", "native"} /\ (b.kind = "native" => b.source = "build.c")
      <3>1. /\ None.kind = "none"
            /\ Native.kind = "native" /\ Native.source = "build.c"
        BY DEF Backend, None, Native
      <3>. QED  BY <1>1, <3>1
    <2>2. Torn.kind = "native" /\ Torn.source = ""
      BY DEF Backend, Torn
    <2>. QED  BY <2>1, <2>2
  <1>2. CASE \E f \in File : b = Backend(Kind(f), f)
    <2>1. PICK f \in File : b = Backend(Kind(f), f)
      BY <1>2
    <2>2. b.kind = Kind(f) /\ b.source = f
      BY <2>1 DEF Backend
    <2>3. Kind(f) \in {"cmake", "make"} /\ (Kind(f) = "cmake" <=> f \in CMakeFile)
      BY DEF Kind
    <2>4. Torn.kind = "native"
      BY DEF Torn, Backend
    <2>. QED  BY <2>1, <2>2, <2>3, <2>4
  <1>. QED  BY <1>1, <1>2 DEF Backends

LEMMA DefaultMakefileIs ==
  DefaultMakefile # "" =>
    /\ DefaultMakefile \in DefaultMakefiles \cap present
    /\ Kind(DefaultMakefile) = "make"
  <1>1. DefaultMakefile # "" => DefaultMakefile \in DefaultMakefiles \cap present
    BY FirstPresentIs DEF DefaultMakefile, DefaultMakefiles
  <1>. QED  BY <1>1 DEF Kind, CMakeFile, DefaultMakefiles

LEMMA ByPriorityType == present \subseteq File => ByPriority \in Backends
  BY DefaultMakefileIs DEF ByPriority, Backends, Kind, CMakeFile

LEMMA DetectedType == TypeOK => Detected \in Backends
  BY ByPriorityType DEF TypeOK, Detected, ParseBridge, Backends

LEMMA ConvertSourceIs ==
  ASSUME present \subseteq File, NEW f \in File \cup {""}
  PROVE  ConvertSource(f) \in Backends /\ (f = "" => ConvertSource(f) = ByPriority)
  <1>1. CASE f # ""
    BY <1>1 DEF ConvertSource, Backends
  <1>2. CASE f = ""
    <2>1. ConvertSource(f) = ByPriority
      BY <1>2, Zenon DEF ConvertSource, ByPriority, Kind, CMakeFile
    <2>. QED  BY <2>1, ByPriorityType
  <1>. QED  BY <1>1, <1>2

\* A makefile make is given is the one it reads when there is one to choose.
LEMMA MakeReadsIs ==
  ASSUME TypeOK, Unambiguous, NEW f \in File, MakeReads(f) \in present
  PROVE  MakeReads(f) = f
  <1>1. CASE f \notin DefaultMakefiles
    BY <1>1 DEF MakeReads
  <1>2. CASE f \in DefaultMakefiles
    <2>1. MakeReads(f) \in DefaultMakefiles \cap File
      <3>1. MakeReads(f) = FirstPresent("GNUmakefile", "makefile", "Makefile")
        BY <1>2 DEF MakeReads
      <3>2. present \subseteq File
        BY DEF TypeOK
      <3>3. MakeReads(f) \in {"GNUmakefile", "makefile", "Makefile", ""}
        BY <3>1 DEF FirstPresent
      <3>4. MakeReads(f) # ""
        BY <3>2, CommandAssumption
      <3>. QED  BY <3>1, <3>2, <3>3, <3>4 DEF DefaultMakefiles
    <2>. QED  BY <1>2, <2>1 DEF Unambiguous
  <1>. QED  BY <1>1, <1>2

LEMMA WrapperInit == Init => WrapperInv
  <1>. SUFFICES ASSUME Init PROVE WrapperInv
    OBVIOUS
  <1>. USE DEF Init
  <1>1. Nothing \in Build
    BY DEF Nothing, Built, Build, Type, Cc
  <1>2. Unconfigured \in [state : {"none", "cached", "generated"}, of : Build] /\ Unconfigured.state = "none"
    BY <1>1 DEF Unconfigured
  <1>3. (CHOOSE c \in Command : TRUE) \in Command
    BY CommandAssumption
  <1>4. dir \in [Type -> [state : {"none", "cached", "generated"}, of : Build]] /\ \A t \in Type : dir[t].state = "none"
    BY <1>2
  <1>5. /\ cmd \in [Process -> Command] /\ ran \in [Process -> Build]
        /\ \A p \in Process : pc[p] = "idle"
    BY <1>1, <1>3
  <1>6. buildc \in Backends \cup {Torn} /\ backend \in [Process -> Backends]
    BY DEF Backends
  <1>7. TypeOK
    <2>1. pc \in [Process -> Idle] /\ rc \in [Process -> 0..2]
      BY DEF Idle
    <2>2. commands \in 0..MaxCommands /\ edits \in 0..MaxEdits
      <3>1. MaxCommands \in Nat /\ MaxEdits \in Nat
        BY CommandAssumption
      <3>. QED  BY <3>1
    <2>. QED  BY <1>4, <1>5, <1>6, <2>1, <2>2 DEF TypeOK
  <1>. QED  BY <1>4, <1>5, <1>7 DEF WrapperInv, PlaceInv, ConvertInv, DirInv, RanInv, BridgeInv, WritesOwnFile

\* The step of a process, apart from where it is.
LEMMA StepTypeOK ==
  ASSUME WrapperInv, NEW p \in Process, Step(p)
  PROVE  TypeOK'
  <1>. USE DEF WrapperInv, TypeOK
  <1>. DEFINE Place == Idle \cup {"main", "native", "configured", "configure", "generate", "build", "ctest",
                                  "clean", "make", "open", "write"}
  <1>n. Nothing \in Build /\ None \in Backends
    BY DEF Nothing, Built, Build, Type, Cc, Backends
  <1>c. /\ cmd[p] \in Command /\ cmd[p].type \in Type /\ cmd[p].cc \in Cc /\ cmd[p].file \in File \cup {""}
        /\ (CHOOSE c \in Command : TRUE) \in Command /\ MaxCommands \in Nat
    <2>1. cmd[p] \in Command
      OBVIOUS
    <2>2. (CHOOSE c \in Command : TRUE) \in Command
      BY <2>1
    <2>3. MaxCommands \in Nat /\ Command \subseteq [verb : Verb, type : Type, cc : Cc, force : BOOLEAN, file : File \cup {""}, valid : BOOLEAN]
      BY CommandAssumption
    <2>. HIDE DEF WrapperInv, TypeOK
    <2>. QED  BY <2>1, <2>2, <2>3
  <1>d. DirOf(p) \in Type
    BY <1>c DEF DirOf, Type
  <1>go. \A s \in Place : Go(p, s) => pc' \in [Process -> Place]
    BY DEF Go
  <1>ex. \A n \in 0..2 : Exit(p, n) => pc' \in [Process -> Place] /\ rc' \in [Process -> 0..2]
    BY <1>go DEF Exit, Idle
  <1>1. CASE Start(p)
    <2>1. /\ cmd' \in [Process -> Command] /\ backend' \in [Process -> Backends]
          /\ ran' \in [Process -> Build] /\ rc' \in [Process -> 0..2]
      BY <1>1, <1>n DEF Start
    <2>2. pc' \in [Process -> Place]
      BY <1>1, <1>go DEF Start
    <2>3. commands' \in 0..MaxCommands
      <3>1. commands \in 0..MaxCommands /\ commands < MaxCommands /\ commands' = commands + 1
        BY <1>1 DEF Start
      <3>2. MaxCommands \in Nat
        BY <1>c
      <3>. HIDE DEF WrapperInv, TypeOK
      <3>. QED  BY <3>1, <3>2
    <2>. QED  BY <1>1, <2>1, <2>2, <2>3 DEF Start
  <1>2. CASE Dispatch(p)
    <2>1. backend' \in [Process -> Backends]
      BY <1>2, DetectedType DEF Dispatch
    <2>2. pc' \in [Process -> Place] /\ rc' \in [Process -> 0..2]
      BY <1>2, <1>go, <1>ex DEF Dispatch
    <2>. QED  BY <1>2, <2>1, <2>2 DEF Dispatch, UnchangedDirectory
  <1>3. CASE RunNative(p) \/ CTest(p) \/ CMakeClean(p)
    BY <1>3, <1>ex DEF RunNative, CTest, CMakeClean, UnchangedDirectory
  <1>4. CASE Configured(p)
    BY <1>4, <1>go DEF Configured, UnchangedDirectory
  <1>5. CASE Configure(p)
    <2>1. pc' \in [Process -> Place] /\ rc' \in [Process -> 0..2]
      BY <1>5, <1>go, <1>ex DEF Configure
    <2>2. backend[p].source \in File \cap CMakeFile
      BY <1>5, BackendsAre DEF Configure, PlaceInv
    <2>3. Built(backend[p].source, cmd[p].type, cmd[p].cc) \in Build
      BY <1>c, <2>2 DEF Built, Build
    <2>4. /\ dir' \in [Type -> [state : {"none", "cached", "generated"}, of : Build]]
          /\ \A t \in Type : dir'[t].state # "none" => dir'[t].of.source \in File \cap CMakeFile
      <3>1. \/ UNCHANGED dir
            \/ dir' = [dir EXCEPT ![DirOf(p)] =
                         [state |-> "cached", of |-> Built(backend[p].source, cmd[p].type, cmd[p].cc)]]
        BY <1>5 DEF Configure
      <3>2. Built(backend[p].source, cmd[p].type, cmd[p].cc).source = backend[p].source
        BY DEF Built
      <3>. QED  BY <1>d, <2>2, <2>3, <3>1, <3>2
    <2>. QED  BY <1>5, <2>1, <2>4 DEF Configure, UnchangedDirectory
  <1>6. CASE Generate(p)
    <2>1. /\ dir' \in [Type -> [state : {"none", "cached", "generated"}, of : Build]]
          /\ \A t \in Type : dir'[t].state # "none" => dir'[t].of.source \in File \cap CMakeFile
      BY <1>6, <1>d DEF Generate, PlaceInv
    <2>2. pc' \in [Process -> Place] /\ rc' \in [Process -> 0..2]
      BY <1>6, <1>go, <1>ex DEF Generate
    <2>. QED  BY <1>6, <2>1, <2>2 DEF Generate, UnchangedDirectory
  <1>7. CASE CMakeBuild(p)
    <2>1. pc' \in [Process -> Place] /\ rc' \in [Process -> 0..2]
      BY <1>7, <1>go, <1>ex DEF CMakeBuild
    <2>2. ran' \in [Process -> Build]
      BY <1>7, <1>d DEF CMakeBuild
    <2>. QED  BY <1>7, <2>1, <2>2 DEF CMakeBuild, UnchangedDirectory
  <1>8. CASE Make(p)
    <2>1. pc' \in [Process -> Place] /\ rc' \in [Process -> 0..2]
      BY <1>8, <1>ex DEF Make
    <2>2. \A f \in File : Built(f, "debug", cmd[p].cc) \in Build
      BY <1>c DEF Built, Build, Type
    <2>3. ran' \in [Process -> Build]
      BY <1>8, <2>2 DEF Make
    <2>. QED  BY <1>8, <2>1, <2>3 DEF Make, UnchangedDirectory
  <1>9. CASE Choose(p)
    <2>1. pc' \in [Process -> Place] /\ rc' \in [Process -> 0..2]
      <3>1. Exit(p, 2) \/ (Go(p, "open") /\ UNCHANGED rc)
        BY <1>9, Zenon DEF Choose
      <3>. QED  BY <3>1, <1>go, <1>ex
    <2>2. backend' \in [Process -> Backends]
      BY <1>9, <1>c, ConvertSourceIs DEF Choose
    <2>. QED  BY <1>9, <2>1, <2>2 DEF Choose, UnchangedDirectory
  <1>10. CASE OpenBridge(p)
    <2>1. pc' \in [Process -> Place] /\ rc' \in [Process -> 0..2]
      BY <1>10, <1>go, <1>ex DEF OpenBridge
    <2>. QED  BY <1>10, <2>1 DEF OpenBridge
  <1>11. CASE WriteBridge(p)
    BY <1>11, <1>ex DEF WriteBridge
  <1>12. CASE Kill(p)
    <2>1. /\ cmd' \in [Process -> Command] /\ backend' \in [Process -> Backends]
          /\ ran' \in [Process -> Build]
      BY <1>12, <1>n, <1>c DEF Kill
    <2>2. pc' \in [Process -> Place]
      BY <1>12, <1>go DEF Kill, Idle
    <2>. QED  BY <1>12, <2>1, <2>2 DEF Kill
  <1>13. CASE KillWrapper(p)
    BY <1>13 DEF KillWrapper, UnchangedDirectory
  <1>. QED
    BY <1>1, <1>2, <1>3, <1>4, <1>5, <1>6, <1>7, <1>8, <1>9, <1>10, <1>11, <1>12, <1>13 DEF Step

\* A step leaves the other processes alone.
LEMMA StepFrame ==
  ASSUME TypeOK, NEW p \in Process, Step(p), NEW q \in Process, q # p
  PROVE  pc'[q] = pc[q] /\ cmd'[q] = cmd[q] /\ backend'[q] = backend[q] /\ ran'[q] = ran[q] /\ rc'[q] = rc[q]
  <1>. USE DEF TypeOK, UnchangedDirectory
  <1>go. \A s : Go(p, s) => pc'[q] = pc[q]
    BY DEF Go
  <1>ex. \A n : Exit(p, n) => pc'[q] = pc[q] /\ rc'[q] = rc[q]
    BY <1>go DEF Exit
  <1>1. CASE Start(p) \/ Kill(p) \/ KillWrapper(p)
    BY <1>1, <1>go DEF Start, Kill, KillWrapper
  <1>2. CASE Dispatch(p)
    BY <1>2, <1>go, <1>ex DEF Dispatch
  <1>3. CASE RunNative(p) \/ CTest(p) \/ CMakeClean(p) \/ Configured(p) \/ Generate(p)
    BY <1>3, <1>go, <1>ex DEF RunNative, CTest, CMakeClean, Configured, Generate
  <1>4. CASE Configure(p)
    BY <1>4, <1>go, <1>ex DEF Configure
  <1>5. CASE CMakeBuild(p)
    BY <1>5, <1>go, <1>ex DEF CMakeBuild
  <1>6. CASE Make(p)
    BY <1>6, <1>ex DEF Make
  <1>7. CASE Choose(p)
    <2>1. Exit(p, 2) \/ (Go(p, "open") /\ UNCHANGED rc)
      BY <1>7, Zenon DEF Choose
    <2>. QED  BY <1>7, <2>1, <1>go, <1>ex DEF Choose
  <1>8. CASE OpenBridge(p) \/ WriteBridge(p)
    BY <1>8, <1>go, <1>ex DEF OpenBridge, WriteBridge
  <1>. QED
    BY <1>1, <1>2, <1>3, <1>4, <1>5, <1>6, <1>7, <1>8 DEF Step

\* A directory, once configured, stays so, and is configured by those who ask.
LEMMA StepDir ==
  ASSUME TypeOK, NEW p \in Process, Step(p)
  PROVE  /\ present' = present
         /\ \A t \in Type :
              \/ dir'[t] = dir[t]
              \/ t = DirOf(p) /\ pc[p] = "configure" /\ dir'[t].state # "none"
                 /\ dir'[t].of = Built(backend[p].source, cmd[p].type, cmd[p].cc)
              \/ dir'[t].state # "none" /\ dir'[t].of = dir[t].of /\ pc[p] = "generate" /\ t = DirOf(p)
  <1>. USE DEF TypeOK, UnchangedDirectory
  <1>1. CASE Configure(p)
    BY <1>1 DEF Configure
  <1>2. CASE Generate(p)
    BY <1>2 DEF Generate
  <1>3. CASE ~Configure(p) /\ ~Generate(p)
    BY <1>3 DEF Step, Start, Dispatch, RunNative, Configured, CMakeBuild, CTest, CMakeClean, Make, Choose,
                OpenBridge, WriteBridge, Kill, KillWrapper
  <1>. QED  BY <1>1, <1>2, <1>3

LEMMA StepPlaceInv ==
  ASSUME WrapperInv, NEW p \in Process, Step(p)
  PROVE  PlaceInv'
  <1>. SUFFICES ASSUME NEW q \in Process
                PROVE  /\ pc'[q] \in {"configured", "configure", "generate", "build", "ctest"} =>
                            cmd'[q].verb \in {"build", "test"} /\ backend'[q].kind = "cmake"
                       /\ pc'[q] = "generate" => dir'[DirOf(q)'].state # "none"
                       /\ pc'[q] = "make" => backend'[q].kind = "make" /\ cmd'[q].type = "debug"
                       /\ pc'[q] = "native" => ~Promised(q)'
                       /\ pc'[q] = "clean" => cmd'[q].verb = "clean"
                       /\ pc'[q] \in {"open", "write"} => cmd'[q].verb = "convert"
    BY DEF PlaceInv
  <1>t. TypeOK /\ PlaceInv
    BY DEF WrapperInv
  <1>d. cmd[q].type \in Type /\ DirOf(q) \in Type
    <2>1. cmd[q] \in Command
      BY <1>t DEF TypeOK
    <2>. QED  BY <2>1, CommandAssumption DEF DirOf, Type
  <1>1. CASE q # p
    <2>1. pc'[q] = pc[q] /\ cmd'[q] = cmd[q] /\ backend'[q] = backend[q]
      BY <1>1, <1>t, StepFrame
    <2>2. DirOf(q)' = DirOf(q) /\ (Promised(q)' <=> Promised(q))
      BY <2>1 DEF DirOf, Promised
    <2>3. dir[DirOf(q)].state # "none" => dir'[DirOf(q)].state # "none"
      BY <1>t, <1>d, StepDir
    <2>. QED  BY <1>t, <2>1, <2>2, <2>3 DEF PlaceInv
  <1>2. CASE q = p
    <2>. USE <1>t, <1>2 DEF TypeOK, UnchangedDirectory
    <2>go. \A s : Go(p, s) => pc'[p] = s
      BY DEF Go
    <2>ex. \A n : Exit(p, n) => pc'[p] = "done"
      BY <2>go DEF Exit
    <2>1. CASE Start(p) \/ Kill(p)
      <3>1. pc'[p] \in {"main", "idle"}
        BY <2>1, <2>go DEF Start, Kill
      <3>. QED  BY <3>1
    <2>2. CASE Dispatch(p)
      <3>1. backend'[p] = Detected /\ cmd' = cmd
        BY <2>2 DEF Dispatch
      <3>2. \/ Detected.kind = "native" /\ pc'[p] = "native"
            \/ Detected.kind = "cmake" /\ cmd[p].verb = "clean" /\ pc'[p] = "clean"
            \/ Detected.kind = "cmake" /\ cmd[p].verb \in {"build", "test"} /\ pc'[p] = "configured"
            \/ Detected.kind = "make" /\ ~Refused(p, "make") /\ pc'[p] = "make"
            \/ pc'[p] = "done"
            \/ pc'[p] = "native" /\ ~(cmd[p].verb \in {"build", "test"} /\ Detected.kind \in {"cmake", "make"})
        BY <2>2, <2>go, <2>ex DEF Dispatch
      <3>3. ~Refused(p, "make") => cmd[p].type = "debug"
        BY <1>d DEF Refused, Type
      <3>. QED  BY <3>1, <3>2, <3>3 DEF Promised
    <2>3. CASE RunNative(p) \/ CTest(p) \/ CMakeClean(p) \/ Make(p) \/ WriteBridge(p)
      <3>1. pc'[p] = "done"
        BY <2>3, <2>ex DEF RunNative, CTest, CMakeClean, Make, WriteBridge
      <3>. QED  BY <3>1
    <2>4. CASE Configured(p)
      BY <2>4, <2>go DEF Configured, PlaceInv
    <2>5. CASE Configure(p)
      <3>1. cmd' = cmd /\ backend' = backend /\ DirOf(p)' = DirOf(p)
        BY <2>5 DEF Configure, DirOf
      <3>2. pc'[p] = "done" \/ (pc'[p] = "generate" /\ dir'[DirOf(p)].state = "cached")
        BY <2>5, <2>go, <2>ex, <1>d DEF Configure
      <3>. QED  BY <2>5, <3>1, <3>2 DEF Configure, PlaceInv
    <2>6. CASE Generate(p)
      BY <2>6, <2>go, <2>ex DEF Generate, PlaceInv
    <2>10. CASE KillWrapper(p)
      BY <2>10 DEF KillWrapper, PlaceInv, DirOf, Promised
    <2>7. CASE CMakeBuild(p)
      <3>1. pc'[p] \in {"ctest", "done"} /\ cmd' = cmd /\ backend' = backend
        BY <2>7, <2>go, <2>ex DEF CMakeBuild
      <3>. QED  BY <2>7, <3>1 DEF CMakeBuild, PlaceInv
    <2>8. CASE Choose(p)
      <3>1. Exit(p, 2) \/ Go(p, "open")
        BY <2>8, Zenon DEF Choose
      <3>. QED  BY <2>8, <3>1, <2>go, <2>ex DEF Choose
    <2>9. CASE OpenBridge(p)
      <3>1. pc'[p] \in {"done", "write"} /\ cmd' = cmd
        BY <2>9, <2>go, <2>ex DEF OpenBridge
      <3>. QED  BY <2>9, <3>1 DEF OpenBridge, PlaceInv
    <2>. QED
      BY <2>1, <2>2, <2>3, <2>4, <2>5, <2>6, <2>7, <2>8, <2>9, <2>10 DEF Step
  <1>. QED  BY <1>1, <1>2

LEMMA StepConvertInv ==
  ASSUME WrapperInv, NEW p \in Process, Step(p)
  PROVE  ConvertInv'
  <1>t. TypeOK /\ ConvertInv
    BY DEF WrapperInv
  <1>. SUFFICES ASSUME NEW q \in Process, pc'[q] \in {"open", "write"}
                PROVE  backend'[q] # None /\ (cmd'[q].file = "" => backend'[q] = ByPriority')
    BY DEF ConvertInv
  <1>b. ByPriority' = ByPriority
    <2>1. present' = present
      BY <1>t, StepDir
    <2>. QED  BY <2>1 DEF ByPriority, DefaultMakefile, FirstPresent
  <1>1. CASE q # p
    BY <1>1, <1>b, <1>t, StepFrame DEF ConvertInv
  <1>2. CASE q = p
    <2>. USE <1>t, <1>2 DEF TypeOK, UnchangedDirectory
    <2>go. \A s : Go(p, s) => pc'[p] = s
      BY DEF Go
    <2>ex. \A n : Exit(p, n) => pc'[p] = "done"
      BY <2>go DEF Exit
    <2>1. CASE Choose(p)
      <3>1. cmd[p].file \in File \cup {""} /\ cmd' = cmd /\ backend'[p] = ConvertSource(cmd[p].file)
        <4>1. cmd[p] \in Command
          OBVIOUS
        <4>. QED  BY <2>1, <4>1, CommandAssumption DEF Choose
      <3>2. Exit(p, 2) \/ ConvertSource(cmd[p].file) # None
        BY <2>1, Zenon DEF Choose
      <3>. QED  BY <3>1, <3>2, <2>ex, <1>b, ConvertSourceIs
    <2>2. CASE OpenBridge(p)
      BY <2>2, <1>b DEF OpenBridge, ConvertInv
    <2>3. CASE Dispatch(p)
      BY <2>3, <2>go, <2>ex DEF Dispatch
    <2>4. CASE Start(p) \/ Kill(p) \/ Configured(p) \/ Generate(p)
      BY <2>4, <2>go, <2>ex DEF Start, Kill, Configured, Generate
    <2>5. CASE RunNative(p) \/ CTest(p) \/ CMakeClean(p) \/ Make(p) \/ WriteBridge(p)
      BY <2>5, <2>ex DEF RunNative, CTest, CMakeClean, Make, WriteBridge
    <2>6. CASE Configure(p) \/ CMakeBuild(p)
      BY <2>6, <2>go, <2>ex DEF Configure, CMakeBuild
    <2>7. CASE KillWrapper(p)
      BY <2>7 DEF KillWrapper
    <2>. QED
      BY <2>1, <2>2, <2>3, <2>4, <2>5, <2>6, <2>7 DEF Step
  <1>. QED  BY <1>1, <1>2

LEMMA StepDirInv ==
  ASSUME WrapperInv, NEW p \in Process, Step(p)
  PROVE  DirInv'
  <1>t. TypeOK /\ PlaceInv /\ DirInv
    BY DEF WrapperInv
  <1>. SUFFICES ASSUME Unambiguous, NEW t \in Type, dir'[t].state # "none"
                PROVE  dir'[t].of.type = t /\ \A c \in Command : dir'[t].of.cc = c.cc
    BY DEF DirInv, Unambiguous
  <1>c. cmd[p] \in Command /\ DirOf(p) = cmd[p].type /\ \A c \in Command : c.cc = cmd[p].cc
    BY <1>t DEF TypeOK, DirOf, Unambiguous
  <1>1. CASE dir'[t] = dir[t]
    BY <1>1, <1>t DEF DirInv
  <1>2. CASE t = DirOf(p) /\ dir'[t].of = Built(backend[p].source, cmd[p].type, cmd[p].cc)
    BY <1>2, <1>c DEF Built
  <1>3. CASE dir'[t].of = dir[t].of /\ pc[p] = "generate" /\ t = DirOf(p)
    BY <1>3, <1>t DEF DirInv, PlaceInv
  <1>. QED  BY <1>t, <1>1, <1>2, <1>3, StepDir

\* The one CMake configuration there is is the one a directory was configured from.
LEMMA DirIsAsked ==
  ASSUME WrapperInv, Unambiguous, NEW p \in Process, pc[p] = "build", dir[DirOf(p)].state # "none"
  PROVE  dir[DirOf(p)].of = Built(backend[p].source, cmd[p].type, cmd[p].cc)
  <1>t. TypeOK /\ PlaceInv /\ DirInv
    BY DEF WrapperInv
  <1>1. /\ cmd[p] \in Command /\ cmd[p].type \in Type /\ DirOf(p) = cmd[p].type
        /\ dir[DirOf(p)].of.type = cmd[p].type /\ dir[DirOf(p)].of.cc = cmd[p].cc
    <2>1. cmd[p] \in Command
      BY <1>t DEF TypeOK
    <2>2. cmd[p].type \in Type
      BY <2>1, CommandAssumption
    <2>3. DirOf(p) = cmd[p].type
      BY DEF DirOf, Unambiguous
    <2>. QED  BY <1>t, <2>1, <2>2, <2>3 DEF DirInv
  <1>2. dir[DirOf(p)].of.source = backend[p].source
    <2>1. backend[p] \in Backends /\ backend[p].kind = "cmake"
      BY <1>t DEF TypeOK, PlaceInv
    <2>2. backend[p].source \in File \cap CMakeFile
      BY <2>1, BackendsAre
    <2>3. dir[DirOf(p)].of.source \in File \cap CMakeFile
      BY <1>t, <1>1 DEF TypeOK
    <2>. QED  BY <2>2, <2>3 DEF Unambiguous
  <1>3. dir[DirOf(p)].of \in Build
    BY <1>t, <1>1 DEF TypeOK
  <1>. QED  BY <1>1, <1>2, <1>3 DEF Build, Built

LEMMA StepRanInv ==
  ASSUME WrapperInv, NEW p \in Process, Step(p)
  PROVE  RanInv'
  <1>t. TypeOK /\ PlaceInv /\ RanInv
    BY DEF WrapperInv
  <1>. SUFFICES ASSUME Unambiguous, NEW q \in Process,
                       pc'[q] = "ctest" \/ (pc'[q] = "done" /\ rc'[q] = 0 /\ Promised(q)')
                PROVE  ran'[q] = Built(backend'[q].source, cmd'[q].type, cmd'[q].cc)
    BY DEF RanInv, Unambiguous
  <1>1. CASE q # p
    <2>1. /\ pc'[q] = pc[q] /\ cmd'[q] = cmd[q] /\ backend'[q] = backend[q] /\ ran'[q] = ran[q]
          /\ rc'[q] = rc[q]
      BY <1>1, <1>t, StepFrame
    <2>. QED  BY <1>t, <2>1 DEF RanInv, Promised
  <1>2. CASE q = p
    <2>. USE <1>t, <1>2 DEF TypeOK, UnchangedDirectory
    <2>go. \A s : Go(p, s) => pc'[p] = s
      BY DEF Go
    <2>ex. \A n : Exit(p, n) => pc'[p] = "done" /\ rc'[p] = n
      BY <2>go DEF Exit
    <2>1. CASE Start(p) \/ Kill(p) \/ Configured(p) \/ Generate(p)
      BY <2>1, <2>go, <2>ex DEF Start, Kill, Configured, Generate
    <2>12. CASE KillWrapper(p)
      BY <2>12 DEF KillWrapper
    <2>2. CASE Dispatch(p)
      <3>1. (pc'[p] # "done" /\ pc'[p] # "ctest") \/ rc'[p] = 2
        BY <2>2, <2>go, <2>ex DEF Dispatch
      <3>2. pc'[p] # "ctest"
        BY <2>2, <2>go, <2>ex DEF Dispatch
      <3>. QED  BY <3>1, <3>2
    <2>3. CASE RunNative(p)
      BY <2>3, <2>ex DEF RunNative, PlaceInv, Promised
    <2>4. CASE Configure(p)
      <3>1. pc'[p] = "generate" \/ (pc'[p] = "done" /\ rc'[p] = 1)
        BY <2>4, <2>go, <2>ex DEF Configure
      <3>. QED  BY <3>1
    <2>5. CASE CMakeBuild(p)
      <3>1. CASE dir[DirOf(p)].state = "generated" /\ dir[DirOf(p)].of.source \in present \ broken
        <4>1. ran'[p] = dir[DirOf(p)].of /\ cmd' = cmd /\ backend' = backend /\ pc[p] = "build"
          BY <2>5, <3>1 DEF CMakeBuild
        <4>. QED  BY <3>1, <4>1, DirIsAsked
      <3>2. CASE ~(dir[DirOf(p)].state = "generated" /\ dir[DirOf(p)].of.source \in present \ broken)
        BY <2>5, <3>2, <2>ex DEF CMakeBuild
      <3>. QED  BY <3>1, <3>2
    <2>6. CASE CTest(p)
      BY <2>6, <2>ex DEF CTest, RanInv
    <2>7. CASE CMakeClean(p)
      BY <2>7, <2>ex DEF CMakeClean, PlaceInv, Promised
    <2>8. CASE Make(p)
      <3>1. CASE MakeReads(backend[p].source) \in present \ broken
        <4>1. /\ ran'[p] = Built(MakeReads(backend[p].source), "debug", cmd[p].cc)
              /\ cmd' = cmd /\ backend' = backend /\ pc[p] = "make"
          BY <2>8, <3>1 DEF Make
        <4>2. backend[p].kind = "make" /\ cmd[p].type = "debug" /\ backend[p] \in Backends
          BY <4>1 DEF PlaceInv
        <4>3. backend[p].source \in File
          BY <4>2, BackendsAre
        <4>4. MakeReads(backend[p].source) = backend[p].source
          BY <3>1, <4>3, MakeReadsIs
        <4>. QED  BY <4>1, <4>2, <4>4
      <3>2. CASE MakeReads(backend[p].source) \notin present \ broken
        BY <2>8, <3>2, <2>ex DEF Make
      <3>. QED  BY <3>1, <3>2
    <2>9. CASE Choose(p)
      <3>1. Exit(p, 2) \/ Go(p, "open")
        BY <2>9, Zenon DEF Choose
      <3>. QED  BY <3>1, <2>go, <2>ex
    <2>10. CASE OpenBridge(p)
      <3>1. (pc'[p] = "done" /\ rc'[p] = 1) \/ pc'[p] = "write"
        BY <2>10, <2>go, <2>ex DEF OpenBridge
      <3>. QED  BY <3>1
    <2>11. CASE WriteBridge(p)
      <3>1. cmd' = cmd /\ cmd[p].verb = "convert" /\ pc'[p] = "done"
        BY <2>11, <2>ex DEF WriteBridge, PlaceInv
      <3>. QED  BY <3>1 DEF Promised
    <2>. QED
      BY <2>1, <2>2, <2>3, <2>4, <2>5, <2>6, <2>7, <2>8, <2>9, <2>10, <2>11, <2>12 DEF Step
  <1>. QED  BY <1>1, <1>2

\* Steps that open and write nothing.
LEMMA StepBridge ==
  ASSUME TypeOK, NEW p \in Process, Step(p), ~OpenBridge(p), ~WriteBridge(p)
  PROVE  /\ buildc' = buildc /\ raced' \in {raced, raced \ {p}}
         /\ pc'[p] # "write" \/ pc'[p] = pc[p]
         /\ pc[p] = "write" => pc'[p] # "write"
  <1>. USE DEF TypeOK, UnchangedDirectory
  <1>go. \A s : Go(p, s) => pc'[p] = s
    BY DEF Go
  <1>ex. \A n : Exit(p, n) => pc'[p] = "done"
    BY <1>go DEF Exit
  <1>1. CASE Start(p) \/ Kill(p)
    BY <1>1, <1>go DEF Start, Kill
  <1>2. CASE Dispatch(p)
    BY <1>2, <1>go, <1>ex DEF Dispatch
  <1>3. CASE RunNative(p) \/ CTest(p) \/ CMakeClean(p) \/ Configured(p) \/ Make(p)
    BY <1>3, <1>go, <1>ex DEF RunNative, CTest, CMakeClean, Configured, Make
  <1>4. CASE Configure(p) \/ Generate(p) \/ CMakeBuild(p)
    BY <1>4, <1>go, <1>ex DEF Configure, Generate, CMakeBuild
  <1>5. CASE Choose(p)
    <2>1. Exit(p, 2) \/ Go(p, "open")
      BY <1>5, Zenon DEF Choose
    <2>. QED  BY <1>5, <2>1, <1>go, <1>ex DEF Choose
  <1>6. CASE KillWrapper(p)
    BY <1>6 DEF KillWrapper
  <1>. QED  BY <1>1, <1>2, <1>3, <1>4, <1>5, <1>6 DEF Step

\* Who goes on alone.
LEMMA StepLone ==
  ASSUME WrapperInv, NEW p \in Process, Step(p)
  PROVE  \A q \in lone' : pc'[q] \in {"configure", "generate", "done"}
  <1>t. TypeOK /\ \A q \in lone : pc[q] \in {"configure", "generate", "done"}
    BY DEF WrapperInv, BridgeInv
  <1>. USE DEF TypeOK
  <1>go. \A s : Go(p, s) => pc'[p] = s
    BY <1>t DEF Go
  <1>ex. \A n : Exit(p, n) => pc'[p] = "done"
    BY <1>go DEF Exit
  <1>1. CASE Start(p) \/ Kill(p)
    <2>1. lone' = lone \ {p}
      BY <1>1 DEF Start, Kill
    <2>. QED  BY <1>t, <2>1, StepFrame
  <1>2. CASE KillWrapper(p)
    BY <1>2, <1>t DEF KillWrapper
  <1>3. CASE ~Start(p) /\ ~Kill(p) /\ ~KillWrapper(p)
    <2>1. lone' = lone
      BY <1>3 DEF Step, Dispatch, RunNative, Configured, Configure, Generate, CMakeBuild, CTest, CMakeClean,
                  Make, Choose, OpenBridge, WriteBridge
    <2>2. ASSUME p \in lone PROVE pc'[p] \in {"configure", "generate", "done"}
      <3>1. Configure(p) \/ Generate(p)
        BY <1>3, <1>t, <2>2 DEF Step, Dispatch, RunNative, Configured, CMakeBuild, CTest, CMakeClean,
                  Make, Choose, OpenBridge, WriteBridge
      <3>. QED  BY <2>2, <3>1, <1>go, <1>ex DEF Configure, Generate
    <2>. QED  BY <1>t, <2>1, <2>2, StepFrame
  <1>. QED  BY <1>1, <1>2, <1>3

LEMMA StepBridgeInv ==
  ASSUME WrapperInv, NEW p \in Process, Step(p)
  PROVE  BridgeInv'
  <1>t. TypeOK /\ ConvertInv /\ WritesOwnFile /\ ((\E q \in Process : pc[q] = "write") => buildc # None)
    BY DEF WrapperInv, BridgeInv
  <1>n. Torn # None
    <2>1. Torn.kind = "native" /\ None.kind = "none"
      BY DEF Torn, None, Backend
    <2>. QED  BY <2>1
  <1>f. \A q \in Process \ {p} : pc'[q] = pc[q] /\ cmd'[q] = cmd[q]
    BY <1>t, StepFrame
  <1>1. CASE OpenBridge(p) /\ Exclusive(p) /\ buildc # None
    <2>1. buildc' = buildc /\ raced' = raced /\ pc'[p] = "done"
      BY <1>1, <1>t DEF OpenBridge, Exit, Go, TypeOK
    <2>2. WritesOwnFile'
      BY <1>t, <1>f, <2>1 DEF WritesOwnFile
    <2>. QED  BY <1>1, <2>1, <2>2, StepLone DEF BridgeInv
  <1>2. CASE OpenBridge(p) /\ ~(Exclusive(p) /\ buildc # None)
    <2>1. /\ buildc' = Torn /\ pc'[p] = "write" /\ cmd' = cmd
          /\ raced' = IF cmd[p].force THEN raced \cup {q \in Process : pc[q] = "write"} ELSE raced
      BY <1>2, <1>t DEF OpenBridge, Go, TypeOK
    <2>2. ~cmd[p].force => \A q \in Process : pc[q] # "write"
      BY <1>2, <1>t DEF Exclusive
    <2>3. ASSUME NEW q \in Process, pc'[q] = "write", ~cmd'[q].force, q \notin raced'
          PROVE  \A r \in Process \ {q} : pc'[r] # "write"
      BY <1>f, <2>1, <2>2, <2>3
    <2>4. WritesOwnFile'
      BY <2>1, <2>3 DEF WritesOwnFile
    <2>. QED  BY <1>n, <2>1, <2>4, StepLone DEF BridgeInv
  <1>3. CASE WriteBridge(p)
    <2>1. /\ pc[p] = "write" /\ pc'[p] = "done" /\ buildc' = backend[p] /\ raced' = raced \ {p}
      BY <1>3, <1>t DEF WriteBridge, Exit, Go, TypeOK
    <2>2. buildc' # None
      BY <1>t, <2>1 DEF ConvertInv
    <2>3. WritesOwnFile'
      BY <1>t, <1>f, <2>1 DEF WritesOwnFile
    <2>. QED  BY <2>2, <2>3, StepLone DEF BridgeInv
  <1>4. CASE ~OpenBridge(p) /\ ~WriteBridge(p)
    <2>1. /\ buildc' = buildc /\ raced' \in {raced, raced \ {p}} /\ pc'[p] # "write"
      BY <1>4, <1>t, StepBridge
    <2>2. \A q \in Process : pc'[q] = "write" => pc[q] = "write" /\ q # p
      BY <1>f, <2>1
    <2>3. WritesOwnFile'
      BY <1>t, <1>f, <2>1, <2>2 DEF WritesOwnFile
    <2>. QED  BY <1>t, <2>1, <2>2, <2>3, StepLone DEF BridgeInv
  <1>. QED  BY <1>1, <1>2, <1>3, <1>4

LEMMA EditInv == WrapperInv /\ Edit => WrapperInv'
  <1>. SUFFICES ASSUME WrapperInv, Edit PROVE WrapperInv'
    OBVIOUS
  <1>. USE DEF WrapperInv
  <1>1. /\ dir' = dir /\ cmd' = cmd /\ pc' = pc /\ backend' = backend /\ ran' = ran /\ rc' = rc
        /\ lone' = lone /\ raced' = raced
        /\ \A p \in Process : pc[p] \in Idle \/ p \in lone
    BY DEF Edit
  <1>w. \A p \in Process : pc[p] \notin {"open", "write"}
    BY <1>1 DEF BridgeInv, Idle
  <1>2. TypeOK'
    <2>1. edits \in 0..MaxEdits /\ MaxEdits \in Nat
      BY CommandAssumption DEF TypeOK
    <2>2. edits' \in 0..MaxEdits /\ commands' = commands
      BY <2>1 DEF Edit
    <2>3. buildc' \in Backends \cup {Torn} /\ present' \subseteq File /\ broken' \subseteq present'
      BY DEF Edit, TypeOK, Backends
    <2>. QED  BY <1>1, <2>2, <2>3 DEF TypeOK
  <1>3. PlaceInv' /\ ConvertInv'
    BY <1>1, <1>w DEF PlaceInv, ConvertInv, Promised, DirOf
  <1>4. DirInv' /\ RanInv'
    BY <1>1 DEF DirInv, RanInv, Promised, Unambiguous
  <1>5. BridgeInv'
    BY <1>1, <1>w DEF BridgeInv, WritesOwnFile
  <1>. QED  BY <1>2, <1>3, <1>4, <1>5

LEMMA StutterInv == WrapperInv /\ UNCHANGED vars => WrapperInv'
  <1>. SUFFICES ASSUME WrapperInv, UNCHANGED vars PROVE WrapperInv'
    OBVIOUS
  <1>. USE DEF WrapperInv, vars
  <1>1. TypeOK'
    BY DEF TypeOK
  <1>2. PlaceInv'
    BY DEF PlaceInv, Promised, DirOf
  <1>3. ConvertInv'
    BY DEF ConvertInv, ByPriority, DefaultMakefile, FirstPresent
  <1>4. DirInv' /\ RanInv'
    BY DEF DirInv, RanInv, Promised, Unambiguous
  <1>5. BridgeInv'
    BY DEF BridgeInv, WritesOwnFile
  <1>. QED  BY <1>1, <1>2, <1>3, <1>4, <1>5

LEMMA Invariance == Spec => []WrapperInv
  <1>1. WrapperInv /\ [Next]_vars => WrapperInv'
    <2>. SUFFICES ASSUME WrapperInv, [Next]_vars PROVE WrapperInv'
      OBVIOUS
    <2>1. ASSUME NEW p \in Process, Step(p) PROVE WrapperInv'
      BY <2>1, StepTypeOK, StepPlaceInv, StepConvertInv, StepDirInv, StepRanInv, StepBridgeInv DEF WrapperInv
    <2>. QED  BY <2>1, EditInv, StutterInv DEF Next
  <1>. QED  BY WrapperInit, <1>1, PTL DEF Spec

-----------------------------------------------------------------------------
\* Every command is somewhere in main, the backend it found is one there can
\* be, and a build directory names a CMake configuration (wrapper.c).
THEOREM TypeCorrect == Spec => []TypeOK
  BY Invariance, PTL DEF WrapperInv

\* A build or test that reports success has built what was found, as asked,
\* whatever was configured before, killed or still runs; the premise
\* Unambiguous is part of the property.
THEOREM BuiltAsAskedHolds == Spec => []BuiltAsAsked
  <1>1. WrapperInv => BuiltAsAsked
    <2>. SUFFICES ASSUME WrapperInv, Unambiguous, NEW p \in Process,
                         pc[p] = "done", rc[p] = 0, Promised(p)
                  PROVE  /\ ran[p].source = backend[p].source
                         /\ ran[p].type = cmd[p].type
                         /\ ran[p].cc = cmd[p].cc
      BY DEF BuiltAsAsked, Promised
    <2>1. ran[p] = Built(backend[p].source, cmd[p].type, cmd[p].cc)
      BY DEF WrapperInv, RanInv
    <2>. QED  BY <2>1 DEF Built
  <1>. QED  BY Invariance, <1>1, PTL

\* Of any number of converts, one without --force writes into the file it has
\* created and nobody else is about to write there, unless a convert --force has
\* opened build.c in between (write_bridge).
THEOREM WritesOwnFileHolds == Spec => []WritesOwnFile
  BY Invariance, PTL DEF WrapperInv, BridgeInv

\* What a convert without a file leaves is what the directory was built with,
\* for any number of converts and kills in between (convert_command).
THEOREM ConvertPreservesHolds == Spec => ConvertPreserves
  <1>1. WrapperInv /\ [Next]_vars =>
          [\A p \in Process :
             pc[p] = "write" /\ pc'[p] = "done" /\ cmd[p].file = "" => Detected' = ByPriority]_vars
    <2>. SUFFICES ASSUME WrapperInv, Next, NEW p \in Process,
                         pc[p] = "write", pc'[p] = "done", cmd[p].file = ""
                  PROVE  Detected' = ByPriority
      OBVIOUS
    <2>t. TypeOK /\ ConvertInv
      BY DEF WrapperInv
    <2>1. PICK q \in Process : Step(q)
      BY DEF Next, Edit
    <2>2. q = p
      BY <2>1, <2>t, StepFrame
    <2>3. CASE WriteBridge(p)
      <3>1. backend[p] \in Backends /\ backend[p] # None /\ backend[p] = ByPriority
        BY <2>t DEF TypeOK, ConvertInv
      <3>2. buildc' = backend[p] /\ backend[p] # Torn
        BY <2>3, <3>1, BackendsAre DEF WriteBridge
      <3>. QED  BY <3>1, <3>2 DEF Detected, ParseBridge
    <2>4. CASE Kill(p)
      BY <2>4, <2>t DEF Kill, Go, TypeOK
    <2>5. WriteBridge(p) \/ Kill(p)
      BY <2>1, <2>2, <2>t DEF Step, Start, Dispatch, RunNative, Configured, Configure, Generate, CMakeBuild, CTest,
           CMakeClean, Make, Choose, OpenBridge, KillWrapper, Idle
    <2>. QED  BY <2>3, <2>4, <2>5
  <1>. QED  BY Invariance, <1>1, PTL DEF Spec, ConvertPreserves
=============================================================================
