------------------------------- MODULE Wrapper -------------------------------
(***************************************************************************)
(* `c` itself (src/wrapper.c): the program users start.  It finds out what *)
(* a directory is built with and hands over to c-native, to CMake or to    *)
(* Make; `c convert` freezes the choice in a build.c that is only a        *)
(* bridge.  Nothing but the files of the directory connects one command to *)
(* the next: the configuration files, build.c, and the two directories     *)
(* CMake was configured in.  No lock is taken, so commands interleave, may *)
(* be killed, with the tool they have started or without it, and find what *)
(* earlier ones left.                                                      *)
(***************************************************************************)
EXTENDS Naturals

CONSTANTS
  Process,          \* terminals commands are started from
  File,             \* configuration files the user has to do with
  Command,          \* commands the user gives
  Overridden,       \* C_CMAKE_BUILD_DIR names one directory for everything
  MaxCommands,      \* bound on the commands given
  MaxEdits          \* bound on the user's changes of the directory

Type == {"debug", "release"}
Cc == {"", "clang"}
Verb == {"build", "test", "clean", "convert", "run", "fetch"}

\* A command: what to do, the flags, for convert the file named, and whether
\* the rest of its words make sense to the wrapper.
ASSUME CommandAssumption ==
  /\ "" \notin File /\ Command # {} /\ Overridden \in BOOLEAN /\ MaxCommands \in Nat /\ MaxEdits \in Nat
  /\ Command \subseteq [verb : Verb, type : Type, cc : Cc, force : BOOLEAN, file : File \cup {""}, valid : BOOLEAN]

CMakeFile == {"CMakeLists.txt", "sub/CMakeLists.txt"}
DefaultMakefiles == {"GNUmakefile", "Makefile", "makefile"}

VARIABLES
  buildc,           \* what build.c is: a bridge tells kind and source
  present,          \* the configuration files that exist
  broken,           \* those the build tool rejects
  dir,              \* what CMake left in the build directory of each type
  cmd, pc,          \* command and state of each process
  backend,          \* what it has found the directory to be built with
  ran,              \* what the build tool it started has built
  rc,               \* its exit status: 0 or not
  lone,             \* killed processes whose cmake goes on
  raced,            \* history: converts that had build.c open when a convert
                    \* --force opened it too
  commands, edits

vars == <<buildc, present, broken, dir, cmd, pc, backend, ran, rc, lone, raced, commands, edits>>

Backend(kind, source) == [kind |-> kind, source |-> source]
None == Backend("none", "")
Native == Backend("native", "build.c")
Torn == Backend("native", "")        \* opened and not yet written: no bridge line
Kind(f) == IF f \in CMakeFile THEN "cmake" ELSE "make"
Built(source, type, cc) == [source |-> source, type |-> type, cc |-> cc]
Nothing == Built("", "debug", "")
Unconfigured == [state |-> "none", of |-> Nothing]

Idle == {"idle", "done"}

Init ==
  /\ buildc \in {None, Native}
  /\ present \in SUBSET File /\ broken \in SUBSET present
  /\ dir = [t \in Type |-> Unconfigured]
  /\ pc = [p \in Process |-> "idle"]
  /\ cmd = [p \in Process |-> CHOOSE c \in Command : TRUE]
  /\ backend = [p \in Process |-> None]
  /\ ran = [p \in Process |-> Nothing]
  /\ rc = [p \in Process |-> 0]
  /\ lone = {} /\ raced = {}
  /\ commands = 0 /\ edits = 0

(* What the directory is built with. *)

FirstPresent(first, second, third) ==
  IF first \in present THEN first
  ELSE IF second \in present THEN second
  ELSE IF third \in present THEN third ELSE ""

\* default_makefile, and the order GNU make itself has.
DefaultMakefile == FirstPresent("GNUmakefile", "Makefile", "makefile")
MakeReads(source) ==
  IF source \in DefaultMakefiles THEN FirstPresent("GNUmakefile", "makefile", "Makefile") ELSE source

\* detect_backend without a build.c
ByPriority ==
  IF "CMakeLists.txt" \in present THEN Backend("cmake", "CMakeLists.txt")
  ELSE IF DefaultMakefile # "" THEN Backend("make", DefaultMakefile) ELSE None

\* parse_bridge: a build.c without a whole bridge comment is a native one.
ParseBridge == IF buildc = Torn THEN Native ELSE buildc

\* detect_backend
Detected == IF buildc # None THEN ParseBridge ELSE ByPriority

Go(p, s) == pc' = [pc EXCEPT ![p] = s]
Exit(p, status) == Go(p, "done") /\ rc' = [rc EXCEPT ![p] = status]
UnchangedDirectory == UNCHANGED <<buildc, present, broken, raced, commands, edits>>

Start(p) ==
  /\ pc[p] \in Idle
  /\ commands < MaxCommands /\ commands' = commands + 1
  /\ \E c \in Command : cmd' = [cmd EXCEPT ![p] = c]
  /\ backend' = [backend EXCEPT ![p] = None]
  /\ ran' = [ran EXCEPT ![p] = Nothing]
  /\ rc' = [rc EXCEPT ![p] = 0]
  /\ lone' = lone \ {p}
  /\ Go(p, "main")
  /\ UNCHANGED <<buildc, present, broken, dir, raced, edits>>

\* parse_build_args; and make has no release build.
Refused(p, kind) == ~cmd[p].valid \/ (kind = "make" /\ cmd[p].type = "release")

\* main: which tool gets the command; run and watch have no CMake or Make form,
\* and c-native gets what is left.
Dispatch(p) ==
  /\ pc[p] = "main" /\ cmd[p].verb # "convert"
  /\ backend' = [backend EXCEPT ![p] = Detected]
  /\ CASE Detected.kind = "native" -> Go(p, "native") /\ UNCHANGED rc
       [] Detected.kind = "cmake" /\ cmd[p].verb = "clean" -> Go(p, "clean") /\ UNCHANGED rc
       [] Detected.kind = "cmake" /\ cmd[p].verb \in {"build", "test"} ->
            IF Refused(p, "cmake") THEN Exit(p, 2) ELSE Go(p, "configured") /\ UNCHANGED rc
       [] Detected.kind = "make" /\ cmd[p].verb \in {"build", "test", "clean"} ->
            IF Refused(p, "make") THEN Exit(p, 2) ELSE Go(p, "make") /\ UNCHANGED rc
       [] Detected.kind \in {"cmake", "make"} /\ cmd[p].verb = "run" -> Exit(p, 2)
       [] Detected.kind = "none" /\ cmd[p].verb = "build" -> Exit(p, 2)
       [] OTHER -> Go(p, "native") /\ UNCHANGED rc
  /\ UnchangedDirectory /\ UNCHANGED <<dir, cmd, ran, lone>>

\* run_native: exec; without a native build.c it can do nothing but fail.
RunNative(p) ==
  /\ pc[p] = "native"
  /\ \/ Exit(p, 1)
     \/ buildc # None /\ Exit(p, 0)
  /\ UnchangedDirectory /\ UNCHANGED <<dir, cmd, backend, ran, lone>>

(* CMake: configured once per directory, then built. *)

\* cmake_build_dir
DirOf(p) == IF Overridden THEN "debug" ELSE cmd[p].type

\* ensure_cmake_configured: CMakeCache.txt is all it asks for.
Configured(p) ==
  /\ pc[p] = "configured"
  /\ Go(p, IF dir[DirOf(p)].state = "none" THEN "configure" ELSE "build")
  /\ UnchangedDirectory /\ UNCHANGED <<dir, cmd, backend, ran, rc, lone>>

\* cmake -S -B: writes CMakeCache.txt, also when it fails.
Configure(p) ==
  /\ pc[p] = "configure"
  /\ \/ /\ backend[p].source \in present
        /\ dir' = [dir EXCEPT ![DirOf(p)] =
                     [state |-> "cached", of |-> Built(backend[p].source, cmd[p].type, cmd[p].cc)]]
        /\ IF backend[p].source \in broken THEN Exit(p, 1) ELSE Go(p, "generate") /\ UNCHANGED rc
     \/ backend[p].source \notin present /\ Exit(p, 1) /\ UNCHANGED dir
  /\ UnchangedDirectory /\ UNCHANGED <<cmd, backend, ran, lone>>

\* and then the files of the build tool.
Generate(p) ==
  /\ pc[p] = "generate"
  /\ dir' = [dir EXCEPT ![DirOf(p)].state = "generated"]
  /\ IF p \in lone THEN Exit(p, 1) ELSE Go(p, "build") /\ UNCHANGED rc
  /\ UnchangedDirectory /\ UNCHANGED <<cmd, backend, ran, lone>>

\* cmake --build: what the directory was configured from, configured again
\* when that has changed.
CMakeBuild(p) ==
  /\ pc[p] = "build"
  /\ LET d == dir[DirOf(p)] IN
     IF d.state = "generated" /\ d.of.source \in present \ broken
       THEN /\ ran' = [ran EXCEPT ![p] = d.of]
            /\ IF cmd[p].verb = "test" THEN Go(p, "ctest") /\ UNCHANGED rc ELSE Exit(p, 0)
       ELSE Exit(p, 1) /\ UNCHANGED ran
  /\ UnchangedDirectory /\ UNCHANGED <<dir, cmd, backend, lone>>

CTest(p) ==
  /\ pc[p] = "ctest"
  /\ \E status \in {0, 1} : Exit(p, status)
  /\ UnchangedDirectory /\ UNCHANGED <<dir, cmd, backend, ran, lone>>

\* cmake_clean: every directory that has a CMakeCache.txt, the first failure
\* being the exit status.
CMakeClean(p) ==
  /\ pc[p] = "clean"
  /\ Exit(p, IF \E t \in Type : dir[t].state = "cached" THEN 1 ELSE 0)
  /\ UnchangedDirectory /\ UNCHANGED <<dir, cmd, backend, ran, lone>>

MutMake(p) ==
  /\ pc[p] = "make"
  /\ ran' = [ran EXCEPT ![p] = Built(MakeReads("Makefile"), "debug", cmd[p].cc)]
  /\ Exit(p, 0)
  /\ UnchangedDirectory /\ UNCHANGED <<dir, cmd, backend, lone>>
\* make_build, with `clean` or `test` as the target of those commands: -f is
\* given for a file make would not find itself.
Make(p) ==
  /\ pc[p] = "make"
  /\ LET file == MakeReads(backend[p].source) IN
     IF file \in present \ broken
       THEN /\ ran' = [ran EXCEPT ![p] = Built(file, "debug", cmd[p].cc)]
            /\ \E status \in {0, 1} : Exit(p, status)
       ELSE Exit(p, 1) /\ UNCHANGED ran
  /\ UnchangedDirectory /\ UNCHANGED <<dir, cmd, backend, lone>>

(* c convert *)

MutConvertSource(f) ==
  CASE f # "" -> Backend(Kind(f), f)
    [] f = "" /\ DefaultMakefile # "" -> Backend("make", DefaultMakefile)
    [] f = "" /\ DefaultMakefile = "" /\ "CMakeLists.txt" \in present -> Backend("cmake", "CMakeLists.txt")
    [] OTHER -> None
\* convert_command: the file named, or one found.
ConvertSource(f) ==
  CASE f # "" -> Backend(Kind(f), f)
    [] f = "" /\ "CMakeLists.txt" \in present -> Backend("cmake", "CMakeLists.txt")
    [] f = "" /\ "CMakeLists.txt" \notin present /\ DefaultMakefile # "" -> Backend("make", DefaultMakefile)
    [] OTHER -> None

Choose(p) ==
  /\ pc[p] = "main" /\ cmd[p].verb = "convert"
  /\ LET f == cmd[p].file
         chosen == ConvertSource(f)
     IN /\ backend' = [backend EXCEPT ![p] = chosen]
        /\ IF ~cmd[p].valid \/ chosen = None \/ (f # "" /\ f \notin present) \/ (buildc # None /\ ~cmd[p].force)
             THEN Exit(p, 2) ELSE Go(p, "open") /\ UNCHANGED rc
  /\ UnchangedDirectory /\ UNCHANGED <<dir, cmd, ran, lone>>

MutExclusive(p) == FALSE
\* O_EXCL unless forced.
Exclusive(p) == ~cmd[p].force

\* write_bridge opens build.c: creates it, or empties what is there.
OpenBridge(p) ==
  /\ pc[p] = "open"
  /\ IF Exclusive(p) /\ buildc # None
       THEN Exit(p, 1) /\ UNCHANGED <<buildc, raced>>
       ELSE /\ buildc' = Torn /\ Go(p, "write") /\ UNCHANGED rc
            /\ raced' = IF cmd[p].force THEN raced \cup {q \in Process : pc[q] = "write"} ELSE raced
  /\ UNCHANGED <<present, broken, dir, cmd, backend, ran, lone, commands, edits>>

\* and writes it.
WriteBridge(p) ==
  /\ pc[p] = "write"
  /\ buildc' = backend[p]
  /\ raced' = raced \ {p}
  /\ Exit(p, 0)
  /\ UNCHANGED <<present, broken, dir, cmd, backend, ran, lone, commands, edits>>

\* The wrapper is killed, and the tool it started with it.
Kill(p) ==
  /\ pc[p] \notin Idle
  /\ Go(p, "idle")
  /\ cmd' = [cmd EXCEPT ![p] = CHOOSE c \in Command : TRUE]
  /\ backend' = [backend EXCEPT ![p] = None]
  /\ ran' = [ran EXCEPT ![p] = Nothing]
  /\ lone' = lone \ {p} /\ raced' = raced \ {p}
  /\ UNCHANGED <<buildc, present, broken, commands, edits, dir, rc>>

\* The wrapper alone is killed while cmake configures: nothing will be built,
\* but cmake finishes what it is at (run_argv; the other tools leave nothing
\* behind that a command of the wrapper looks at).
KillWrapper(p) ==
  /\ pc[p] \in {"configure", "generate"} /\ p \notin lone
  /\ lone' = lone \cup {p}
  /\ UnchangedDirectory /\ UNCHANGED <<dir, cmd, pc, backend, ran, rc>>

(* The user, when no command is running as far as the terminals show. *)

Edit ==
  /\ edits < MaxEdits /\ edits' = edits + 1
  /\ \A p \in Process : pc[p] \in Idle \/ p \in lone
  /\ \/ \E f \in File : present' = present \cup {f} /\ broken' \in {broken \ {f}, broken \cup {f}} /\ UNCHANGED buildc
     \/ \E f \in File : present' = present \ {f} /\ broken' = broken \ {f} /\ UNCHANGED buildc
     \/ buildc' \in {None, Native} /\ UNCHANGED <<present, broken>>
  /\ UNCHANGED <<dir, cmd, pc, backend, ran, rc, lone, raced, commands>>

Step(p) ==
  \/ Start(p) \/ Dispatch(p) \/ RunNative(p) \/ Configured(p) \/ Configure(p) \/ Generate(p)
  \/ CMakeBuild(p) \/ CTest(p) \/ CMakeClean(p) \/ Make(p) \/ Choose(p) \/ OpenBridge(p)
  \/ WriteBridge(p) \/ Kill(p) \/ KillWrapper(p)

Next == Edit \/ \E p \in Process : Step(p)

Spec == Init /\ [][Next]_vars

-----------------------------------------------------------------------------
Backends == {None, Native} \cup {Backend(Kind(f), f) : f \in File}
Build == [source : File \cup {""}, type : Type, cc : Cc]

TypeOK ==
  /\ buildc \in Backends \cup {Torn}
  /\ present \subseteq File /\ broken \subseteq present
  /\ dir \in [Type -> [state : {"none", "cached", "generated"}, of : Build]]
  /\ \A t \in Type : dir[t].state # "none" => dir[t].of.source \in File \cap CMakeFile
  /\ cmd \in [Process -> Command]
  /\ pc \in [Process -> Idle \cup {"main", "native", "configured", "configure", "generate", "build", "ctest",
                                  "clean", "make", "open", "write"}]
  /\ backend \in [Process -> Backends]
  /\ ran \in [Process -> Build]
  /\ rc \in [Process -> 0..2]
  /\ lone \subseteq Process /\ raced \subseteq Process
  /\ commands \in 0..MaxCommands /\ edits \in 0..MaxEdits

\* What the wrapper cannot tell from what it remembers is not asked of it: one
\* CMake project and one makefile to choose from, and one compiler.
Unambiguous ==
  /\ ~Overridden
  /\ \A f, g \in File : {f, g} \subseteq CMakeFile \/ {f, g} \subseteq DefaultMakefiles => f = g
  /\ \A c, d \in Command : c.cc = d.cc

\* A build or test that reports success has built the configuration file that
\* was found when it started, as the build type and with the compiler it was
\* asked for, whatever earlier commands left (cmake_build, cmake_test,
\* make_build).
BuiltAsAsked ==
  Unambiguous =>
    \A p \in Process :
      pc[p] = "done" /\ rc[p] = 0 /\ cmd[p].verb \in {"build", "test"} /\ backend[p].kind \in {"cmake", "make"} =>
        /\ ran[p].source = backend[p].source
        /\ ran[p].type = cmd[p].type
        /\ cmd[p].cc # "" => ran[p].cc = cmd[p].cc

\* A convert without --force writes into a file that it has created itself and
\* that is still as empty as it left it, and no other convert is about to write
\* there, unless a convert --force has opened build.c in between: that one's
\* bridge it may overwrite (write_bridge opens and writes in two steps).
WritesOwnFile ==
  \A p \in Process :
    pc[p] = "write" /\ ~cmd[p].force /\ p \notin raced =>
      buildc = Torn /\ \A q \in Process \ {p} : pc[q] # "write"

\* What a convert without a file writes is what the directory would be built
\* with if there were no build.c, so converting changes nothing ("the original
\* build configuration remains authoritative", write_bridge); other converts
\* may come in between.
ConvertPreserves ==
  [][\A p \in Process :
       pc[p] = "write" /\ pc'[p] = "done" /\ cmd[p].file = "" =>
         Detected' = ByPriority]_vars
=============================================================================
