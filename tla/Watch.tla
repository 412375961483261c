-------------------------------- MODULE Watch --------------------------------
(***************************************************************************)
(* `c watch` (src/cli.c:1271-1295): a loop that forks a build whenever the *)
(* fingerprint of the tree has changed, while the user edits and the       *)
(* builds themselves write into the tree: c.lock when there are            *)
(* dependencies, and what generators make (compiler_run_generators), which *)
(* a stamp in the unwatched build directory tells to be fresh.             *)
(*                                                                         *)
(* The project has an input that a generator turns into an output, and a   *)
(* source; output and source are compiled into one object.                 *)
(***************************************************************************)
EXTENDS Integers

CONSTANTS
  Dependencies,     \* build.c has some, or c.lock has entries
  Windows,          \* when the user edits, see Window
  MaxEdits, MaxFailures
                    \* bounds on the edits, and on how often the generator or its stamp fails

ASSUME ConstantsAssumption ==
  /\ Dependencies \in BOOLEAN /\ MaxEdits \in Nat /\ MaxFailures \in Nat
  /\ Windows \subseteq {"first", "compile", "else"}

VARIABLES
  content,          \* what input and source hold, one number per content
  time,             \* when they were edited last: their modification times
  output,           \* the content it was made from, or Absent, or Foreign
  stamp,            \* input and output at the generator's last run
  object,           \* input and source it was made from
  stale,            \* something it is made from is newer
  outputTime, lockTime,
                    \* modification times, of which only a change is seen
  seen,             \* fingerprint
  pc,               \* of the watcher or the build it waits for
  first,            \* the first build is not over yet
  read,             \* what the running generator or compiler has read
  ok,               \* the last build succeeded
  mixed,            \* history: contents of the input that were hashed for a
                    \* generator that then read another
  edits, failures

files == <<content, time>>
watchVars == <<files, output, stamp, object, stale, outputTime, lockTime, seen, pc, first, read, ok,
               mixed, edits, failures>>

Absent == -1
Foreign == -2
File == {"input", "source"}
\* No two of the times between two fingerprints are the same.
Times == MaxEdits + 3
Later(t) == (t + 1) % Times

WatchInit ==
  /\ content = [f \in File |-> 0] /\ time = [f \in File |-> 0]
  /\ output = Absent /\ stamp = [input |-> Absent, output |-> Absent]
  /\ object = [input |-> Absent, source |-> Absent] /\ stale = TRUE
  /\ outputTime = 0 /\ lockTime = 0
  /\ seen = <<>> /\ first = TRUE
  /\ pc = "resolve" /\ read = Absent /\ ok = FALSE
  /\ mixed = {} /\ edits = 0 /\ failures = 0

MutFingerprint == <<time["source"], outputTime, lockTime>>
\* compiler_watch_fingerprint: names, sizes and times of everything but the
\* build directory, .git and compile_commands.json.
Fingerprint == <<time, outputTime, lockTime>>

Go(s) == pc' = s

(* A build *)

\* compiler_resolve_all: save_lock writes c.lock anew.
Resolve ==
  /\ pc = "resolve"
  /\ lockTime' = IF Dependencies THEN Later(lockTime) ELSE lockTime
  /\ Go("check")
  /\ UNCHANGED <<files, output, stamp, object, stale, outputTime, seen, first, read, ok, mixed, edits, failures>>

MutFresh == stamp.input = content["input"]
\* The stamp names the input and the output as they are.
Fresh == output # Absent /\ stamp = [input |-> content["input"], output |-> output]

\* The input is hashed before the generator runs.
Check ==
  /\ pc = "check"
  /\ read' = content["input"]
  /\ Go(IF Fresh THEN "compile" ELSE "generate")
  /\ UNCHANGED <<files, output, stamp, object, stale, outputTime, lockTime, seen, first, ok, mixed, edits, failures>>

\* It reads the input as it is by now.
Generate ==
  /\ pc = "generate"
  /\ output' = content["input"] /\ outputTime' = Later(outputTime)
  /\ mixed' = IF content["input"] # read THEN mixed \cup {read} ELSE mixed
  /\ stale' = TRUE
  /\ Go("stamp")
  /\ UNCHANGED <<files, stamp, object, lockTime, seen, first, read, ok, edits, failures>>

MutStamp ==
  /\ pc = "stamp"
  /\ stamp' = [input |-> content["input"], output |-> output]
  /\ Go("compile")
  /\ UNCHANGED <<files, output, object, stale, outputTime, lockTime, seen, first, read, ok, mixed, edits, failures>>
\* The stamp is renamed into place after the output was hashed.
Stamp ==
  /\ pc = "stamp"
  /\ stamp' = [input |-> read, output |-> output]
  /\ Go("compile")
  /\ UNCHANGED <<files, output, object, stale, outputTime, lockTime, seen, first, read, ok, mixed, edits, failures>>

\* The compiler reads, and some time later has written the object.
Compile ==
  /\ pc = "compile"
  /\ read' = content["source"]
  /\ Go(IF stale THEN "compiling" ELSE "success")
  /\ UNCHANGED <<files, output, stamp, object, stale, outputTime, lockTime, seen, first, ok, mixed, edits, failures>>

Compiled ==
  /\ pc = "compiling"
  /\ object' = [input |-> output, source |-> read]
  /\ stale' = FALSE
  /\ Go("success")
  /\ UNCHANGED <<files, output, stamp, outputTime, lockTime, seen, first, read, ok, mixed, edits, failures>>

MayFail == failures < MaxFailures /\ failures' = failures + 1

\* A failing generator leaves what it likes.
GeneratorFails ==
  /\ pc = "generate" /\ MayFail
  /\ output' \in {output, Foreign} /\ outputTime' = Later(outputTime) /\ stale' = TRUE
  /\ Go("failure")
  /\ UNCHANGED <<files, stamp, object, lockTime, seen, first, read, ok, mixed, edits>>

\* It has run, and the stamp cannot be written.
StampFails ==
  /\ pc = "stamp" /\ MayFail
  /\ Go("failure")
  /\ UNCHANGED <<files, output, stamp, object, stale, outputTime, lockTime, seen, first, read, ok, mixed, edits>>

Fail ==
  /\ pc \in {"resolve", "check", "compile", "compiling"}
  /\ Go("failure")
  /\ UNCHANGED <<files, output, stamp, object, stale, outputTime, lockTime, seen, first, read, ok, mixed, edits, failures>>

(* The watcher *)

MutBuildOver ==
  /\ pc \in {"success", "failure"}
  /\ ok' = (pc = "success")
  /\ seen' = Fingerprint
  /\ Go("sleep")
  /\ UNCHANGED <<files, output, stamp, object, stale, outputTime, lockTime, first, read, mixed, edits, failures>>
\* compiler_watch_build_once has returned.  The first fingerprint is taken now.
BuildOver ==
  /\ pc \in {"success", "failure"}
  /\ ok' = (pc = "success")
  /\ first' = FALSE
  /\ seen' = IF first THEN Fingerprint ELSE seen
  /\ Go("sleep")
  /\ UNCHANGED <<files, output, stamp, object, stale, outputTime, lockTime, read, mixed, edits, failures>>

MutPoll ==
  /\ pc = "sleep" /\ Fingerprint # seen
  /\ Go("resolve")
  /\ UNCHANGED <<files, output, stamp, object, stale, outputTime, lockTime, seen, first, read, ok, mixed, edits, failures>>
\* Later fingerprints are taken before the build.
Poll ==
  /\ pc = "sleep" /\ Fingerprint # seen
  /\ seen' = Fingerprint
  /\ Go("resolve")
  /\ UNCHANGED <<files, output, stamp, object, stale, outputTime, lockTime, first, read, ok, mixed, edits, failures>>

(* The user *)

Window ==
  CASE first -> "first"
    [] ~first /\ pc = "compiling" -> "compile"
    [] OTHER -> "else"

MayEdit == Window \in Windows /\ edits < MaxEdits /\ edits' = edits + 1

\* A file gets a content it never had, or one it had before.
Edit ==
  /\ MayEdit
  /\ \E f \in File :
       /\ \E c \in 0..edits' : c # content[f] /\ content' = [content EXCEPT ![f] = c]
       /\ time' = [time EXCEPT ![f] = edits']
       /\ stale' = (stale \/ f = "source")
  /\ UNCHANGED <<output, stamp, object, outputTime, lockTime, seen, pc, first, read, ok, mixed, failures>>

\* The output is deleted, or changed by hand, but not just after it was made or
\* while it is compiled.
Spoil ==
  /\ pc \notin {"stamp", "compiling"} /\ MayEdit
  /\ output' \in (Foreign..edits) \ {output} /\ outputTime' = Later(outputTime)
  /\ stale' = TRUE
  /\ UNCHANGED <<files, stamp, object, lockTime, seen, pc, first, read, ok, mixed, failures>>

Builder ==
  Resolve \/ Check \/ Generate \/ Stamp \/ Compile \/ Compiled \/ GeneratorFails \/ StampFails \/ Fail
Watcher == BuildOver \/ Poll

WatchNext == Builder \/ Watcher \/ Edit \/ Spoil

\* Builds come to an end and the watcher is scheduled; the user need not edit.
WatchSpec == WatchInit /\ [][WatchNext]_watchVars /\ WF_watchVars(Builder) /\ WF_watchVars(Watcher)

-----------------------------------------------------------------------------
WatchTypeOK ==
  /\ content \in [File -> 0..MaxEdits] /\ time \in [File -> 0..MaxEdits]
  /\ edits \in 0..MaxEdits /\ failures \in 0..MaxFailures
  /\ output \in Foreign..MaxEdits
  /\ stamp \in [input : Foreign..MaxEdits, output : Foreign..MaxEdits]
  /\ object \in [input : Foreign..MaxEdits, source : Foreign..MaxEdits]
  /\ stale \in BOOLEAN /\ first \in BOOLEAN /\ ok \in BOOLEAN
  /\ outputTime \in 0..Times - 1 /\ lockTime \in 0..Times - 1
  /\ read \in Absent..MaxEdits /\ mixed \subseteq Absent..MaxEdits
  /\ pc \in {"resolve", "check", "generate", "stamp", "compile", "compiling",
             "success", "failure", "sleep"}
  /\ pc = "sleep" => ~first

\* The input is none of those a generator run was checked for and did not read.
Unmixed == content["input"] \notin mixed

\* A generated source that is taken to be fresh was made from the input as it
\* is, however input and output were edited, put back and restored before,
\* between the hashes and the generator's run too.  One case is excepted, in
\* which the code is wrong (cli.c:984-1020): the input changes between its hash
\* and the generator's reading it, and is then put back.
GeneratedIsCurrent == Fresh /\ Unmixed => output = content["input"]

\* Its inductive strengthening, proved in ProjectLockProofs: a stamp names an
\* output made from the input it names, unless that one is mixed.
StampInv ==
  /\ stamp.input = stamp.output \/ stamp.input \in mixed
  /\ pc = "stamp" => output = read \/ read \in mixed

WatchInv == WatchTypeOK /\ StampInv

\* When the user has stopped editing and the generator failing, the watcher goes to sleep for good
\* ("rebuild on changes", the help of cli.c).
Settles == <>[](pc = "sleep")

\* and then, unless the last build failed or the input is mixed, the object is
\* made from what is there.
UpToDate ==
  <>[](pc = "sleep" /\ ok /\ Unmixed => object = content)
=============================================================================
