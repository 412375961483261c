----------------------------- MODULE ObjectBuild -----------------------------
(***************************************************************************)
(* One object of one project over a history of builds: the freshness test, *)
(* the file hashes and the object cache of src/cli.c, with edits of the    *)
(* source and its headers, compilers that take their time, and builders    *)
(* that are killed.                                                        *)
(*                                                                         *)
(* Every edit gets a later mtime, so the clock counts the edits; whatever  *)
(* a builder writes between two edits carries the mtime of the first one,  *)
(* and the code treats an equal mtime like a later one.  A hash stands for *)
(* the content it was computed from.  The source's content decides which   *)
(* headers it includes.  Builds of the project exclude each other.         *)
(***************************************************************************)
EXTENDS Integers, FiniteSets

CONSTANTS
  Source,           \* the source file
  Header,           \* the headers it may include
  Contents,         \* contents of a file
  Includes,         \* the headers a content of the source includes
  Modes,            \* the circumstances considered
  None

File == {Source} \cup Header

Made == UNION {[F -> Contents] : F \in SUBSET File}

ASSUME SourceAssumption == Source \notin Header
ASSUME IncludesAssumption == Includes \in [Contents -> SUBSET Header]
ASSUME ModesAssumption ==
  Modes \subseteq [cache : BOOLEAN, editing : BOOLEAN, kills : BOOLEAN, orphans : BOOLEAN,
                  edits : Nat]
\* None is no depfile and no object.
ASSUME NoneAssumption ==
  /\ \A F \in SUBSET File : F # None
  /\ \A made \in Made, mo \in Modes :
       \A t \in 0 .. mo.edits : made # None /\ [made |-> made, mtime |-> t] # None

VARIABLES
  mode,             \* cache: compiler_perf.object_cache; editing: are files also
                    \* edited while a build runs; kills: may a builder be killed;
                    \* orphans: may its compiler survive it; edits: their bound
  clock,            \* edits so far
  file,             \* content and mtime of the source and the headers
  obj,              \* the object: the contents it was made from, and its mtime
  dep,              \* the depfile: the files it lists
  marker,           \* is there a ready marker?
  cobj, cdep, cmeta,\* the object cache: for each key object, depfile, metadata
  phash,            \* the persistent hash of a file: stamp and hash
  pc,               \* where the builder is
  stamps,           \* its compiler_stat_cache
  hashes,           \* its compiler_hash_cache
  key,              \* hash of the source in the key of the object
  input,            \* what the compiler has read
  orphan,           \* what a compiler that survived its builder has read
  began,            \* the clock when the last build started
  verdict           \* of the last build, "none" once something was edited

disk == <<obj, dep, marker>>
cache == <<cobj, cdep, cmeta>>
memory == <<stamps, hashes, key>>
outcome == <<began, verdict>>
vars == <<mode, clock, file, disk, cache, phash, pc, memory, input, orphan, outcome>>

\* What the compiler makes the object from, given the files as they are.
Wanted ==
  [f \in {Source} \cup Includes[file[Source].content] |-> file[f].content]

NothingKnown == [f \in File |-> None]

-----------------------------------------------------------------------------
(* compiler_cached_stamp and compiler_hash_file.                           *)

Stamp(f) == IF stamps[f] = None THEN file[f].mtime ELSE stamps[f]

MutHash(f) ==
  IF hashes[f] # None THEN hashes[f]
  ELSE IF phash[f] # None THEN phash[f].content
  ELSE file[f].content

Hash(f) ==
  IF hashes[f] # None THEN hashes[f]
  ELSE IF phash[f] # None /\ phash[f].mtime = Stamp(f) THEN phash[f].content
  ELSE file[f].content

\* Later calls in this process return the same stamps.
StatFiles(F) == stamps' = [f \in File |-> IF f \in F THEN Stamp(f) ELSE stamps[f]]

MutPersist(f) == [mtime |-> file[f].mtime, content |-> Hash(f)]
Persist(f) == [mtime |-> Stamp(f), content |-> Hash(f)]

HashFiles(F) ==
  /\ StatFiles(F)
  /\ hashes' = [f \in File |-> IF f \in F THEN Hash(f) ELSE hashes[f]]
  /\ phash' = [f \in File |-> IF f \in F /\ hashes[f] = None THEN Persist(f) ELSE phash[f]]

-----------------------------------------------------------------------------
Init ==
  /\ mode \in Modes
  /\ clock = 0
  /\ file \in [File -> [content : Contents, mtime : {0}]]
  /\ obj = None /\ dep = None /\ marker = FALSE
  /\ cobj = [c \in Contents |-> None]
  /\ cdep = [c \in Contents |-> None]
  /\ cmeta = [c \in Contents |-> None]
  /\ phash = NothingKnown
  /\ pc = "idle"
  /\ stamps = NothingKnown /\ hashes = NothingKnown /\ key = None
  /\ input = None
  /\ orphan = None
  /\ began = 0 /\ verdict = "none"

Edit(f, c) ==
  /\ pc = "idle" \/ mode.editing
  /\ clock < mode.edits
  /\ c # file[f].content
  /\ clock' = clock + 1
  /\ file' = [file EXCEPT ![f] = [content |-> c, mtime |-> clock']]
  /\ verdict' = "none"
  /\ UNCHANGED <<mode, disk, cache, phash, pc, memory, input, orphan, began>>

\* `c clean`
Clean ==
  /\ pc = "idle"
  /\ obj' = None /\ dep' = None /\ marker' = FALSE
  /\ verdict' = "none"
  /\ UNCHANGED <<mode, clock, file, cache, phash, pc, memory, input, orphan, began>>

\* A build promises nothing about what was edited after it began.
Succeed == verdict' = IF began = clock THEN "ok" ELSE "none"

\* A new process knows nothing yet.
Start ==
  /\ pc = "idle"
  /\ pc' = "fresh"
  /\ stamps' = NothingKnown /\ hashes' = NothingKnown /\ key' = None
  /\ began' = clock
  /\ UNCHANGED <<mode, clock, file, disk, cache, phash, input, orphan, verdict>>

-----------------------------------------------------------------------------
(* compiler_prepare_task.                                                  *)

Newer(f) == Stamp(f) > obj.mtime

\* compiler_depfile_fresh, asked only of a marked object
Tested == marker /\ obj # None
MutDepfileFresh == ~Newer(Source) /\ dep # None
DepfileFresh == ~Newer(Source) /\ dep # None /\ \A f \in dep : ~Newer(f)

UseFresh ==
  /\ pc = "fresh" /\ Tested /\ DepfileFresh
  /\ pc' = "idle"
  /\ Succeed
  /\ UNCHANGED <<mode, clock, file, disk, cache, phash, memory, input, orphan, began>>

\* The source is asked for first; the loop over the depfile stops at the first
\* file that is newer.
Asked ==
  IF Newer(Source) \/ dep = None THEN {{Source}}
  ELSE {{Source} \cup F : F \in {G \in SUBSET dep : Cardinality({f \in G : Newer(f)}) = 1}}

NotFresh ==
  /\ pc = "fresh" /\ ~(Tested /\ DepfileFresh)
  /\ IF Tested THEN \E F \in Asked : StatFiles(F) ELSE UNCHANGED stamps
  /\ pc' = "key"
  /\ UNCHANGED <<mode, clock, file, disk, cache, phash, hashes, key, input, orphan, outcome>>

\* compiler_command_cache_hash
HashSource ==
  /\ pc = "key"
  /\ HashFiles({Source})
  /\ key' = Hash(Source)
  /\ pc' = IF mode.cache THEN "lookup" ELSE "invalidate"
  /\ UNCHANGED <<mode, clock, file, disk, cache, input, orphan, outcome>>

\* compiler_object_cache_restore
Entry == cobj[key] # None /\ cdep[key] # None /\ cmeta[key] # None
Matches == \A f \in DOMAIN cmeta[key] : cmeta[key][f] = Hash(f)

\* The loop over the metadata stops at the first file with another hash.
Compared ==
  {F \in SUBSET DOMAIN cmeta[key] :
     Cardinality({f \in F : cmeta[key][f] # Hash(f)}) = 1}

NoEntry ==
  /\ pc = "lookup" /\ ~Entry
  /\ pc' = "invalidate"
  /\ UNCHANGED <<mode, clock, file, disk, cache, phash, memory, input, orphan, outcome>>

DropEntry ==
  /\ pc = "lookup" /\ Entry /\ ~Matches
  /\ \E F \in Compared : HashFiles(F)
  /\ cobj' = [cobj EXCEPT ![key] = None]
  /\ cdep' = [cdep EXCEPT ![key] = None]
  /\ cmeta' = [cmeta EXCEPT ![key] = None]
  /\ pc' = "invalidate"
  /\ UNCHANGED <<mode, clock, file, disk, key, input, orphan, outcome>>

\* The object and the depfile are copied one after the other; a marker of the
\* object they replace stays where it is.
RestoreObject ==
  /\ pc = "lookup" /\ Entry /\ Matches
  /\ HashFiles(DOMAIN cmeta[key])
  /\ obj' = [made |-> cobj[key], mtime |-> clock]
  /\ pc' = "restore"
  /\ UNCHANGED <<mode, clock, file, dep, marker, cache, key, input, orphan, outcome>>

RestoreDepfile ==
  /\ pc = "restore"
  /\ dep' = cdep[key]
  /\ pc' = "mark"
  /\ UNCHANGED <<mode, clock, file, obj, marker, cache, phash, memory, input, orphan, outcome>>

\* The marker goes first, so that it never outlives what it vouches for.
Invalidate ==
  /\ pc = "invalidate"
  /\ obj' = None /\ dep' = None /\ marker' = FALSE
  /\ pc' = "compile"
  /\ UNCHANGED <<mode, clock, file, cache, phash, memory, input, orphan, outcome>>

-----------------------------------------------------------------------------
(* The compiler, and what compiler_execute_tasks does when it has exited.  *)

Read ==
  /\ pc = "compile" /\ input = None
  /\ input' = Wanted
  /\ UNCHANGED <<mode, clock, file, disk, cache, phash, pc, memory, orphan, outcome>>

Write ==
  /\ pc = "compile" /\ input # None
  /\ obj' = [made |-> input, mtime |-> clock]
  /\ dep' = DOMAIN input
  /\ input' = None
  /\ pc' = IF mode.cache THEN "store" ELSE "mark"
  /\ UNCHANGED <<mode, clock, file, marker, cache, phash, memory, orphan, outcome>>

MutCompileFails ==
  /\ pc = "compile"
  /\ obj' = None /\ dep' = None
  /\ pc' = "idle"
  /\ verdict' = "failed"
  /\ UNCHANGED <<mode, clock, file, marker, cache, phash, memory, input, orphan, began>>

\* compiler_cancel_tasks waits for the compiler before it removes its files.
CompileFails ==
  /\ pc = "compile"
  /\ input' = None
  /\ obj' = None /\ dep' = None
  /\ pc' = "idle"
  /\ verdict' = "failed"
  /\ UNCHANGED <<mode, clock, file, marker, cache, phash, memory, orphan, began>>

\* compiler_object_cache_store writes the metadata last.
Meta == [f \in dep |-> Hash(f)]

Store ==
  /\ pc = "store"
  /\ HashFiles(dep)
  /\ cobj' = [cobj EXCEPT ![key] = obj.made]
  /\ cdep' = [cdep EXCEPT ![key] = dep]
  /\ cmeta' = [cmeta EXCEPT ![key] = Meta]
  /\ pc' = "mark"
  /\ UNCHANGED <<mode, clock, file, disk, key, input, orphan, outcome>>

Mark ==
  /\ pc = "mark"
  /\ marker' = TRUE
  /\ pc' = "idle"
  /\ Succeed
  /\ UNCHANGED <<mode, clock, file, obj, dep, cache, phash, memory, input, orphan, began>>

-----------------------------------------------------------------------------
\* The builder is killed; its compiler dies with it or goes on alone.  What a
\* dying compiler leaves has no marker, so no build looks at it.
Crash ==
  /\ mode.kills
  /\ pc # "idle"
  /\ pc' = "idle"
  /\ input' = None
  /\ orphan' \in {orphan} \cup (IF mode.orphans /\ orphan = None THEN {input} ELSE {})
  /\ verdict' = "failed"
  /\ UNCHANGED <<mode, clock, file, disk, cache, phash, memory, began>>

\* Killed in the middle of compiler_object_cache_store.
CrashInStore ==
  /\ mode.kills
  /\ pc = "store"
  /\ HashFiles(dep)
  /\ cobj' = [cobj EXCEPT ![key] = obj.made]
  /\ cdep' \in {cdep, [cdep EXCEPT ![key] = dep]}
  /\ pc' = "idle"
  /\ verdict' = "failed"
  /\ UNCHANGED <<mode, clock, file, disk, cmeta, key, input, orphan, began>>

\* Killed in the middle of dropping an entry from the cache.
CrashInDrop ==
  /\ mode.kills
  /\ pc = "lookup" /\ Entry /\ ~Matches
  /\ \E F \in Compared : HashFiles(F)
  /\ cobj' = [cobj EXCEPT ![key] = None]
  /\ cdep' \in {cdep, [cdep EXCEPT ![key] = None]}
  /\ pc' = "idle"
  /\ verdict' = "failed"
  /\ UNCHANGED <<mode, clock, file, disk, cmeta, key, input, orphan, began>>

OrphanWrites ==
  /\ orphan # None
  /\ obj' = [made |-> orphan, mtime |-> clock]
  /\ dep' = DOMAIN orphan
  /\ orphan' = None
  /\ UNCHANGED <<mode, clock, file, marker, cache, phash, pc, memory, input, outcome>>

-----------------------------------------------------------------------------
Build ==
  \/ Start
  \/ UseFresh \/ NotFresh \/ HashSource
  \/ NoEntry \/ DropEntry \/ RestoreObject \/ RestoreDepfile
  \/ Invalidate \/ Read \/ Write \/ CompileFails \/ Store \/ Mark

Next ==
  \/ \E f \in File, c \in Contents : Edit(f, c)
  \/ Clean
  \/ Build
  \/ Crash \/ CrashInStore \/ CrashInDrop \/ OrphanWrites

Spec == Init /\ [][Next]_vars

-----------------------------------------------------------------------------
TypeOK ==
  /\ mode \in Modes
  /\ clock \in 0 .. mode.edits
  /\ file \in [File -> [content : Contents, mtime : 0 .. clock]]
  /\ obj \in {None} \cup [made : Made, mtime : 0 .. clock]
  /\ dep \in {None} \cup SUBSET File
  /\ marker \in BOOLEAN
  /\ cobj \in [Contents -> {None} \cup Made] /\ cmeta \in [Contents -> {None} \cup Made]
  /\ cdep \in [Contents -> {None} \cup SUBSET File]
  /\ phash \in [File -> {None} \cup [content : Contents, mtime : 0 .. clock]]
  /\ pc \in {"idle", "fresh", "key", "lookup", "restore", "invalidate", "compile", "store", "mark"}
  /\ stamps \in [File -> {None} \cup 0 .. clock]
  /\ hashes \in [File -> {None} \cup Contents]
  /\ key \in {None} \cup Contents
  /\ input \in {None} \cup Made /\ (input # None => pc = "compile")
  /\ orphan \in {None} \cup Made
  /\ began \in 0 .. clock
  /\ verdict \in {"none", "ok", "failed"}

\* After a build that succeeded the object is the one a compiler makes from the
\* files as they are: none is taken for fresh, or restored, that is not.  It
\* takes that nothing is edited behind the compiler's back, that no compiler
\* survives its builder, and that none is killed while it uses the cache.
Undisturbed == ~mode.editing /\ ~mode.orphans /\ ~(mode.kills /\ mode.cache)
Current == verdict = "ok" => obj # None /\ obj.made = Wanted
BuildIsCurrent == Undisturbed => Current

\* The metadata of a cache entry tells what its object was made from, and the
\* entry is filed under the source it was made from; if edits and kills are
\* kept away from the builder.
Honest ==
  \A c \in Contents :
    cobj[c] # None /\ cdep[c] # None /\ cmeta[c] # None =>
      /\ cobj[c] = cmeta[c] /\ cdep[c] = DOMAIN cmeta[c]
      /\ cobj[c][Source] = c
CacheIsHonest == Undisturbed => Honest

\* A hash kept from an earlier build is the hash of the file with that mtime.
HashIsHonest ==
  \A f \in File :
    phash[f] # None /\ phash[f].mtime = file[f].mtime => phash[f].content = file[f].content

-----------------------------------------------------------------------------
(* The inductive strengthening of these, proved in ObjectBuildProofs.      *)

\* What the steps of a build start from.
StepInv ==
  /\ pc \notin {"idle", "fresh", "key"} => key \in Contents
  /\ pc \in {"lookup", "restore", "store"} => mode.cache
  /\ pc = "store" => obj # None /\ dep # None
  /\ orphan # None => mode.orphans

\* A stamp is never later than the file; what a builder remembers is true as
\* long as nobody edits behind its back.
StampInv ==
  /\ \A f \in File : /\ stamps[f] # None => stamps[f] <= file[f].mtime
                     /\ phash[f] # None => phash[f].mtime <= file[f].mtime
  /\ pc # "idle" /\ ~mode.editing =>
       /\ \A f \in File : /\ stamps[f] \in {None, file[f].mtime}
                          /\ hashes[f] \in {None, file[f].content}
       /\ pc \notin {"fresh", "key"} => key = file[Source].content

\* A compiler reads the source and what it includes.
FromSource(m) == Source \in DOMAIN m /\ DOMAIN m = {Source} \cup Includes[m[Source]]

\* No file of the object has changed since it was made.
Unchanged == obj.made = Wanted /\ \A f \in DOMAIN obj.made : file[f].mtime <= obj.mtime

\* The depfile lists what the object was made from, and a file that is not
\* newer than the object is as it was then.
ObjectInv ==
  Undisturbed =>
    /\ obj # None /\ dep # None /\ pc # "restore" =>
         /\ dep = DOMAIN obj.made /\ FromSource(obj.made)
         /\ \A f \in dep : file[f].mtime <= obj.mtime => obj.made[f] = file[f].content
    /\ input # None => input = Wanted
    /\ pc \in {"restore", "store", "mark"} => obj # None /\ Unchanged
    /\ pc = "restore" => cdep[key] = DOMAIN obj.made
    /\ pc \in {"store", "mark"} => dep # None
    /\ verdict = "ok" =>
         pc \in {"idle", "fresh"} /\ marker /\ obj # None /\ dep # None /\ Unchanged

CacheInv ==
  Undisturbed =>
    /\ Honest
    /\ \A c \in Contents :
         cobj[c] # None /\ cdep[c] # None /\ cmeta[c] # None => FromSource(cobj[c])

IInv == TypeOK /\ HashIsHonest /\ StepInv /\ StampInv /\ ObjectInv /\ CacheInv
=============================================================================
