----------------------------- MODULE ObjectCache -----------------------------
(***************************************************************************)
(* One entry of the object cache, which all projects of a user share and   *)
(* no lock protects.  Its key hashes the compiler, the command and the     *)
(* source, not the headers: the builders here compile the same source in   *)
(* different checkouts, each with its own headers, and each has already    *)
(* found its own object not to be fresh.                                   *)
(*                                                                         *)
(* An entry is three files, replaced by renames and unlinked one by one.   *)
(* The contents of the headers a builder has stand for their hashes, for   *)
(* the object made from them and for the depfile.                          *)
(***************************************************************************)
EXTENDS Integers, FiniteSets

CONSTANTS
  Builder,          \* the builds that use the entry
  Headers,          \* the headers in the checkout of a builder
  Regimes,            \* the circumstances considered
  None

Version == {Headers[b] : b \in Builder}
Part == {"obj", "dep", "meta"}

ASSUME HeadersAssumption == DOMAIN Headers = Builder /\ None \notin Version
ASSUME RegimesAssumption == Regimes \subseteq [turns : BOOLEAN, kills : BOOLEAN]

VARIABLES
  regime,             \* turns: does a build start only when the others are over;
                    \* kills: may a builder be killed?
  entry,            \* the three files: which headers they are about, or None
  pc,               \* where a builder is
  obj, dep          \* the files in its build directory

cacheVars == <<regime, entry, pc, obj, dep>>

Goto(b, l) == pc' = [pc EXCEPT ![b] = l]
At(b, l) == pc[b] = l
Busy(b) == pc[b] \notin {"lookup", "done", "dead"}
MayBegin(b) == At(b, "lookup") /\ (regime.turns => ~\E c \in Builder : Busy(c))
Remove(f) == entry' = [entry EXCEPT ![f] = None]
Put(f, b) == entry' = [entry EXCEPT ![f] = Headers[b]]

-----------------------------------------------------------------------------
CacheInit ==
  /\ regime \in Regimes
  /\ entry = [f \in Part |-> None]
  /\ pc = [b \in Builder |-> "lookup"]
  /\ obj = [b \in Builder |-> None]
  /\ dep = [b \in Builder |-> None]

MutHit(b) ==
  /\ MayBegin(b)
  /\ \A f \in Part : entry[f] # None
  /\ Goto(b, "copy_obj")
  /\ UNCHANGED <<regime, entry, obj, dep>>

\* compiler_object_cache_restore: the three files exist; the metadata is read.
Hit(b) ==
  /\ MayBegin(b)
  /\ \A f \in Part : entry[f] # None
  /\ Goto(b, IF entry["meta"] = Headers[b] THEN "copy_obj" ELSE "drop_obj")
  /\ UNCHANGED <<regime, entry, obj, dep>>

Miss(b) ==
  /\ MayBegin(b)
  /\ \E f \in Part : entry[f] = None
  /\ Goto(b, "compile")
  /\ UNCHANGED <<regime, entry, obj, dep>>

\* A copy fails when another builder has removed the cached file meanwhile.
MutCopyObj(b) ==
  /\ At(b, "copy_obj")
  /\ obj' = [obj EXCEPT ![b] = entry["obj"]]
  /\ Goto(b, "copy_dep")
  /\ UNCHANGED <<regime, entry, dep>>

CopyObj(b) ==
  /\ At(b, "copy_obj")
  /\ IF entry["obj"] = None
       THEN Goto(b, "compile") /\ UNCHANGED obj
       ELSE Goto(b, "copy_dep") /\ obj' = [obj EXCEPT ![b] = entry["obj"]]
  /\ UNCHANGED <<regime, entry, dep>>

CopyDep(b) ==
  /\ At(b, "copy_dep")
  /\ IF entry["dep"] = None
       THEN Goto(b, "compile") /\ UNCHANGED dep
       ELSE Goto(b, "done") /\ dep' = [dep EXCEPT ![b] = entry["dep"]]
  /\ UNCHANGED <<regime, entry, obj>>

\* An entry with other metadata is unlinked, file by file.
DropObj(b) == At(b, "drop_obj") /\ Remove("obj") /\ Goto(b, "drop_dep") /\ UNCHANGED <<regime, obj, dep>>
DropDep(b) == At(b, "drop_dep") /\ Remove("dep") /\ Goto(b, "drop_meta") /\ UNCHANGED <<regime, obj, dep>>
DropMeta(b) == At(b, "drop_meta") /\ Remove("meta") /\ Goto(b, "compile") /\ UNCHANGED <<regime, obj, dep>>

\* The object is invalidated and compiled; a failure ends the build.
Compile(b) ==
  /\ At(b, "compile")
  /\ obj' = [obj EXCEPT ![b] = Headers[b]]
  /\ dep' = [dep EXCEPT ![b] = Headers[b]]
  /\ Goto(b, "store_obj")
  /\ UNCHANGED <<regime, entry>>

CompileFails(b) ==
  /\ At(b, "compile")
  /\ obj' = [obj EXCEPT ![b] = None]
  /\ dep' = [dep EXCEPT ![b] = None]
  /\ Goto(b, "dead")
  /\ UNCHANGED <<regime, entry>>

\* compiler_object_cache_store: two copies, then the rename of the metadata,
\* which was written to a file of this process before.
StoreObj(b) == At(b, "store_obj") /\ Put("obj", b) /\ Goto(b, "store_dep") /\ UNCHANGED <<regime, obj, dep>>
StoreDep(b) == At(b, "store_dep") /\ Put("dep", b) /\ Goto(b, "store_meta") /\ UNCHANGED <<regime, obj, dep>>
StoreMeta(b) == At(b, "store_meta") /\ Put("meta", b) /\ Goto(b, "done") /\ UNCHANGED <<regime, obj, dep>>

\* The checkout is cleaned and built again.
Again(b) ==
  /\ pc[b] \in {"done", "dead"}
  /\ obj' = [obj EXCEPT ![b] = None]
  /\ dep' = [dep EXCEPT ![b] = None]
  /\ Goto(b, "lookup")
  /\ UNCHANGED <<regime, entry>>

Crash(b) ==
  /\ regime.kills
  /\ pc[b] \notin {"done", "dead"}
  /\ Goto(b, "dead")
  /\ UNCHANGED <<regime, entry, obj, dep>>

-----------------------------------------------------------------------------
Step(b) ==
  \/ Hit(b) \/ Miss(b)
  \/ CopyObj(b) \/ CopyDep(b)
  \/ DropObj(b) \/ DropDep(b) \/ DropMeta(b)
  \/ Compile(b) \/ CompileFails(b)
  \/ StoreObj(b) \/ StoreDep(b) \/ StoreMeta(b)

CacheNext == \E b \in Builder : Step(b) \/ Again(b) \/ Crash(b)

CacheSpec == CacheInit /\ [][CacheNext]_cacheVars

-----------------------------------------------------------------------------
CacheTypeOK ==
  /\ regime \in Regimes
  /\ entry \in [Part -> Version \cup {None}]
  /\ pc \in [Builder -> {"lookup", "copy_obj", "copy_dep", "drop_obj", "drop_dep",
                         "drop_meta", "compile", "store_obj", "store_dep", "store_meta",
                         "done", "dead"}]
  /\ obj \in [Builder -> Version \cup {None}]
  /\ dep \in [Builder -> Version \cup {None}]
  /\ \A b \in Builder :      \* only what was compiled is stored
       pc[b] \in {"store_obj", "store_dep", "store_meta"} => obj[b] = Headers[b]

\* A build that ends well has an object and a depfile, also when other builds
\* removed files of the entry while it was copying them (cli.c:541).
Complete == \A b \in Builder : pc[b] = "done" => obj[b] # None /\ dep[b] # None

\* The object is the one this checkout's headers make (cli.c:531).  So it is if
\* builds of different checkouts take turns and end by themselves.
Own == \A b \in Builder : pc[b] = "done" => obj[b] = Headers[b] /\ dep[b] = Headers[b]
ObjectIsOwn == regime.turns /\ ~regime.kills => Own

-----------------------------------------------------------------------------
(* The inductive strengthening of these, proved in WorkersProofs.      *)

\* What a builder has made or copied so far.
FilesInv ==
  \A b \in Builder :
    /\ pc[b] \in {"copy_dep", "done"} => obj[b] # None
    /\ pc[b] = "done" => dep[b] # None
    /\ pc[b] \in {"store_obj", "store_dep", "store_meta"} => obj[b] = Headers[b] /\ dep[b] = Headers[b]

\* The files of the entry are about the same headers, or absent.
Uniform(v) == \A f \in Part : entry[f] = v

\* The entry as the builder at work has left it so far.
EntryAt(b) ==
  /\ pc[b] = "copy_obj" => Uniform(Headers[b])
  /\ pc[b] = "copy_dep" => Uniform(Headers[b]) /\ obj[b] = Headers[b]
  /\ pc[b] = "drop_dep" => entry["obj"] = None
  /\ pc[b] = "drop_meta" => entry["obj"] = None /\ entry["dep"] = None
  /\ pc[b] \in {"compile", "store_obj"} => Uniform(None)
  /\ pc[b] = "store_dep" => entry["obj"] = Headers[b]
  /\ pc[b] = "store_meta" => entry["obj"] = Headers[b] /\ entry["dep"] = Headers[b]

TurnsInv ==
  regime.turns /\ ~regime.kills =>
    /\ \A b, c \in Builder : Busy(b) /\ Busy(c) => b = c
    /\ (\A b \in Builder : ~Busy(b)) => \E v \in Version \cup {None} : Uniform(v)
    /\ \A b \in Builder : EntryAt(b)
    /\ Own

CacheInv == CacheTypeOK /\ FilesInv /\ TurnsInv
=============================================================================
