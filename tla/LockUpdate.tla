----------------------------- MODULE LockUpdate -----------------------------
(***************************************************************************)
(* c.lock, the checkouts it pins and the asset manifests of one project,   *)
(* through `c build`, `c fetch`, `c update`, `c deps clean` and `c cclean` *)
(* (src/main.c, src/cbuild_target_dep.h, src/cache_cleanup.h).             *)
(*                                                                         *)
(* The project lock lets one of these commands run at a time.  It may fail *)
(* in most steps and be killed before any of them.  `c update` first takes *)
(* the pins it renews out of c.lock, then resolves again; when it has      *)
(* succeeded and is the only command of its line, the destructor of its    *)
(* main process moves the manifests to the new checkouts and prunes what   *)
(* c.lock no longer names.  Meanwhile build.c is edited and upstream moves.*)
(***************************************************************************)
EXTENDS Naturals, Sequences, FiniteSets, Functions

CONSTANTS
  Declaration,      \* [name, url, ref, assets]: what build.c may declare
  Overlap,          \* Overlap[n]: names m with "n-" a prefix of "m-"
  MaxCommit,        \* bound: the commits of a ref
  MaxMoves,         \* bound: times upstream moves
  C_MAX_DEPS,       \* entries a LockFile holds
  C_CACHE_CLEANUP_MAX_DEPS,
                    \* and a C_CacheCleanupLock; half as many in the code
  None

Name == {d.name : d \in Declaration}
Ref == {<<d.url, d.ref>> : d \in Declaration}
Url == {d.url : d \in Declaration}

\* What c.lock says of a dependency: the commit its ref was resolved to.
Entry == [name : Name, url : Url, requested : {d.ref : d \in Declaration}, resolved : 1..MaxCommit]

\* How a dependency exposes files of its checkout: not at all; single files
\* of a full checkout (c_dep_asset); the repository (c_dep_assets); single
\* files that alone are checked out (c_dep_asset_only).
Assets == {"none", "files", "repo", "listed"}

ASSUME DeclarationAssumption ==
  /\ \A d \in Declaration : d.assets \in Assets
  /\ Overlap \in [Name -> SUBSET Name]
  /\ \A n \in Name : n \in Overlap[n]
  /\ None \notin Name \cup Entry
  /\ MaxCommit \in Nat \ {0} /\ MaxMoves \in Nat
  /\ C_MAX_DEPS \in Nat /\ C_CACHE_CLEANUP_MAX_DEPS \in Nat

VARIABLES
  build,            \* build.c: a set of declarations, one per name
  upstream,         \* the commit each ref of a repository names
  lock,             \* c.lock; <<>> when the file is absent
  src,              \* checkouts published and marked in the cache
  manifest,         \* what the manifest of a dependency maps to, or None
  command,          \* the command running
  at,               \* what it does next, "idle" when none runs
  now,              \* the dependency it is at
  todo,             \* those it has not come to yet
  mem,              \* its LockFile
  before,           \* c_cache_cleanup_before
  forwarded,        \* names whose repository has the file after `--` of the command
                    \* line, of the command running or of the last that succeeded
  result,           \* "ok" or "updated" (cleanup included) when the last thing that
                    \* happened is a command that succeeded, else "none"
  sound             \* history: manifests in step with c.lock when it started

lockVars == <<build, upstream, lock, src, manifest, command, at, now, todo, mem, before,
          forwarded, result, sound>>

\* A directory of the source cache, named by a hash of url, commit and the
\* paths selected.
Dir(e, part) == [name |-> e.name, url |-> e.url, commit |-> e.resolved, part |-> part]
DepDir == [name : Name, url : Url, commit : 1..MaxCommit, part : {"full", "listed", "one"}]

\* resolve_dependency: state->source.  With dependency_runtime_asset the one
\* file the command line forwards is checked out, and nothing else.
SourceDir(d, e) ==
  Dir(e, IF d.name \in forwarded THEN "one" ELSE IF d.assets = "listed" THEN "listed" ELSE "full")

Matches(e, d) == e.name = d.name /\ e.url = d.url /\ e.requested = d.ref

\* Of the entries of l at the places I, the one a search from the front finds.
FirstOf(l, I) == l[CHOOSE i \in I : \A j \in I : i <= j]

\* lock_for.
Places(l, d) == {i \in DOMAIN l : Matches(l[i], d)}
Pinned(l, d) == Places(l, d) # {}
LockFor(l, d) == FirstOf(l, Places(l, d))

\* c_cache_cleanup_find_name.
Named(l, n) == {i \in DOMAIN l : l[i].name = n}
FindName(l, n) == IF Named(l, n) = {} THEN None ELSE FirstOf(l, Named(l, n))

Declared(n) == CHOOSE d \in build : d.name = n

RepoNames == {d.name : d \in {x \in build : x.assets = "repo"}}

\* Entries beyond the array are skipped; the cleanup has a reader of its own.
FirstEntries(l, max) == SubSeq(l, 1, IF Len(l) > max THEN max ELSE Len(l))
LoadLock(l) == FirstEntries(l, C_MAX_DEPS)
CleanupLoadLock(l) == FirstEntries(l, C_CACHE_CLEANUP_MAX_DEPS)

-----------------------------------------------------------------------------
(* What a program built from the project sees: c_asset of casset.h.        *)

\* The path c_asset returns for a file of n, as the directory it is in, or None.
CAsset(n) ==
  IF manifest[n] = None \/ (manifest[n].kind = "repo" /\ manifest[n].dir \notin src)
    THEN None          \* a repository mapping is tried with fopen
    ELSE manifest[n].dir

\* The manifest of n leads to a checkout that is there.
Live(n) == manifest[n] # None => CAsset(n) \in src

\* The manifest of n maps to a full checkout of the first entry of n in c.lock.
InStep(n) ==
  /\ manifest[n] # None /\ FindName(lock, n) # None
  /\ manifest[n].dir = Dir(FindName(lock, n), "full")
  /\ manifest[n].dir \in src

-----------------------------------------------------------------------------
NoCommand == [kind |-> "none", wanted |-> None, standalone |-> FALSE]

LockInit ==
  /\ build \in {b \in SUBSET Declaration :
                  \A n \in Name : \E d \in b : {x \in b : x.name = n} = {d}}
  /\ upstream = [r \in Ref |-> 1]
  /\ lock = <<>> /\ src = {}
  /\ manifest = [n \in Name |-> None]
  /\ command = NoCommand
  /\ at = "idle" /\ now = None /\ todo = {} /\ mem = <<>> /\ before = <<>>
  /\ forwarded = {} /\ result = "none" /\ sound = {}

\* Dependencies are taken in the order build.c, or c.lock, has them.
First(S) == IF S = {} THEN None ELSE CHOOSE n \in S : TRUE

Disk == <<lock, src, manifest>>
World == <<build, upstream>>

(* The user and the world. *)

\* One declaration of build.c is replaced, removed or added.
EditBuild ==
  /\ at = "idle"
  /\ \E n \in Name, d \in Declaration \cup {None} :
       /\ d # None => d.name = n /\ d \notin build
       /\ build' = {x \in build : x.name # n} \cup (IF d = None THEN {} ELSE {d})
       /\ build' # build
  /\ forwarded' = {} /\ result' = "none"
  /\ UNCHANGED <<upstream, Disk, command, at, now, todo, mem, before, sound>>

MoveUpstream ==
  /\ at = "idle"
  /\ Cardinality({m \in Ref \X (2..MaxCommit) : m[2] <= upstream[m[1]]}) < MaxMoves
  /\ \E r \in Ref : upstream[r] < MaxCommit /\ upstream' = [upstream EXCEPT ![r] = @ + 1]
  /\ UNCHANGED <<build, Disk, command, at, now, todo, mem, before, forwarded, result, sound>>

(* Beginning and end of a command. *)

\* The constructor of cache_cleanup.h and load_build.  `c update` is not
\* standalone when other commands, a second word or `-j N` are on its line.
\* A build or run may forward the path of a file (dependency_runtime_asset),
\* which counts for the dependencies declared with c_dep_assets() that have it.
StartCommand ==
  /\ at = "idle"
  /\ \E kind \in {"build", "fetch", "update"}, wanted \in Name \cup {None},
        standalone \in BOOLEAN :
       /\ kind # "update" => wanted = None /\ ~standalone
       /\ command' = [kind |-> kind, wanted |-> wanted, standalone |-> standalone]
       /\ at' = IF kind = "update" THEN "drop" ELSE "resolve"
       /\ before' = IF standalone THEN CleanupLoadLock(lock) ELSE <<>>
       /\ forwarded' \in SUBSET (IF kind = "build" THEN RepoNames ELSE {})
  /\ mem' = LoadLock(lock)
  /\ todo' = {d.name : d \in build}
  /\ now' = None
  /\ result' = "none"
  /\ sound' = {n \in Name : InStep(n)}
  /\ UNCHANGED <<World, Disk>>

\* The command is over, as far as the project is concerned.
Over(how) ==
  /\ at' = "idle" /\ now' = None /\ todo' = {} /\ mem' = <<>> /\ before' = <<>>
  /\ command' = NoCommand
  /\ forwarded' = (IF how = "ok" THEN forwarded ELSE {}) /\ result' = how
  /\ UNCHANGED sound

\* die(): network, git, a missing asset, a compile error.  The status file
\* holds '1' and the destructor prunes nothing.
Die ==
  /\ at \in {"drop", "resolve", "publish", "save", "compile"}
  /\ Over("none")
  /\ UNCHANGED <<World, Disk>>

\* The process is killed; what it wrote stays.
KillCommand ==
  /\ at # "idle"
  /\ Over("none")
  /\ UNCHANGED <<World, Disk>>

(* main.c: cmd_update, resolve_all. *)

\* The entries `c update [n]` leaves in c.lock.
Kept(l, n) ==
  LET keep[i \in 0..Len(l)] ==
        IF i = 0 THEN <<>>
        ELSE IF n \in {None, l[i].name} THEN keep[i - 1]
        ELSE Append(keep[i - 1], l[i])
  IN  keep[Len(l)]

\* The pins to renew leave c.lock (save_lock or unlink) before anything is
\* resolved; a name that has no entry is an error.
Drop ==
  /\ at = "drop"
  /\ command.wanted # None => Named(lock, command.wanted) # {}
  /\ lock' = Kept(lock, command.wanted)
  /\ mem' = lock'
  /\ at' = "resolve"
  /\ UNCHANGED <<World, src, manifest, command, now, todo, before, forwarded, result, sound>>

MutPin(l, d) ==
  IF Pinned(l, d) THEN l
  ELSE Append(Kept(l, d.name),
              [name |-> d.name, url |-> d.url, requested |-> d.ref,
               resolved |-> upstream[<<d.url, d.ref>>]])
\* A dependency without an entry is pinned to what its ref names upstream.
Pin(l, d) ==
  IF Pinned(l, d) THEN l
  ELSE Append(l, [name |-> d.name, url |-> d.url, requested |-> d.ref,
                  resolved |-> upstream[<<d.url, d.ref>>]])

\* "too many lockfile dependencies" ends the command otherwise.
HasRoom(d) == Pinned(mem, d) \/ Len(mem) < C_MAX_DEPS

\* ensure_git_mirror and resolve_dependency, the checkout included.
Resolve(n) ==
  /\ at = "resolve" /\ n = First(todo)
  /\ HasRoom(Declared(n))
  /\ mem' = Pin(mem, Declared(n))
  /\ src' = src \cup {SourceDir(Declared(n), LockFor(mem', Declared(n)))}
  /\ todo' = todo \ {n}
  /\ IF command.kind = "build" /\ Declared(n).assets # "none"
       THEN at' = "publish" /\ now' = n
       ELSE UNCHANGED <<at, now>>
  /\ UNCHANGED <<World, lock, manifest, command, before, forwarded, result, sound>>

\* compiler_publish_dependency_assets: the manifest is renamed into place.
PublishAssets ==
  /\ at = "publish"
  /\ manifest' = [manifest EXCEPT ![now] =
       [kind |-> IF Declared(now).assets = "repo" THEN "repo" ELSE "files",
        dir |-> SourceDir(Declared(now), LockFor(mem, Declared(now)))]]
  /\ at' = "resolve" /\ now' = None
  /\ UNCHANGED <<World, lock, src, command, todo, mem, before, forwarded, result, sound>>

\* The names the cleanup of `c update [n]` is about.
ToClean(l, n) == {e.name : e \in {x \in Range(l) : n = None \/ x.name = n}}

\* save_lock, which writes nothing when there is nothing to write; a fetch is
\* done, and so is an update, whose destructor may have work to do.
Save ==
  /\ at = "resolve" /\ todo = {}
  /\ lock' = IF mem = <<>> THEN lock ELSE mem
  /\ \/ /\ command.kind = "build"
        /\ at' = "compile"
        /\ UNCHANGED <<command, now, todo, mem, before, forwarded, result, sound>>
     \/ /\ command.standalone
        /\ at' = "clean" /\ todo' = ToClean(before, command.wanted) /\ mem' = <<>>
        /\ UNCHANGED <<command, now, before, forwarded, result, sound>>
     \/ /\ command.kind # "build" /\ ~command.standalone
        /\ Over("ok")
  /\ UNCHANGED <<World, src, manifest>>

\* Compilation and linking of the project.
Compile ==
  /\ at = "compile"
  /\ Over("ok")
  /\ UNCHANGED <<World, Disk>>

(* cache_cleanup.h: c_cache_cleanup_prune_after_update. *)

\* c.lock as the cleanup reads it again.
After == CleanupLoadLock(lock)

Changed(n) == FindName(before, n) # FindName(After, n)

OldRoot(n) == Dir(FindName(before, n), "full")
NewRoot(n) == Dir(FindName(After, n), "full")

MutRetargeted(n) ==
  IF manifest[n] # None /\ Changed(n) /\ FindName(After, n) = None THEN {None} ELSE {manifest[n]}
\* c_cache_cleanup_retarget_asset_manifest, for the first entries of n: what
\* the manifest may become, nothing when it cannot be moved.  Only a file that
\* is in the new checkout can; the target of a repository mapping is not one.
Retargeted(n) ==
  IF manifest[n] = None \/ ~Changed(n) THEN {manifest[n]}
  ELSE IF FindName(After, n) = None THEN {None}
  ELSE IF OldRoot(n) = NewRoot(n) \/ manifest[n].dir # OldRoot(n) THEN {manifest[n]}
  ELSE IF manifest[n].kind = "files" /\ NewRoot(n) \in src
    THEN {[manifest[n] EXCEPT !.dir = NewRoot(n)]}
  ELSE {}

Retarget(n) ==
  /\ at = "clean" /\ n = First(todo)
  /\ \E m \in Retargeted(n) : manifest' = [manifest EXCEPT ![n] = m]
  /\ at' = "src" /\ now' = n /\ todo' = todo \ {n}
  /\ UNCHANGED <<World, lock, src, command, mem, before, forwarded, result, sound>>

MutCurrentSource(n, x) == FALSE
\* c_cache_cleanup_current_source: a full checkout that c.lock names.
CurrentSource(n, x) == \E e \in Range(After) : e.name = n /\ x = Dir(e, "full")

Obsolete(n) == {x \in src : x.name \in Overlap[n] /\ ~CurrentSource(n, x)}

\* c_cache_cleanup_prune_prefix, one directory at a time.
PruneSource ==
  /\ at = "src"
  /\ \/ /\ Obsolete(now) # {}
        /\ \E x \in Obsolete(now) : src' = src \ {x}
        /\ UNCHANGED <<at, now>>
     \/ /\ Obsolete(now) = {}
        /\ at' = "clean" /\ now' = None
        /\ UNCHANGED src
  /\ UNCHANGED <<World, lock, manifest, command, todo, mem, before, forwarded, result, sound>>

\* The packages and mirrors that nothing here needs go as well (see DepCache).
CleanupDone ==
  /\ at = "clean" /\ todo = {}
  /\ Over("updated")
  /\ UNCHANGED <<World, Disk>>

\* A file that cannot be read, moved or removed ends the cleanup, unnoticed.
GiveUp ==
  /\ at \in {"clean", "src"}
  /\ Over("updated")
  /\ UNCHANGED <<World, Disk>>

(* `c deps clean` and `c cclean`. *)

DepsClean ==
  /\ at = "idle"
  /\ src' = {}
  /\ forwarded' = {} /\ result' = "none" /\ sound' = {}
  /\ UNCHANGED <<World, lock, manifest, command, at, now, todo, mem, before>>

CClean ==
  /\ at = "idle"
  /\ src' = {} /\ manifest' = [n \in Name |-> None]
  /\ forwarded' = {} /\ result' = "none" /\ sound' = {}
  /\ UNCHANGED <<World, lock, command, at, now, todo, mem, before>>

LockNext ==
  \/ EditBuild \/ MoveUpstream \/ StartCommand \/ Die \/ KillCommand
  \/ Drop \/ \E n \in Name : Resolve(n)
  \/ PublishAssets \/ Save \/ Compile
  \/ \E n \in Name : Retarget(n)
  \/ PruneSource \/ CleanupDone \/ GiveUp
  \/ DepsClean \/ CClean

LockSpec == LockInit /\ [][LockNext]_lockVars

-----------------------------------------------------------------------------
LockTypeOK ==
  /\ build \subseteq Declaration
  /\ upstream \in [Ref -> 1..MaxCommit]
  /\ lock \in Seq(Entry) /\ mem \in Seq(Entry) /\ before \in Seq(Entry)
  /\ Len(lock) <= C_MAX_DEPS /\ Len(mem) <= C_MAX_DEPS
  /\ src \subseteq DepDir
  /\ manifest \in [Name -> {None} \cup [kind : {"files", "repo"}, dir : DepDir]]
  /\ command \in [kind : {"none", "build", "fetch", "update"},
                  wanted : Name \cup {None}, standalone : BOOLEAN]
  /\ at \in {"idle", "drop", "resolve", "publish", "compile", "clean", "src"}
  /\ now \in Name \cup {None} /\ todo \subseteq Name
  /\ forwarded \subseteq Name /\ sound \subseteq Name
  /\ result \in {"ok", "updated", "none"}

\* l holds one pin for each dependency.
Distinct(l) ==
  \A i, j \in DOMAIN l :
    (\A k \in {"name", "url", "requested"} : l[i][k] = l[j][k]) => i = j

\* A pin leaves c.lock or changes only in an update that was asked to renew
\* it, whatever else is resolved, fails or is killed on the way, and c.lock
\* never holds two pins for one dependency (load_lock, save_lock, lock_for,
\* cmd_update).
PinsKept ==
  [][/\ \A e \in Range(lock) \ Range(lock') :
          command.kind = "update" /\ command.wanted \in {None, e.name}
     /\ Distinct(lock')]_lockVars

\* No other name reads like the beginning of n, so no other cleanup is about
\* checkouts of n.
Unprefixed(n) == \A m \in Name : n \in Overlap[m] => m = n

\* A manifest that led to the full checkout of its dependency's first pin when
\* a command began leads to a checkout that is there as long as the command
\* runs and after it, even when it fails or is killed between any two steps:
\* the new checkout is published before the manifest moves, and the old one
\* is pruned after (cbuild_target_dep.h, c_cache_cleanup_prune_after_update).
\* Of a checkout of listed paths it is not so: CurrentSource knows full ones.
SoundStaysLive == \A n \in sound : Unprefixed(n) => Live(n)

Ready(d) == Pinned(lock, d) /\ SourceDir(d, LockFor(lock, d)) \in src

\* The cleanup knows which checkouts of d c.lock needs: all of c.lock fits its
\* array, it goes through no checkout of d on behalf of another name, and d is
\* not one of listed paths, which CurrentSource takes for obsolete.
Spared(d) ==
  Len(lock) <= C_CACHE_CLEANUP_MAX_DEPS /\ Unprefixed(d.name) /\ d.assets # "listed"

\* After a build, fetch or update that succeeded, every dependency of build.c
\* is pinned and the checkout of the pinned commit it needs is in the cache:
\* the listed paths, the one file the command line forwards, or all files.
\* Cleanup spares what was just resolved (resolve_dependency, save_lock,
\* c_cache_cleanup_prune_after_update).
ReadyAfterSuccess ==
  \A d \in build : result = "ok" \/ (result = "updated" /\ Spared(d)) => Ready(d)

-----------------------------------------------------------------------------
(* Why they hold: what is true between the steps of a command.             *)

\* Which steps belong to which command.
CommandInv ==
  /\ command.standalone => command.kind = "update"
  /\ at \in {"drop", "clean", "src"} => command.kind = "update"
  /\ at \in {"publish", "compile"} => command.kind = "build"
  /\ at # "idle" => result = "none"
  /\ command.kind = "update" \/ result = "updated" => forwarded = {}
  /\ \A d, e \in build : d.name = e.name => d = e

\* What c.lock still holds will be written again.
PinsInv ==
  /\ Distinct(lock) /\ Distinct(mem)
  /\ at \in {"resolve", "publish"} => Range(lock) \subseteq Range(mem)

Resolved(d) ==
  /\ Pinned(mem, d)
  /\ SourceDir(d, LockFor(mem, d)) \in src

\* What is not left to do is resolved, and stays so until the command ends.
ReadyInv ==
  /\ at = "drop" => todo = {d.name : d \in build}
  /\ at \in {"resolve", "publish"} =>
       /\ todo \subseteq {d.name : d \in build}
       /\ \A d \in build : d.name \in todo \/ Resolved(d)
  /\ at = "publish" => now \notin todo /\ \E d \in build : d.name = now
  /\ at = "compile" => \A d \in build : Ready(d)
  /\ at \in {"clean", "src"} => \A d \in build : Spared(d) => Ready(d)

\* While an update is at work a manifest that was in step leads to the old
\* checkout until it is its turn, to the new one while the old ones are pruned.
Rooted(n) ==
  /\ manifest[n] = None \/ manifest[n].dir.name = n
  /\ (at \in {"drop", "resolve"} /\ Named(before, n) # {}) \/ (at \in {"clean", "src"} /\ n \in todo)
       => Named(before, n) # {} /\ manifest[n] # None /\ manifest[n].dir = OldRoot(n)
  /\ at = "src" /\ now = n =>
       manifest[n] = None \/ (FindName(After, n) # None /\ manifest[n].dir = NewRoot(n))

\* Where the manifests that were in step lead.
SoundInv ==
  \A n \in sound :
    /\ Unprefixed(n) => manifest[n] = None \/ manifest[n].dir \in src
    /\ command.kind = "update" => Rooted(n)

\* What is on the list of a cleanup.
ListInv ==
  /\ at = "src" => now \in Name /\ now \notin todo
  /\ at \in {"clean", "src"} => todo \subseteq {e.name : e \in Range(before)}

LockInv ==
  /\ LockTypeOK /\ CommandInv /\ ListInv
  /\ PinsInv /\ ReadyInv /\ ReadyAfterSuccess /\ SoundInv
=============================================================================
