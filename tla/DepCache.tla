------------------------------ MODULE DepCache ------------------------------
(***************************************************************************)
(* The dependency cache of a user (src/main.c:184-401 and 693-873): the    *)
(* mirror of a repository, the checkout of a commit, and the package CMake *)
(* installs from it.  All projects of the user share it and no lock guards *)
(* it.  Mirrors and checkouts are made in a private directory, renamed     *)
(* into place and then marked; a package is built in place and stamped     *)
(* inside.  A builder drops what it finds without its mark.                *)
(*                                                                         *)
(* A process resolves one dependency and uses it, or prunes what an update *)
(* has left over (cache_cleanup.h), or clears the cache (`c deps clean`,   *)
(* `c cclean`).  It may be killed between any two steps, and, unless the   *)
(* scene is serial, processes interleave.                                  *)
(***************************************************************************)
EXTENDS Naturals, FiniteSets

CONSTANTS
  Process,
  Key,              \* dependencies that share the repository: names or commits
  Scenes

Kind == {"build", "prune", "clean"}
Stage == {"mirror", "tree", "package"}
TheMirror == <<"mirror", CHOOSE k \in Key : TRUE>>

ASSUME ScenesAssumption ==
  \A s \in Scenes :
    /\ s.kind \in [Process -> Kind] /\ s.key \in [Process -> Key]
    /\ s.kills \subseteq Kind
    /\ {s.serial, s.warm, s.cmake} \subseteq BOOLEAN

VARIABLES
  scene,            \* kind and key of each process; kills: the kinds that may be
                    \* killed; serial: one process at a time; warm: everything
                    \* is there; cmake: the dependency is a CMake package
  entry,            \* what is on disk: "none", "torn" or "whole"
  marked,           \* <entry>.c-ready, or <package>/.c-built, names the commit
  stage,            \* the entry a process is at
  step              \* and what it does with it

vars == <<scene, entry, marked, stage, step>>

At(p, s) == IF s = "mirror" THEN TheMirror ELSE <<s, scene.key[p]>>
Here(p) == At(p, stage[p])
Ended == {"done", "died", "killed"}
Running(p) == step[p] \notin Ended \cup {"idle"}

Init ==
  /\ scene \in Scenes
  /\ marked = [e \in Stage \X Key |-> scene.warm /\ (e[1] = "package" => scene.cmake)]
  /\ entry = [e \in Stage \X Key |-> IF marked[e] THEN "whole" ELSE "none"]
  /\ stage = [p \in Process |-> "mirror"]
  /\ step = [p \in Process |-> "idle"]

Go(p, s) == step' = [step EXCEPT ![p] = s] /\ UNCHANGED <<scene, stage>>
GoTo(p, st, s) ==
  /\ stage' = [stage EXCEPT ![p] = st] /\ step' = [step EXCEPT ![p] = s]
  /\ UNCHANGED scene
Put(p, c) == entry' = [entry EXCEPT ![Here(p)] = c]
PutMark(p, b) == marked' = [marked EXCEPT ![Here(p)] = b]

Start(p) ==
  /\ step[p] = "idle"
  /\ scene.serial => \A q \in Process : ~Running(q)
  /\ CASE scene.kind[p] = "build" -> GoTo(p, "mirror", "look")
       [] scene.kind[p] = "prune" -> GoTo(p, "tree", "unmark")
       [] scene.kind[p] = "clean" -> GoTo(p, "mirror", "tear")
  /\ UNCHANGED <<entry, marked>>

MutProceed(p) ==
  IF scene.kind[p] = "build"
    THEN IF stage[p] = "mirror" THEN GoTo(p, "tree", "commit") ELSE Go(p, "use")
    ELSE IF stage[p] = "tree" THEN GoTo(p, "package", "unmark") ELSE Go(p, "done")
\* On to the next entry that p needs, removes or uses.
Proceed(p) ==
  CASE scene.kind[p] = "build" ->
         CASE stage[p] = "mirror" -> GoTo(p, "tree", "commit")
           [] stage[p] = "tree" /\ scene.cmake -> GoTo(p, "package", "look")
           [] OTHER -> Go(p, "use")
    [] scene.kind[p] = "prune" ->
         CASE stage[p] = "tree" -> GoTo(p, "package", "unmark")
           [] stage[p] = "package" -> GoTo(p, "mirror", "unmark")
           [] OTHER -> Go(p, "done")
    [] OTHER ->
         CASE stage[p] = "mirror" -> GoTo(p, "tree", "tear")
           [] stage[p] = "tree" -> GoTo(p, "package", "tear")
           [] OTHER -> Go(p, "done")

(* ensure_git_mirror, resolve_dependency: look at the entry. *)

MutUsable(e) == entry[e] # "none"
\* is_real_dir and ready_marker_matches.
Usable(e) == entry[e] # "none" /\ marked[e]

MutValid(e) == entry[e] # "none"
\* git_mirror_valid: git fsck.
Valid(e) == entry[e] = "whole"

\* An entry without its mark is dropped; of a mirror git is asked first.
Look(p) ==
  /\ step[p] = "look"
  /\ \/ Usable(Here(p)) /\ Proceed(p)
     \/ entry[Here(p)] = "none" /\ stage[p] # "package" /\ Go(p, "make")
     \/ ~Usable(Here(p)) /\ stage[p] = "package" /\ Go(p, "unmark")
     \/ /\ entry[Here(p)] # "none" /\ ~Usable(Here(p)) /\ stage[p] # "package"
        /\ Go(p, IF stage[p] = "mirror" THEN "validate" ELSE "unmark")
  /\ UNCHANGED <<entry, marked>>

Validate(p) ==
  /\ step[p] = "validate"
  /\ Go(p, IF Valid(Here(p)) THEN "mark" ELSE "unmark")
  /\ UNCHANGED <<entry, marked>>

\* git_mirror_has_commit, and git_fetch_locked_commit when it has not.
Commit(p) ==
  /\ step[p] = "commit"
  /\ Go(p, IF entry[TheMirror] = "whole" THEN "look" ELSE "died")
  /\ UNCHANGED <<entry, marked>>

(* remove_cache_entry: the marker, then the tree, file by file. *)

\* The stamp of a package is a file in it, and a cleared directory holds the
\* markers of its entries: both go in the order the files are listed.
MarkerInside(p) == stage[p] = "package" \/ scene.kind[p] = "clean"

MutUnmark(p) == step[p] = "unmark" /\ Go(p, "tear") /\ UNCHANGED <<entry, marked>>
Unmark(p) ==
  /\ step[p] = "unmark"
  /\ IF MarkerInside(p) THEN UNCHANGED marked ELSE PutMark(p, FALSE)
  /\ Go(p, "tear")
  /\ UNCHANGED entry

Tear(p) ==
  /\ step[p] = "tear"
  /\ Put(p, IF entry[Here(p)] = "none" THEN "none" ELSE "torn")
  /\ \/ UNCHANGED marked
     \/ MarkerInside(p) /\ PutMark(p, FALSE)
  /\ Go(p, "remove")

Remove(p) ==
  /\ step[p] = "remove"
  /\ Put(p, "none")
  /\ IF MarkerInside(p) THEN PutMark(p, FALSE) ELSE UNCHANGED marked
  /\ IF scene.kind[p] = "build" THEN Go(p, "again") ELSE Proceed(p)

\* is_real_dir is asked again: somebody else may have put the entry there.
Again(p) ==
  /\ step[p] = "again"
  /\ IF entry[Here(p)] = "none" \/ stage[p] = "package" THEN Go(p, "make") ELSE Proceed(p)
  /\ UNCHANGED <<entry, marked>>

(* Make the entry. *)

\* git clone, and git checkout from the mirror, into a private directory.
Make(p) ==
  /\ step[p] = "make" /\ stage[p] # "package"
  /\ stage[p] = "tree" => entry[TheMirror] = "whole"
  /\ Go(p, "publish")
  /\ UNCHANGED <<entry, marked>>

\* git locks the index of the mirror while it checks out.
IndexLocked(p) == \E q \in Process \ {p} : stage[q] = "tree" /\ step[q] = "make"

\* The checkout failed; a mirror that is not valid loses its marker.
CheckoutFails(p) ==
  /\ step[p] = "make" /\ stage[p] = "tree"
  /\ entry[TheMirror] # "whole" \/ IndexLocked(p)
  /\ marked' = [marked EXCEPT ![TheMirror] = @ /\ Valid(TheMirror)]
  /\ Go(p, "died")
  /\ UNCHANGED entry

\* rename fails when the directory is there; the loser takes the winner's
\* entry if that is marked by now.
Publish(p) ==
  /\ step[p] = "publish" /\ stage[p] # "package"
  /\ \/ entry[Here(p)] = "none" /\ Put(p, "whole") /\ Go(p, "mark")
     \/ Usable(Here(p)) /\ Proceed(p) /\ UNCHANGED entry
     \/ entry[Here(p)] # "none" /\ ~Usable(Here(p)) /\ Go(p, "died") /\ UNCHANGED entry
  /\ UNCHANGED marked

MakePackage(p) ==
  /\ step[p] = "make" /\ stage[p] = "package"
  /\ Put(p, "torn")
  /\ Go(p, "publish")
  /\ UNCHANGED marked

\* Nobody else builds or removes the package p is building.
Alone(p) ==
  \A q \in Process \ {p} : Here(q) = Here(p) => step[q] \notin {"unmark", "tear", "remove", "make", "publish"}

\* cmake --build and --install.  In company the outcome is anything.
Install(p) ==
  /\ step[p] = "publish" /\ stage[p] = "package"
  /\ entry[At(p, "tree")] = "whole"
  /\ \/ Put(p, "whole")
     \/ ~Alone(p) /\ Put(p, "torn")
  /\ Go(p, "mark")
  /\ UNCHANGED marked

\* A cmake step fails: the package is removed.
InstallFails(p) ==
  /\ step[p] = "publish" /\ stage[p] = "package"
  /\ entry[At(p, "tree")] # "whole" \/ ~Alone(p)
  /\ Put(p, "none") /\ PutMark(p, FALSE)
  /\ Go(p, "died")

\* write_ready_marker, which succeeds beside an entry that is gone, and the
\* stamp, which needs its directory.
Mark(p) ==
  /\ step[p] = "mark"
  /\ IF stage[p] = "package" /\ entry[Here(p)] = "none"
       THEN Go(p, "died") /\ UNCHANGED marked
       ELSE Proceed(p) /\ PutMark(p, TRUE)
  /\ UNCHANGED entry

\* The project is compiled and linked against the entries.
Use(p) ==
  /\ step[p] = "use"
  /\ Go(p, "done")
  /\ UNCHANGED <<entry, marked>>

Kill(p) ==
  /\ Running(p) /\ scene.kind[p] \in scene.kills
  /\ Go(p, "killed")
  /\ UNCHANGED <<entry, marked>>

Step(p) ==
  \/ Start(p) \/ Look(p) \/ Validate(p) \/ Commit(p) \/ Unmark(p) \/ Tear(p)
  \/ Remove(p) \/ Again(p) \/ Make(p) \/ CheckoutFails(p) \/ Publish(p)
  \/ MakePackage(p) \/ Install(p) \/ InstallFails(p) \/ Mark(p) \/ Use(p)

Next == \E p \in Process : Step(p) \/ Kill(p)

Spec == Init /\ [][Next]_vars

-----------------------------------------------------------------------------
TypeOK ==
  /\ scene \in Scenes
  /\ entry \in [Stage \X Key -> {"none", "torn", "whole"}]
  /\ marked \in [Stage \X Key -> BOOLEAN]
  /\ stage \in [Process -> Stage]
  /\ step \in [Process -> {"idle", "look", "validate", "commit", "unmark", "tear", "remove",
                           "again", "make", "publish", "mark", "use"} \cup Ended]
  /\ \A p \in Process :
       /\ step[p] = "validate" => stage[p] = "mirror"
       /\ step[p] = "commit" => stage[p] = "tree"
       /\ step[p] = "use" => stage[p] = IF scene.cmake THEN "package" ELSE "tree"

\* Nobody removes what another one uses: one process at a time, or builds that
\* share no more than the mirror, or that find everything there.
AllBuild == \A p \in Process : scene.kind[p] = "build"
Apart == scene.serial \/ (AllBuild /\ \A p, q \in Process : p # q => scene.key[p] # scene.key[q])
Undisturbed == Apart \/ (AllBuild /\ scene.warm)

\* Who is killed: nobody where processes disturb each other, and no cleaner at
\* work on an entry that has its mark inside.
Careful ==
  /\ scene.kills # {} => Undisturbed
  /\ "clean" \notin scene.kills
  /\ scene.cmake => "prune" \notin scene.kills

\* A mark vouches for a whole entry whoever was killed where, unless somebody
\* is at work removing it: it is written after the entry is published and
\* removed before the entry is (write_ready_marker, remove_cache_entry,
\* c_cache_cleanup_remove_entry).  A package is marked where it was built, so
\* its stamp says nothing when others were at work on it at the same time.
MarkedIsWhole ==
  Careful =>
    \A e \in (IF Undisturbed THEN Stage ELSE Stage \ {"package"}) \X Key :
      marked[e] /\ entry[e] = "torn" =>
        \E p \in Process : step[p] = "remove" /\ Here(p) = e

\* What a build uses is whole as long as it uses it, also when other builds
\* of the user work on the same repository (resolve_dependency).
UsesWhole ==
  Undisturbed /\ Careful =>
    \A p \in Process : step[p] = "use" =>
      /\ entry[At(p, "tree")] = "whole"
      /\ scene.cmake => entry[At(p, "package")] = "whole"

\* Nothing a killed build or cleaner leaves behind stops a later build, and
\* builds that find everything there do not get into each other's way.
Recovers ==
  Careful /\ (scene.serial \/ (AllBuild /\ scene.warm)) => \A p \in Process : step[p] # "died"

-----------------------------------------------------------------------------
(* The inductive strengthening of these, proved in DepCacheProofs.         *)

\* Which steps there are of which processes, and what a package's stamp needs.
PathInv ==
  /\ \A p \in Process :
       /\ step[p] \in {"look", "validate", "commit", "again", "make", "publish", "mark", "use"}
            => scene.kind[p] = "build"
       /\ Running(p) /\ stage[p] = "package" /\ scene.kind[p] = "build" => scene.cmake
  /\ \A k \in Key : marked[<<"package", k>>] => scene.cmake /\ entry[<<"package", k>>] # "none"
  /\ scene.serial => \A p, q \in Process : Running(p) /\ Running(q) => p = q

\* Builds that find everything there change nothing.
WarmInv ==
  AllBuild /\ scene.warm =>
    /\ \A p \in Process : step[p] \in {"idle", "look", "commit", "use", "done", "killed"}
    /\ \A e \in Stage \X Key : e[1] # "package" \/ scene.cmake => marked[e] /\ entry[e] = "whole"

Removed(e) == \E p \in Process : step[p] = "remove" /\ Here(p) = e
Marking(e) == \E p \in Process : step[p] = "mark" /\ Here(p) = e
TornInv ==
  Careful => \A e \in Stage \X Key :
    (e[1] = "package" => Apart) /\ entry[e] = "torn" /\ (marked[e] \/ Marking(e)) => Removed(e)

\* A running process finds its entries as it left them.
OwnOf(p) ==
  /\ step[p] = "mark" => entry[Here(p)] = "whole"
  /\ step[p] \in {"tear", "remove"} /\ (scene.kind[p] = "build" \/ ~MarkerInside(p)) => ~marked[Here(p)]
  /\ scene.kind[p] = "build" =>
       /\ stage[p] # "mirror" => entry[TheMirror] = "whole"
       /\ stage[p] = "package" \/ step[p] = "use" => entry[At(p, "tree")] = "whole"
       /\ step[p] = "use" /\ scene.cmake => entry[At(p, "package")] = "whole"
       /\ stage[p] = "package" /\ step[p] \in {"unmark", "again", "make", "publish"} => ~marked[Here(p)]
       /\ step[p] \in {"again", "make"} \/ (step[p] = "publish" /\ stage[p] # "package") =>
            entry[Here(p)] = "none" \/ (stage[p] = "mirror" /\ ~scene.serial)

\* Builds side by side never remove the mirror.
MirrorOf(p) ==
  /\ entry[TheMirror] # "torn"
  /\ stage[p] = "mirror" =>
       /\ step[p] \notin {"unmark", "tear", "remove", "again"}
       /\ step[p] = "validate" => entry[TheMirror] = "whole"

OwnInv ==
  Apart /\ Careful =>
    /\ \A p \in Process : Running(p) => OwnOf(p)
    /\ ~scene.serial => \A p \in Process : MirrorOf(p)

IInv == TypeOK /\ PathInv /\ WarmInv /\ TornInv /\ OwnInv /\ Recovers
=============================================================================
