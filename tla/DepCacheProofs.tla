--------------------------- MODULE DepCacheProofs ---------------------------
(***************************************************************************)
(* Proofs about DepCache for any set of processes, dependencies and        *)
(* scenes.  TornInv says when a mark may be beside a torn entry, OwnInv    *)
(* what a running process may rely on, WarmInv that builds which find      *)
(* everything there change nothing.  Each is kept because a process        *)
(* changes only the entry it is at, and nobody else is at that entry,      *)
(* except that builds side by side share the mirror.                       *)
(***************************************************************************)
EXTENDS DepCache, LockUpdate, WellFoundedInduction, TLAPS

(* The entries. *)

LEMMA SceneType ==
  ASSUME TypeOK
  PROVE  /\ scene.kind \in [Process -> Kind] /\ scene.key \in [Process -> Key]
         /\ scene.kills \subseteq Kind
         /\ scene.serial \in BOOLEAN /\ scene.warm \in BOOLEAN /\ scene.cmake \in BOOLEAN
  BY ScenesAssumption DEF TypeOK

LEMMA PlaceTypes ==
  ASSUME TypeOK, NEW p \in Process
  PROVE  /\ \A s \in Stage : At(p, s) \in Stage \X Key /\ At(p, s)[1] = s
         /\ At(p, "mirror") = TheMirror /\ TheMirror[1] = "mirror"
         /\ stage[p] \in Stage /\ TheMirror \in Stage \X Key
         /\ Here(p) = At(p, stage[p])
  BY SceneType DEF TypeOK, At, TheMirror, Here, Stage

\* Dependencies with different keys share the mirror only.
LEMMA EntriesApart ==
  ASSUME TypeOK, NEW p \in Process, NEW q \in Process, scene.key[p] # scene.key[q],
         NEW s \in Stage, NEW t \in Stage, At(p, s) = At(q, t)
  PROVE  s = "mirror" /\ t = "mirror"
  BY DEF At, TheMirror, Stage

\* A step of a process changes the entry it is at, and the mark of that
\* entry, or it takes a mark from a mirror that is not whole.
LEMMA StepFrame ==
  ASSUME TypeOK, NEW p \in Process, Step(p) \/ Kill(p)
  PROVE  /\ scene' = scene
         /\ \A q \in Process \ {p} : stage'[q] = stage[q] /\ step'[q] = step[q]
         /\ \A e \in Stage \X Key : e # Here(p) =>
              /\ entry'[e] = entry[e]
              /\ marked'[e] = marked[e] \/ (e = TheMirror /\ entry[e] # "whole" /\ ~marked'[e])
  <1>. DEFINE Goes == /\ scene' = scene
                      /\ \A q \in Process \ {p} : stage'[q] = stage[q] /\ step'[q] = step[q]
  <1>. USE DEF TypeOK
  <1>1. ASSUME NEW s, Go(p, s) PROVE Goes
    BY <1>1 DEF Go
  <1>2. ASSUME NEW st, NEW s, GoTo(p, st, s) PROVE Goes
    BY <1>2 DEF GoTo
  <1>3. ASSUME Proceed(p) PROVE Goes
    BY <1>1, <1>2, <1>3 DEF Proceed
  <1>. HIDE DEF Goes
  <1>4. CASE Start(p)
    BY <1>4, <1>2, SceneType DEF Start, Goes, Kind
  <1>5. CASE Look(p) \/ Again(p)
    BY <1>5, <1>1, <1>3 DEF Look, Again, Goes
  <1>6. CASE Validate(p) \/ Commit(p) \/ Make(p) \/ Use(p) \/ Kill(p)
    BY <1>6, <1>1 DEF Validate, Commit, Make, Use, Kill, Goes
  <1>7. CASE Unmark(p) \/ Tear(p) \/ MakePackage(p) \/ Install(p) \/ InstallFails(p)
    BY <1>7, <1>1 DEF Unmark, Tear, MakePackage, Install, InstallFails, Put, PutMark, Goes
  <1>8. CASE Remove(p)
    BY <1>8, <1>1, <1>3 DEF Remove, Put, PutMark, Goes
  <1>9. CASE CheckoutFails(p)
    BY <1>9, <1>1 DEF CheckoutFails, Valid, Goes
  <1>10. CASE Publish(p) \/ Mark(p)
    BY <1>10, <1>1, <1>3 DEF Publish, Mark, Put, PutMark, Goes
  <1>. QED  BY <1>4, <1>5, <1>6, <1>7, <1>8, <1>9, <1>10 DEF Step

-----------------------------------------------------------------------------
LEMMA InitIInv == Init => IInv
  <1>. SUFFICES ASSUME Init PROVE IInv
    OBVIOUS
  <1>1. TypeOK
    BY ScenesAssumption DEF Init, TypeOK, Stage, Ended
  <1>2. PathInv
    BY <1>1, SceneType DEF Init, PathInv, Running, Stage
  <1>3. WarmInv
    BY <1>1, SceneType DEF Init, WarmInv, Stage
  <1>4. TornInv
    BY <1>1 DEF Init, TornInv, Stage
  <1>5. OwnInv
    <2>1. \A p \in Process : ~Running(p)
      BY DEF Init, Running
    <2>2. \A p \in Process : MirrorOf(p)
      BY <1>1, PlaceTypes DEF Init, MirrorOf
    <2>. QED  BY <2>1, <2>2 DEF OwnInv
  <1>6. Recovers
    BY DEF Init, Recovers
  <1>. QED  BY <1>1, <1>2, <1>3, <1>4, <1>5, <1>6 DEF IInv

LEMMA NextTypeOK == IInv /\ [Next]_vars => TypeOK'
  <1>. SUFFICES ASSUME IInv, [Next]_vars PROVE TypeOK'
    OBVIOUS
  <1>. DEFINE Steps == {"idle", "look", "validate", "commit", "unmark", "tear", "remove",
                        "again", "make", "publish", "mark", "use"} \cup Ended
              Paths == \A p \in Process :
                         /\ step[p] = "validate" => stage[p] = "mirror"
                         /\ step[p] = "commit" => stage[p] = "tree"
                         /\ step[p] = "use" => stage[p] = IF scene.cmake THEN "package" ELSE "tree"
              Ways == stage \in [Process -> Stage] /\ step \in [Process -> Steps] /\ Paths
  <1>0. TypeOK /\ Ways
    BY DEF IInv, TypeOK
  <1>1. ASSUME NEW p \in Process, Step(p) \/ Kill(p) PROVE TypeOK'
    <2>. USE DEF Ended, Stage
    <2>1. ASSUME NEW s \in Steps \ {"validate", "commit", "use"}, Go(p, s) PROVE Ways'
      BY <1>0, <2>1 DEF Go
    <2>2. ASSUME NEW t \in Stage, NEW s \in Steps \ {"validate", "use"}, GoTo(p, t, s),
                 s = "commit" => t = "tree"
          PROVE  Ways'
      BY <1>0, <2>2 DEF GoTo
    <2>3. ASSUME Running(p), Proceed(p) PROVE Ways'
      <3>1. CASE scene.kind[p] = "build"
        <4>1. CASE stage[p] = "mirror" \/ (stage[p] = "tree" /\ scene.cmake)
          BY <1>0, <2>2, <2>3, <3>1, <4>1 DEF Proceed
        <4>2. CASE ~(stage[p] = "mirror" \/ (stage[p] = "tree" /\ scene.cmake))
          <5>1. Go(p, "use") /\ (stage[p] = IF scene.cmake THEN "package" ELSE "tree")
            BY <1>0, <2>3, <3>1, <4>2, SceneType DEF Proceed, IInv, PathInv
          <5>. QED  BY <1>0, <5>1 DEF Go
        <4>. QED  BY <4>1, <4>2
      <3>2. CASE scene.kind[p] # "build"
        BY <1>0, <2>1, <2>2, <2>3, <3>2 DEF Proceed
      <3>. QED  BY <3>1, <3>2
    <2>4. Ways'
      <3>. HIDE DEF Ways
      <3>1. CASE Start(p)
        BY <1>0, <2>2, <3>1, SceneType DEF Start, Kind
      <3>2. CASE Look(p)
        <4>1. Running(p)
          BY <3>2 DEF Look, Running
        <4>2. CASE Proceed(p)
          BY <2>3, <4>1, <4>2
        <4>3. CASE Go(p, "make") \/ Go(p, "unmark")
          BY <2>1, <4>3
        <4>4. CASE stage[p] = "mirror" /\ Go(p, "validate")
          BY <1>0, <4>4 DEF Ways, Go
        <4>. QED  BY <3>2, <4>2, <4>3, <4>4 DEF Look
      <3>3. CASE Validate(p) \/ Commit(p)
        BY <2>1, <3>3 DEF Validate, Commit
      <3>4. CASE Unmark(p) \/ Tear(p) \/ MakePackage(p) \/ Install(p) \/ InstallFails(p)
        BY <2>1, <3>4 DEF Unmark, Tear, MakePackage, Install, InstallFails
      <3>5. CASE Make(p) \/ CheckoutFails(p) \/ Use(p) \/ Kill(p)
        BY <2>1, <3>5 DEF Make, CheckoutFails, Use, Kill
      <3>6. CASE Remove(p) \/ Again(p)
        BY <2>1, <2>3, <3>6 DEF Remove, Again, Running
      <3>7. CASE Publish(p) \/ Mark(p)
        BY <2>1, <2>3, <3>7 DEF Publish, Mark, Running
      <3>. QED  BY <1>1, <3>1, <3>2, <3>3, <3>4, <3>5, <3>6, <3>7 DEF Step
    <2>5. /\ entry' \in [Stage \X Key -> {"none", "torn", "whole"}]
          /\ marked' \in [Stage \X Key -> BOOLEAN]
      <3>. USE <1>0, PlaceTypes DEF TypeOK
      <3>1. CASE Start(p) \/ Look(p) \/ Validate(p) \/ Commit(p) \/ Again(p)
                 \/ Make(p) \/ Use(p) \/ Kill(p)
        BY <3>1 DEF Start, Look, Validate, Commit, Again, Make, Use, Kill
      <3>2. CASE Unmark(p) \/ Mark(p)
        <4>1. CASE Unmark(p)
          BY <4>1 DEF Unmark, PutMark
        <4>2. CASE Mark(p)
          BY <4>2 DEF Mark, PutMark
        <4>. QED  BY <3>2, <4>1, <4>2
      <3>3. CASE Tear(p)
        BY <3>3 DEF Tear, Put, PutMark
      <3>4. CASE Remove(p)
        BY <3>4 DEF Remove, Put, PutMark
      <3>5. CASE CheckoutFails(p)
        BY <3>5 DEF CheckoutFails, Valid
      <3>6. CASE Publish(p) \/ MakePackage(p) \/ Install(p)
        BY <3>6 DEF Publish, MakePackage, Install, Put
      <3>7. CASE InstallFails(p)
        BY <3>7 DEF InstallFails, Put, PutMark
      <3>. QED  BY <1>1, <3>1, <3>2, <3>3, <3>4, <3>5, <3>6, <3>7 DEF Step
    <2>6. scene' = scene
      BY <1>0, <1>1, StepFrame
    <2>. QED  BY <1>0, <2>4, <2>5, <2>6 DEF TypeOK
  <1>2. CASE UNCHANGED vars
    BY <1>0, <1>2 DEF TypeOK, vars
  <1>. QED  BY <1>1, <1>2 DEF Next

-----------------------------------------------------------------------------
(* Where a step leads. *)

\* Who may be at which step: the first part of PathInv, for one process.
PathOf(p) ==
  /\ step[p] \in {"look", "validate", "commit", "again", "make", "publish", "mark", "use"}
       => scene.kind[p] = "build"
  /\ Running(p) /\ stage[p] = "package" /\ scene.kind[p] = "build" => scene.cmake

LEMMA NextPathOf ==
  ASSUME IInv, NEW p \in Process, Step(p) \/ Kill(p)
  PROVE  PathOf(p)'
  <1>. USE DEF PathOf, Running, Ended
  <1>0. TypeOK /\ PathOf(p) /\ scene' = scene
    BY StepFrame DEF IInv, PathInv
  <1>. USE DEF TypeOK
  <1>1. ASSUME NEW s, Go(p, s), Running(p),
               s \in {"look", "validate", "commit", "again", "make", "publish", "mark", "use"}
                 => scene.kind[p] = "build"
        PROVE  PathOf(p)'
    BY <1>0, <1>1 DEF Go
  <1>2. ASSUME NEW t, NEW s, GoTo(p, t, s),
               s \in {"look", "validate", "commit", "again", "make", "publish", "mark", "use"}
                 => scene.kind[p] = "build",
               t = "package" /\ scene.kind[p] = "build" => scene.cmake
        PROVE  PathOf(p)'
    BY <1>0, <1>2 DEF GoTo
  <1>3. ASSUME Running(p), Proceed(p) PROVE PathOf(p)'
    BY <1>0, <1>1, <1>2, <1>3, SceneType DEF Proceed, Kind
  <1>. HIDE DEF PathOf, TypeOK
  <1>4. CASE Start(p)
    BY <1>4, <1>0, <1>2, SceneType DEF Start, Kind
  <1>5. CASE Look(p) \/ Validate(p) \/ Commit(p) \/ Again(p) \/ Make(p) \/ Use(p) \/ Kill(p)
    BY <1>5, <1>0, <1>1, <1>3 DEF Look, Validate, Commit, Again, Make, Use, Kill, PathOf
  <1>6. CASE Unmark(p) \/ Tear(p) \/ Remove(p)
    BY <1>6, <1>1, <1>3 DEF Unmark, Tear, Remove
  <1>7. CASE MakePackage(p) \/ Install(p) \/ InstallFails(p) \/ CheckoutFails(p)
    BY <1>7, <1>0, <1>1 DEF MakePackage, Install, InstallFails, CheckoutFails, PathOf
  <1>8. CASE Publish(p) \/ Mark(p)
    BY <1>8, <1>0, <1>1, <1>3 DEF Publish, Mark, PathOf
  <1>. QED  BY <1>4, <1>5, <1>6, <1>7, <1>8 DEF Step

\* A package has its stamp inside.
LEMMA NextStamp ==
  ASSUME IInv, NEW p \in Process, Step(p) \/ Kill(p), NEW k \in Key, marked'[<<"package", k>>]
  PROVE  scene.cmake /\ entry'[<<"package", k>>] # "none"
  <1>. DEFINE e == <<"package", k>>
  <1>0. /\ TypeOK /\ e \in Stage \X Key /\ (marked[e] => scene.cmake /\ entry[e] # "none")
        /\ e # TheMirror /\ (Here(p) = e => stage[p] = "package")
    <2>1. TypeOK /\ e \in Stage \X Key /\ (marked[e] => scene.cmake /\ entry[e] # "none")
      BY DEF IInv, PathInv, Stage
    <2>2. e[1] = "package" /\ TheMirror[1] = "mirror"
      BY DEF TheMirror
    <2>3. stage[p] = "package" \/ Here(p)[1] # "package"
      BY <2>1, PlaceTypes
    <2>. HIDE DEF e
    <2>. QED  BY <2>1, <2>2, <2>3
  <1>1. CASE Here(p) # e
    BY <1>0, <1>1, StepFrame
  <1>2. CASE Here(p) = e
    <2>. USE <1>0, <1>2 DEF TypeOK, Put, PutMark
    <2>. HIDE DEF e
    <2>1. CASE Start(p) \/ Look(p) \/ Validate(p) \/ Commit(p) \/ Again(p)
               \/ Make(p) \/ Use(p) \/ Kill(p)
      BY <2>1 DEF Start, Look, Validate, Commit, Again, Make, Use, Kill, e
    <2>2. CASE Unmark(p)
      BY <2>2 DEF Unmark, e
    <2>3. CASE Tear(p)
      BY <2>3 DEF Tear, e
    <2>4. CASE Remove(p) \/ InstallFails(p)
      BY <2>4 DEF Remove, MarkerInside, InstallFails, e
    <2>5. CASE CheckoutFails(p) \/ Publish(p)
      BY <2>5 DEF CheckoutFails, Publish
    <2>6. CASE MakePackage(p) \/ Install(p)
      BY <2>6 DEF MakePackage, Install, e
    <2>7. CASE Mark(p)
      BY <2>7 DEF Mark, IInv, PathInv, Running, Ended, e
    <2>. QED  BY <2>1, <2>2, <2>3, <2>4, <2>5, <2>6, <2>7 DEF Step
  <1>. QED  BY <1>1, <1>2

LEMMA NextPathInv == IInv /\ [Next]_vars => PathInv'
  <1>. SUFFICES ASSUME IInv, [Next]_vars PROVE PathInv'
    OBVIOUS
  <1>1. ASSUME NEW p \in Process, Step(p) \/ Kill(p) PROVE PathInv'
    <2>0. /\ TypeOK /\ TypeOK' /\ PathInv /\ scene' = scene
          /\ \A q \in Process \ {p} : stage'[q] = stage[q] /\ step'[q] = step[q]
      BY <1>1, StepFrame, NextTypeOK DEF IInv
    <2>1. ASSUME NEW q \in Process PROVE PathOf(q)'
      <3>1. CASE q = p
        BY <1>1, <3>1, NextPathOf
      <3>2. CASE q # p
        BY <2>0, <3>2 DEF PathInv, PathOf, Running
      <3>. QED  BY <3>1, <3>2
    <2>2. \A k \in Key : marked'[<<"package", k>>] => scene'.cmake /\ entry'[<<"package", k>>] # "none"
      BY <1>1, <2>0, NextStamp
    <2>3. ASSUME scene.serial PROVE \A q, r \in Process : Running(q)' /\ Running(r)' => q = r
      <3>1. ASSUME NEW q \in Process \ {p} PROVE ~Running(q)'
        <4>1. ~Running(q)
          <5>1. CASE Start(p)
            BY <2>3, <5>1 DEF Start
          <5>2. CASE ~Start(p)
            <6>1. Running(p)
              BY <1>1, <5>2 DEF Step, Look, Validate, Commit, Unmark, Tear, Remove, Again, Make,
                 CheckoutFails, Publish, MakePackage, Install, InstallFails, Mark, Use, Kill,
                 Running, Ended
            <6>. QED  BY <2>0, <2>3, <6>1 DEF PathInv
          <5>. QED  BY <5>1, <5>2
        <4>. QED  BY <2>0, <4>1 DEF Running
      <3>. QED  BY <3>1
    <2>. QED  BY <2>0, <2>1, <2>2, <2>3 DEF PathInv, PathOf
  <1>2. CASE UNCHANGED vars
    BY <1>2 DEF vars, IInv, PathInv, Running
  <1>. QED  BY <1>1, <1>2 DEF Next

LEMMA NextWarmInv == IInv /\ [Next]_vars => WarmInv'
  <1>. SUFFICES ASSUME IInv, [Next]_vars, AllBuild', scene'.warm PROVE WarmInv'
    BY DEF WarmInv
  <1>1. ASSUME NEW p \in Process, Step(p) \/ Kill(p) PROVE WarmInv'
    <2>0. TypeOK /\ scene' = scene /\ AllBuild /\ scene.warm /\ WarmInv
      BY <1>1, StepFrame DEF IInv, AllBuild
    <2>1. /\ step[p] \in {"idle", "look", "commit", "use", "done", "killed"}
          /\ \A e \in Stage \X Key : e[1] # "package" \/ scene.cmake => marked[e] /\ entry[e] = "whole"
          /\ scene.kind[p] = "build" /\ Here(p) \in Stage \X Key
      BY <2>0, PlaceTypes DEF WarmInv, AllBuild
    <2>2. Start(p) \/ Look(p) \/ Commit(p) \/ Use(p) \/ Kill(p)
      BY <1>1, <2>1 DEF Step, Validate, Unmark, Tear, Remove, Again, Make, CheckoutFails,
         Publish, MakePackage, Install, InstallFails, Mark
    <2>3. UNCHANGED <<entry, marked>>
      BY <2>2 DEF Start, Look, Commit, Use, Kill
    <2>4. step'[p] \in {"idle", "look", "commit", "use", "done", "killed"}
      <3>. USE <2>0, <2>1 DEF TypeOK, Go, GoTo
      <3>1. CASE Start(p)
        BY <3>1 DEF Start
      <3>2. CASE Look(p)
        <4>1. Here(p)[1] = stage[p] /\ (stage[p] = "package" => scene.cmake)
          BY <3>2, PlaceTypes DEF Look, IInv, PathInv, Running, Ended
        <4>2. Usable(Here(p))
          BY <4>1 DEF Usable
        <4>3. Proceed(p)
          BY <3>2, <4>2 DEF Look, Usable
        <4>. QED  BY <4>3 DEF Proceed
      <3>3. CASE Commit(p) \/ Use(p) \/ Kill(p)
        BY <3>3, PlaceTypes DEF Commit, Use, Kill
      <3>. QED  BY <2>2, <3>1, <3>2, <3>3
    <2>. QED  BY <1>1, <2>0, <2>3, <2>4, StepFrame DEF WarmInv
  <1>2. CASE UNCHANGED vars
    BY <1>2 DEF vars, IInv, WarmInv, AllBuild
  <1>. QED  BY <1>1, <1>2 DEF Next

-----------------------------------------------------------------------------
(* Who is at an entry. *)

LEMMA Separate ==
  ASSUME IInv, Apart, NEW p \in Process, NEW q \in Process, p # q, Running(p), Running(q),
         Here(p) = Here(q)
  PROVE  ~scene.serial /\ stage[p] = "mirror" /\ stage[q] = "mirror"
  <1>1. TypeOK /\ ~scene.serial
    BY DEF IInv, PathInv
  <1>2. scene.key[p] # scene.key[q]
    BY <1>1 DEF Apart
  <1>. QED  BY <1>1, <1>2, EntriesApart, PlaceTypes DEF Here

\* A marked entry is whole for a build, which takes it without looking closer.
LEMMA UsableIsWhole ==
  ASSUME IInv, Apart, Careful, NEW p \in Process, Running(p), step[p] # "remove", Usable(Here(p))
  PROVE  entry[Here(p)] = "whole"
  <1>1. TypeOK /\ Here(p) \in Stage \X Key
    BY PlaceTypes DEF IInv
  <1>2. entry[Here(p)] # "torn"
    <2>1. SUFFICES ASSUME entry[Here(p)] = "torn" PROVE FALSE
      OBVIOUS
    <2>2. PICK q \in Process : step[q] = "remove" /\ Here(q) = Here(p)
      BY <1>1, <2>1 DEF IInv, TornInv, Removed, Usable
    <2>3. Running(q) /\ q # p
      BY <2>2 DEF Running, Ended
    <2>4. ~scene.serial /\ stage[q] = "mirror"
      BY <2>2, <2>3, Separate
    <2>. QED  BY <2>2, <2>4 DEF IInv, OwnInv, MirrorOf
  <1>. QED  BY <1>1, <1>2 DEF TypeOK, Usable

\* Apart from others a package is built alone.
LEMMA ApartIsAlone ==
  ASSUME IInv, Apart, NEW p \in Process, Running(p), stage[p] = "package"
  PROVE  Alone(p)
  BY Separate DEF Alone, Running, Ended

LEMMA NextTornInv == IInv /\ [Next]_vars => TornInv'
  <1>1. ASSUME IInv, NEW p \in Process, Step(p) \/ Kill(p), Careful', NEW e \in Stage \X Key,
               e[1] = "package" => Apart', entry'[e] = "torn", marked'[e] \/ Marking(e)'
        PROVE  Removed(e)'
    <2>0. TypeOK /\ TypeOK' /\ scene' = scene /\ Careful /\ (e[1] = "package" => Apart)
      BY <1>1, StepFrame, NextTypeOK DEF IInv, Next, Careful, Undisturbed, Apart, AllBuild
    <2>1. \A q \in Process \ {p} : step'[q] = step[q] /\ Here(q)' = Here(q)
      BY <1>1, <2>0, StepFrame DEF Here, At
    <2>2. ASSUME step'[p] = "mark" PROVE Here(p)' = Here(p)
      <3>1. stage'[p] = stage[p]
        <4>. USE <2>0 DEF TypeOK, Go, GoTo
        <4>1. ~Proceed(p)
          BY <2>2 DEF Proceed
        <4>2. CASE Start(p)
          BY <2>2, <4>2, SceneType DEF Start, Kind
        <4>3. CASE Look(p) \/ Remove(p) \/ Again(p) \/ Publish(p) \/ Mark(p)
          BY <4>1, <4>3 DEF Look, Remove, Again, Publish, Mark
        <4>4. CASE Validate(p) \/ Commit(p) \/ Unmark(p) \/ Tear(p) \/ Make(p) \/ CheckoutFails(p)
                   \/ MakePackage(p) \/ Install(p) \/ InstallFails(p) \/ Use(p) \/ Kill(p)
          BY <4>4 DEF Validate, Commit, Unmark, Tear, Make, CheckoutFails, MakePackage, Install,
             InstallFails, Use, Kill
        <4>. QED  BY <1>1, <4>2, <4>3, <4>4 DEF Step
      <3>. QED  BY <2>0, <3>1 DEF Here, At
    \* Whoever removed the entry before goes on with it.
    <2>3. ASSUME NEW r \in Process \ {p}, step[r] = "remove", Here(r) = e PROVE Removed(e)'
      BY <2>1, <2>3 DEF Removed
    <2>4. ASSUME entry[e] = "torn", marked[e] \/ Marking(e), ~(step[p] = "remove" /\ Here(p) = e)
          PROVE  Removed(e)'
      BY <1>1, <2>0, <2>3, <2>4 DEF IInv, TornInv, Removed
    <2>5. CASE Here(p) # e
      <3>1. entry[e] = "torn" /\ (marked'[e] => marked[e])
        BY <1>1, <2>0, <2>5, StepFrame
      <3>2. Marking(e)' => Marking(e)
        BY <2>1, <2>2, <2>5 DEF Marking
      <3>. QED  BY <1>1, <2>4, <2>5, <3>1, <3>2
    <2>6. CASE Here(p) = e
      <3>. USE <2>0, <2>6 DEF TypeOK
      <3>0. stage[p] = "package" => Apart
        BY PlaceTypes
      <3>1. CASE Kill(p)
        <4>0. UNCHANGED <<entry, marked>> /\ step'[p] = "killed"
          BY <3>1 DEF Kill, Go
        <4>1. Marking(e)' => \E q \in Process \ {p} : step[q] = "mark" /\ Here(q) = e
          BY <2>1, <4>0 DEF Marking
        <4>2. CASE step[p] # "remove"
          BY <1>1, <2>4, <4>0, <4>1, <4>2 DEF Marking
        <4>3. CASE step[p] = "remove"
          <5>1. scene.kind[p] \in scene.kills /\ Running(p) /\ Undisturbed
            BY <3>1 DEF Kill, Careful
          <5>2. Apart
            BY <1>1, <4>3, <5>1 DEF Undisturbed, IInv, WarmInv
          <5>3. OwnOf(p) /\ (~scene.serial => MirrorOf(p))
            BY <1>1, <5>1, <5>2 DEF IInv, OwnInv
          <5>4. ~marked[e]
            <6>1. CASE scene.kind[p] = "build" \/ ~MarkerInside(p)
              BY <4>3, <5>3, <6>1 DEF OwnOf
            <6>2. CASE scene.kind[p] = "prune" /\ stage[p] = "package"
              <7>1. e = <<"package", scene.key[p]>> /\ scene.key[p] \in Key /\ ~scene.cmake
                BY <5>1, <6>2, SceneType DEF Here, At, Careful
              <7>. QED  BY <1>1, <7>1 DEF IInv, PathInv
            <6>. QED  BY <5>1, <6>1, <6>2, SceneType DEF Careful, Kind, MarkerInside
          <5>5. ~\E q \in Process \ {p} : step[q] = "mark" /\ Here(q) = e
            BY <1>1, <4>3, <5>1, <5>2, <5>3, Separate DEF Running, Ended, MirrorOf
          <5>. QED  BY <1>1, <4>0, <4>1, <5>4, <5>5
        <4>. QED  BY <4>2, <4>3
      <3>2. CASE Tear(p)
        <4>1. step'[p] = "remove" /\ stage' = stage
          BY <3>2 DEF Tear, Go
        <4>. QED  BY <4>1 DEF Removed, Here, At
      <3>3. CASE Remove(p) \/ InstallFails(p)
        BY <1>1, <3>3 DEF Remove, InstallFails, Put
      <3>4. CASE MakePackage(p) \/ Install(p)
        <4>1. Apart /\ Running(p) /\ OwnOf(p) /\ Alone(p)
          BY <1>1, <3>0, <3>4, ApartIsAlone DEF MakePackage, Install, IInv, OwnInv, Running, Ended
        <4>2. ~Install(p)
          BY <1>1, <4>1 DEF Install, Put
        <4>3. MakePackage(p) /\ step'[p] = "publish" /\ marked' = marked
          BY <3>4, <4>2 DEF MakePackage, Go
        <4>4. scene.kind[p] = "build"
          BY <1>1, <4>3 DEF MakePackage, IInv, PathInv
        <4>5. ~marked[e]
          BY <4>1, <4>3, <4>4 DEF MakePackage, OwnOf
        <4>6. ~Marking(e)'
          BY <1>1, <2>1, <4>1, <4>3, Separate DEF MakePackage, Marking, Running, Ended
        <4>. QED  BY <1>1, <4>3, <4>5, <4>6
      <3>5. CASE Start(p) \/ Look(p) \/ Commit(p) \/ Unmark(p) \/ Again(p) \/ Make(p) \/ Use(p)
        <4>1. /\ entry' = entry /\ (marked'[e] => marked[e]) /\ step'[p] # "mark"
              /\ step[p] # "remove"
          <5>1. Proceed(p) => step'[p] # "mark"
            BY DEF Proceed, Go, GoTo
          <5>2. CASE Start(p)
            BY <5>2, SceneType DEF Start, GoTo, Kind
          <5>4. CASE Unmark(p)
            BY <5>4 DEF Unmark, PutMark, Go
          <5>3. CASE Look(p) \/ Commit(p) \/ Again(p) \/ Make(p) \/ Use(p)
            BY <5>1, <5>3 DEF Look, Commit, Again, Make, Use, Go
          <5>. QED  BY <3>5, <5>2, <5>3, <5>4
        <4>2. Marking(e)' => Marking(e)
          BY <2>1, <4>1 DEF Marking
        <4>. QED  BY <1>1, <2>4, <4>1, <4>2
      <3>6. CASE Validate(p)
        <4>1. /\ UNCHANGED <<entry, marked>> /\ step[p] = "validate"
              /\ step'[p] = "mark" => entry[e] = "whole"
          BY <3>6 DEF Validate, Valid, Go
        <4>2. Marking(e)' => Marking(e)
          BY <1>1, <2>1, <4>1 DEF Marking
        <4>. QED  BY <1>1, <2>4, <4>1, <4>2
      <3>7. CASE CheckoutFails(p)
        <4>1. /\ entry' = entry /\ (marked'[e] => marked[e]) /\ step'[p] # "mark"
              /\ step[p] # "remove"
          BY <3>7, PlaceTypes DEF CheckoutFails, Go
        <4>2. Marking(e)' => Marking(e)
          BY <2>1, <4>1 DEF Marking
        <4>. QED  BY <1>1, <2>4, <4>1, <4>2
      <3>8. CASE Publish(p)
        <4>1. CASE entry[e] = "none"
          BY <1>1, <3>8, <4>1 DEF Publish, Put, Usable
        <4>2. CASE entry[e] # "none"
          <5>1. UNCHANGED <<entry, marked>> /\ step'[p] # "mark" /\ step[p] # "remove"
            BY <3>8, <4>2 DEF Publish, Proceed, Go, GoTo
          <5>2. Marking(e)' => Marking(e)
            BY <2>1, <5>1 DEF Marking
          <5>. QED  BY <1>1, <2>4, <5>1, <5>2
        <4>. QED  BY <4>1, <4>2
      <3>9. CASE Mark(p)
        <4>1. entry' = entry /\ Marking(e) /\ step[p] # "remove"
          BY <3>9 DEF Mark, Marking
        <4>. QED  BY <1>1, <2>4, <4>1
      <3>. QED  BY <1>1, <3>1, <3>2, <3>3, <3>4, <3>5, <3>6, <3>7, <3>8, <3>9 DEF Step
    <2>. QED  BY <2>5, <2>6
  <1>2. ASSUME IInv, UNCHANGED vars PROVE TornInv'
    BY <1>2 DEF vars, IInv, TornInv, Careful, Undisturbed, Apart, AllBuild, Marking, Removed, Here, At
  <1>. QED  BY <1>1, <1>2 DEF Next, TornInv

-----------------------------------------------------------------------------
(* What a process relies on. *)

\* The entries of a process are three, and stay where they are.
LEMMA OwnPlaces ==
  ASSUME TypeOK, NEW p \in Process, scene' = scene
  PROVE  /\ TheMirror # At(p, "tree") /\ TheMirror # At(p, "package")
         /\ At(p, "tree") # At(p, "package")
         /\ At(p, "tree")' = At(p, "tree") /\ At(p, "package")' = At(p, "package")
         /\ (stage'[p] = stage[p] => Here(p)' = Here(p))
         /\ (stage'[p] = "mirror" => Here(p)' = TheMirror)
         /\ (stage'[p] # "mirror" => Here(p)' = At(p, stage'[p]))
         /\ (MarkerInside(p)' <=> stage'[p] = "package" \/ scene.kind[p] = "clean")
  BY DEF At, Here, TheMirror, MarkerInside

\* With a whole entry, and a whole mirror before it, a build goes on.
LEMMA ProceedOwn ==
  ASSUME IInv, NEW p \in Process, Proceed(p), Running(p), scene' = scene,
         scene.kind[p] = "build" =>
           /\ entry'[Here(p)] = "whole"
           /\ stage[p] # "mirror" => entry'[TheMirror] = "whole"
           /\ stage[p] = "package" => entry'[At(p, "tree")] = "whole"
  PROVE  OwnOf(p)'
  <1>. USE DEF Proceed, Go, GoTo
  <1>0. TypeOK /\ scene.kind[p] \in Kind
    BY SceneType DEF IInv
  <1>1. CASE scene.kind[p] = "build"
    <2>1. CASE stage[p] = "mirror"
      <3>1. stage'[p] = "tree" /\ step'[p] = "commit" /\ Here(p) = TheMirror
        BY <1>0, <1>1, <2>1, PlaceTypes DEF TypeOK
      <3>. QED  BY <1>0, <1>1, <3>1 DEF OwnOf
    <2>2. CASE stage[p] = "tree" /\ scene.cmake
      <3>1. stage'[p] = "package" /\ step'[p] = "look" /\ Here(p) = At(p, "tree")
        BY <1>0, <1>1, <2>2, PlaceTypes DEF TypeOK
      <3>. QED  BY <1>0, <1>1, <2>2, <3>1, OwnPlaces DEF OwnOf
    <2>3. CASE ~(stage[p] = "mirror" \/ (stage[p] = "tree" /\ scene.cmake))
      <3>1. stage' = stage /\ step'[p] = "use"
        BY <1>0, <1>1, <2>3 DEF TypeOK
      <3>2. stage[p] = IF scene.cmake THEN "package" ELSE "tree"
        BY <1>0, <1>1, <2>3, SceneType DEF IInv, PathInv, TypeOK, Stage
      <3>3. entry'[Here(p)] = "whole" /\ Here(p) = At(p, stage[p])
        BY <1>0, <1>1, PlaceTypes
      <3>. QED  BY <1>0, <1>1, <3>1, <3>2, <3>3, OwnPlaces DEF OwnOf
    <2>. QED  BY <2>1, <2>2, <2>3
  <1>2. CASE scene.kind[p] = "prune"
    <2>1. step'[p] \in {"unmark", "done"}
      BY <1>0, <1>2 DEF TypeOK
    <2>. QED  BY <1>2, <2>1 DEF OwnOf
  <1>3. CASE scene.kind[p] = "clean"
    <2>1. step'[p] \in {"tear", "done"}
      BY <1>0, <1>3 DEF TypeOK
    <2>. QED  BY <1>0, <1>3, <2>1, OwnPlaces DEF OwnOf
  <1>. QED  BY <1>0, <1>1, <1>2, <1>3 DEF Kind

LEMMA NextOwnOf ==
  ASSUME IInv, Apart, Careful, NEW p \in Process, Step(p) \/ Kill(p), Running(p)'
  PROVE  OwnOf(p)'
  <1>0. /\ TypeOK /\ TypeOK' /\ scene' = scene /\ Here(p) = At(p, stage[p])
        /\ At(p, "mirror") = TheMirror
        /\ Here(p) \in Stage \X Key /\ stage[p] \in Stage
    BY StepFrame, NextTypeOK, PlaceTypes DEF IInv, Next
  <1>1. Running(p) => OwnOf(p) /\ (~scene.serial => MirrorOf(p))
    BY DEF IInv, OwnInv
  <1>2. step[p] \in {"look", "validate", "commit", "again", "make", "publish", "mark", "use"}
          => scene.kind[p] = "build"
    BY DEF IInv, PathInv
  <1>3. Running(p) /\ step[p] # "remove" /\ Usable(Here(p)) => entry[Here(p)] = "whole"
    BY UsableIsWhole
  <1>. USE <1>0 DEF TypeOK, Go, Stage
  <1>4. CASE Start(p)
    <2>1. \/ scene.kind[p] = "build" /\ step'[p] = "look" /\ stage'[p] = "mirror"
          \/ scene.kind[p] = "prune" /\ step'[p] = "unmark"
          \/ scene.kind[p] = "clean" /\ step'[p] = "tear"
      <3>1. scene.kind[p] \in {"build", "prune", "clean"}
        BY SceneType DEF Kind
      <3>2. CASE scene.kind[p] = "build"
        BY <1>4, <3>2 DEF Start, GoTo
      <3>3. CASE scene.kind[p] = "prune"
        BY <1>4, <3>3 DEF Start, GoTo
      <3>4. CASE scene.kind[p] = "clean"
        BY <1>4, <3>4 DEF Start, GoTo
      <3>. QED  BY <3>1, <3>2, <3>3, <3>4
    <2>. QED  BY <2>1, OwnPlaces DEF OwnOf
  <1>5. CASE Look(p)
    <2>1. Running(p) /\ OwnOf(p) /\ scene.kind[p] = "build" /\ UNCHANGED <<entry, marked>>
      BY <1>1, <1>2, <1>5 DEF Look, Running, Ended
    <2>2. CASE Usable(Here(p)) /\ Proceed(p)
      BY <1>3, <1>5, <2>1, <2>2, ProceedOwn DEF Look, OwnOf
    <2>3. CASE ~(Usable(Here(p)) /\ Proceed(p))
      <3>1. stage' = stage /\ step'[p] \in {"make", "unmark", "validate"}
            /\ (step'[p] = "make" => stage[p] # "package" /\ entry[Here(p)] = "none")
            /\ (step'[p] = "unmark" => ~Usable(Here(p)))
        BY <1>5, <2>3 DEF Look
      <3>2. stage[p] = "package" /\ marked[Here(p)] => entry[Here(p)] # "none"
        BY SceneType DEF IInv, PathInv, At
      <3>. QED  BY <1>5, <2>1, <3>1, <3>2, OwnPlaces DEF Look, OwnOf, Usable
    <2>. QED  BY <2>2, <2>3
  <1>6. CASE Validate(p) \/ Commit(p)
    <2>1. Running(p) /\ OwnOf(p) /\ scene.kind[p] = "build" /\ UNCHANGED <<entry, marked, stage>>
      BY <1>1, <1>2, <1>6 DEF Validate, Commit, Go, Running, Ended
    <2>. QED  BY <1>6, <2>1, OwnPlaces DEF Validate, Commit, OwnOf, Valid, Running, Ended
  <1>7. CASE Unmark(p)
    <2>1. Running(p) /\ OwnOf(p)
      BY <1>1, <1>7 DEF Unmark, Running, Ended
    <2>. QED  BY <1>7, <2>1, OwnPlaces DEF Unmark, PutMark, OwnOf, MarkerInside
  <1>8. CASE Tear(p)
    <2>1. Running(p) /\ OwnOf(p)
      BY <1>1, <1>8 DEF Tear, Running, Ended
    <2>. QED  BY <1>8, <2>1, OwnPlaces DEF Tear, Put, PutMark, OwnOf, MarkerInside
  <1>9. CASE Remove(p)
    <2>1. Running(p) /\ OwnOf(p)
      BY <1>1, <1>9 DEF Remove, Running, Ended
    <2>2. CASE scene.kind[p] = "build"
      BY <1>9, <2>1, <2>2, OwnPlaces DEF Remove, Put, PutMark, OwnOf, MarkerInside
    <2>3. CASE scene.kind[p] # "build"
      BY <1>9, <2>1, <2>3, ProceedOwn DEF Remove
    <2>. QED  BY <2>2, <2>3
  <1>10. CASE Again(p) \/ Make(p)
    <2>1. /\ Running(p) /\ OwnOf(p) /\ scene.kind[p] = "build" /\ UNCHANGED <<entry, marked>>
          /\ ~scene.serial => MirrorOf(p)
      BY <1>1, <1>2, <1>10 DEF Again, Make, Running, Ended
    <2>2. stage' = stage /\ step'[p] = IF step[p] = "again" THEN "make" ELSE "publish"
      BY <1>10, <2>1 DEF Again, Make, OwnOf, MirrorOf
    <2>. QED  BY <1>10, <2>1, <2>2, OwnPlaces DEF Again, Make, OwnOf
  <1>11. CASE Publish(p)
    <2>1. Running(p) /\ OwnOf(p) /\ scene.kind[p] = "build" /\ marked' = marked
      BY <1>1, <1>2, <1>11 DEF Publish, Running, Ended
    <2>2. CASE entry[Here(p)] = "none"
      <3>1. entry' = [entry EXCEPT ![Here(p)] = "whole"] /\ stage' = stage /\ step'[p] = "mark"
        BY <1>11, <2>2 DEF Publish, Put, Usable
      <3>. QED  BY <1>11, <2>1, <3>1, OwnPlaces DEF Publish, OwnOf
    <2>3. CASE Usable(Here(p)) /\ Proceed(p) /\ entry' = entry
      BY <1>3, <1>11, <2>1, <2>3, ProceedOwn DEF Publish, OwnOf
    <2>. QED  BY <1>11, <2>2, <2>3 DEF Publish, Running, Ended
  <1>12. CASE MakePackage(p)
    <2>1. Running(p) /\ OwnOf(p) /\ scene.kind[p] = "build"
      BY <1>1, <1>2, <1>12 DEF MakePackage, Running, Ended
    <2>. QED  BY <1>12, <2>1, OwnPlaces DEF MakePackage, Put, OwnOf
  <1>13. CASE Install(p)
    <2>1. Running(p) /\ OwnOf(p) /\ scene.kind[p] = "build"
      BY <1>1, <1>2, <1>13 DEF Install, Running, Ended
    <2>2. Alone(p)
      BY <1>13, <2>1, ApartIsAlone DEF Install
    <2>3. entry' = [entry EXCEPT ![Here(p)] = "whole"] /\ stage' = stage /\ step'[p] = "mark"
      BY <1>13, <2>2 DEF Install, Put
    <2>. QED  BY <1>13, <2>1, <2>3, OwnPlaces DEF Install, OwnOf
  <1>14. CASE Mark(p)
    <2>1. Running(p) /\ OwnOf(p) /\ scene.kind[p] = "build" /\ entry' = entry
      BY <1>1, <1>2, <1>14 DEF Mark, Running, Ended
    <2>2. Proceed(p)
      BY <1>14, <2>1 DEF Mark, OwnOf
    <2>. QED  BY <1>14, <2>1, <2>2, ProceedOwn DEF Mark, OwnOf
  <1>15. CASE CheckoutFails(p) \/ InstallFails(p) \/ Use(p) \/ Kill(p)
    <2>1. step'[p] \in {"died", "done", "killed"}
      BY <1>15 DEF CheckoutFails, InstallFails, Use, Kill
    <2>. QED  BY <2>1 DEF Running, Ended
  <1>. QED  BY <1>4, <1>5, <1>6, <1>7, <1>8, <1>9, <1>10, <1>11, <1>12, <1>13, <1>14, <1>15 DEF Step

\* Builds side by side leave a whole mirror alone.
LEMMA NextMirrorOf ==
  ASSUME IInv, Apart, Careful, ~scene.serial, NEW p \in Process, Step(p) \/ Kill(p)
  PROVE  /\ MirrorOf(p)'
         /\ entry'[TheMirror] # "torn"
         /\ entry[TheMirror] = "whole" => entry'[TheMirror] = "whole" /\ (marked[TheMirror] => marked'[TheMirror])
  <1>0. /\ TypeOK /\ scene' = scene /\ MirrorOf(p) /\ scene.kind[p] = "build"
        /\ Here(p) = At(p, stage[p]) /\ At(p, "mirror") = TheMirror
        /\ TheMirror \in Stage \X Key /\ Here(p) \in Stage \X Key /\ stage[p] \in Stage
        /\ TheMirror # At(p, "tree") /\ TheMirror # At(p, "package")
    BY StepFrame, PlaceTypes, OwnPlaces DEF IInv, OwnInv, Apart, AllBuild
  <1>1. Running(p) => OwnOf(p)
    BY DEF IInv, OwnInv
  <1>2. stage[p] = "mirror" <=> Here(p) = TheMirror
    BY <1>0 DEF Stage
  <1>3. entry'[TheMirror] = entry[TheMirror] \/ entry'[TheMirror] = "whole"
    <2>1. CASE Here(p) # TheMirror
      BY <1>0, <2>1, StepFrame
    <2>2. CASE Here(p) = TheMirror
      <3>1. stage[p] = "mirror" /\ step[p] \notin {"unmark", "tear", "remove", "again"}
        BY <1>0, <1>2, <2>2 DEF MirrorOf
      <3>2. entry' = entry \/ Put(p, "whole")
        BY <3>1 DEF Step, Start, Look, Validate, Commit, Unmark, Tear, Remove, Again, Make,
           CheckoutFails, Publish, MakePackage, Install, InstallFails, Mark, Use, Kill
      <3>. QED  BY <1>0, <2>2, <3>2 DEF Put, TypeOK
    <2>. QED  BY <2>1, <2>2
  <1>4. marked[TheMirror] /\ entry[TheMirror] = "whole" => marked'[TheMirror]
    <2>1. CASE Here(p) # TheMirror
      BY <1>0, <2>1, StepFrame
    <2>2. CASE Here(p) = TheMirror
      <3>1. stage[p] = "mirror" /\ step[p] \notin {"unmark", "tear", "remove", "again"}
        BY <1>0, <1>2, <2>2 DEF MirrorOf
      <3>2. marked' = marked \/ PutMark(p, TRUE)
        BY <3>1 DEF Step, Start, Look, Validate, Commit, Unmark, Tear, Remove, Again, Make,
           CheckoutFails, Publish, MakePackage, Install, InstallFails, Mark, Use, Kill
      <3>. QED  BY <1>0, <2>2, <3>2 DEF PutMark, TypeOK
    <2>. QED  BY <2>1, <2>2
  <1>5. entry'[TheMirror] # "torn"
    BY <1>0, <1>3 DEF MirrorOf
  <1>6. stage'[p] = "mirror" => /\ step'[p] \notin {"unmark", "tear", "remove", "again"}
                                /\ step'[p] = "validate" => entry'[TheMirror] = "whole"
    <2>. USE <1>0 DEF TypeOK, Go, GoTo
    <2>1. CASE Start(p)
      BY <2>1 DEF Start
    <2>2. CASE Look(p)
      <3>1. CASE Proceed(p)
        BY <2>2, <3>1 DEF Look, Proceed, Stage
      <3>2. CASE ~Proceed(p)
        BY <2>2, <3>2 DEF Look, MirrorOf
      <3>. QED  BY <3>1, <3>2
    <2>3. CASE Validate(p)
      BY <2>3 DEF Validate, MirrorOf, Valid
    <2>4. CASE Publish(p) \/ Mark(p)
      <3>1. CASE Proceed(p)
        BY <2>4, <3>1 DEF Publish, Mark, Proceed, Stage
      <3>2. CASE ~Proceed(p)
        BY <2>4, <3>2 DEF Publish, Mark
      <3>. QED  BY <3>1, <3>2
    <2>5. CASE Commit(p) \/ Make(p) \/ CheckoutFails(p) \/ Use(p) \/ Kill(p)
      BY <2>5 DEF Commit, Make, CheckoutFails, Use, Kill
    <2>6. CASE Unmark(p) \/ Tear(p) \/ Remove(p) \/ Again(p)
      <3>1. stage[p] # "mirror"
        BY <2>6 DEF Unmark, Tear, Remove, Again, MirrorOf
      <3>. QED  BY <2>6, <3>1 DEF Unmark, Tear, Remove, Again, Proceed
    <2>7. CASE MakePackage(p) \/ Install(p) \/ InstallFails(p)
      BY <2>7 DEF MakePackage, Install, InstallFails
    <2>. QED  BY <2>1, <2>2, <2>3, <2>4, <2>5, <2>6, <2>7 DEF Step
  <1>7. TheMirror' = TheMirror
    BY DEF TheMirror
  <1>. QED  BY <1>3, <1>4, <1>5, <1>6, <1>7 DEF MirrorOf

\* The other processes keep what they rely on.
LEMMA OtherOwnOf ==
  ASSUME IInv, Apart, Careful, NEW p \in Process, Step(p) \/ Kill(p),
         NEW q \in Process \ {p}, Running(q)'
  PROVE  OwnOf(q)'
  <1>0. /\ TypeOK /\ scene' = scene /\ stage'[q] = stage[q] /\ step'[q] = step[q]
        /\ Running(q)
    BY StepFrame DEF IInv, Running
  <1>1. ~scene.serial
    <2>1. CASE Start(p)
      BY <1>0, <2>1 DEF Start
    <2>2. CASE ~Start(p)
      <3>1. Running(p)
        BY <2>2 DEF Step, Look, Validate, Commit, Unmark, Tear, Remove, Again, Make,
           CheckoutFails, Publish, MakePackage, Install, InstallFails, Mark, Use, Kill,
           Running, Ended
      <3>. QED  BY <1>0, <3>1 DEF IInv, PathInv
    <2>. QED  BY <2>1, <2>2
  <1>2. /\ OwnOf(q) /\ MirrorOf(q) /\ scene.kind[q] = "build"
        /\ scene.key[p] # scene.key[q]
    BY <1>0, <1>1 DEF IInv, OwnInv, Apart, AllBuild
  <1>3. /\ entry[TheMirror] = "whole" => entry'[TheMirror] = "whole" /\ (marked[TheMirror] => marked'[TheMirror])
        /\ entry'[TheMirror] # "torn"
    BY <1>1, NextMirrorOf
  <1>4. /\ \A s \in Stage : At(q, s) \in Stage \X Key /\ At(p, s) \in Stage \X Key
        /\ Here(p) = At(p, stage[p]) /\ Here(q) = At(q, stage[q])
        /\ stage[p] \in Stage /\ stage[q] \in Stage /\ At(q, "mirror") = TheMirror
    BY <1>0, PlaceTypes
  <1>5. ASSUME NEW s \in Stage \ {"mirror"}
        PROVE  entry'[At(q, s)] = entry[At(q, s)] /\ marked'[At(q, s)] = marked[At(q, s)]
    <2>1. At(q, s) # Here(p) /\ At(q, s) # TheMirror
      BY <1>0, <1>2, <1>4, EntriesApart DEF At, TheMirror
    <2>. QED  BY <1>0, <1>4, <2>1, StepFrame
  <1>6. Here(q)' = Here(q) /\ (MarkerInside(q)' <=> MarkerInside(q))
    BY <1>0 DEF Here, At, MarkerInside
  <1>7. /\ entry'[At(q, "tree")] = entry[At(q, "tree")]
        /\ entry'[At(q, "package")] = entry[At(q, "package")]
        /\ stage[q] # "mirror" => /\ entry'[Here(q)] = entry[Here(q)]
                                  /\ marked'[Here(q)] = marked[Here(q)]
    BY <1>4, <1>5 DEF Stage
  <1>8. TheMirror' = TheMirror /\ At(q, "tree")' = At(q, "tree") /\ At(q, "package")' = At(q, "package")
    BY <1>0 DEF TheMirror, At
  <1>9. CASE stage[q] = "mirror"
    BY <1>0, <1>1, <1>2, <1>3, <1>4, <1>6, <1>7, <1>8, <1>9 DEF OwnOf, MirrorOf, TypeOK
  <1>10. CASE stage[q] # "mirror"
    BY <1>0, <1>1, <1>2, <1>3, <1>4, <1>6, <1>7, <1>8, <1>10 DEF OwnOf
  <1>. QED  BY <1>9, <1>10

LEMMA NextOwnInv == IInv /\ [Next]_vars => OwnInv'
  <1>1. ASSUME IInv, NEW p \in Process, Step(p) \/ Kill(p), Apart', Careful' PROVE OwnInv'
    <2>0. Apart /\ Careful /\ scene' = scene
      BY <1>1, StepFrame DEF IInv, Careful, Undisturbed, Apart, AllBuild
    <2>1. ASSUME NEW q \in Process, Running(q)' PROVE OwnOf(q)'
      BY <1>1, <2>0, <2>1, NextOwnOf, OtherOwnOf
    <2>2. ASSUME ~scene.serial, NEW q \in Process PROVE MirrorOf(q)'
      <3>1. CASE q = p
        BY <1>1, <2>0, <2>2, <3>1, NextMirrorOf
      <3>2. CASE q # p
        <4>1. MirrorOf(q) /\ stage'[q] = stage[q] /\ step'[q] = step[q]
          BY <1>1, <2>0, <2>2, <3>2, StepFrame DEF IInv, OwnInv
        <4>2. /\ entry'[TheMirror] # "torn"
              /\ entry[TheMirror] = "whole" => entry'[TheMirror] = "whole"
          BY <1>1, <2>0, <2>2, NextMirrorOf
        <4>. QED  BY <4>1, <4>2 DEF MirrorOf, TheMirror
      <3>. QED  BY <3>1, <3>2
    <2>. QED  BY <2>0, <2>1, <2>2 DEF OwnInv
  <1>2. ASSUME IInv, UNCHANGED vars PROVE OwnInv'
    BY <1>2 DEF vars, IInv, OwnInv, Careful, Undisturbed, Apart, AllBuild, OwnOf, MirrorOf, Running,
       Here, At, MarkerInside, TheMirror
  <1>. QED  BY <1>1, <1>2 DEF Next, OwnInv

LEMMA NextRecovers == IInv /\ [Next]_vars => Recovers'
  <1>1. ASSUME IInv, NEW p \in Process, Step(p) \/ Kill(p), Careful',
               (scene.serial \/ (AllBuild /\ scene.warm))', NEW q \in Process
        PROVE  step'[q] # "died"
    <2>0. /\ TypeOK /\ scene' = scene /\ Careful /\ (scene.serial \/ (AllBuild /\ scene.warm))
          /\ \A r \in Process : step[r] # "died"
      BY <1>1, StepFrame DEF IInv, Careful, Undisturbed, Apart, AllBuild, Recovers
    <2>1. CASE q # p
      BY <1>1, <2>0, <2>1, StepFrame
    <2>2. CASE q = p /\ AllBuild /\ scene.warm
      <3>1. WarmInv' /\ AllBuild'
        BY <1>1, <2>0, <2>2, NextWarmInv DEF Next, AllBuild
      <3>. QED  BY <2>0, <2>2, <3>1 DEF WarmInv
    <2>3. CASE q = p /\ scene.serial
      <3>. SUFFICES ASSUME step'[p] = "died" PROVE FALSE
        BY <2>3
      <3>. USE <2>0 DEF TypeOK, Go, GoTo
      <3>1. ~Proceed(p)
        BY DEF Proceed
      <3>2. Apart /\ (Running(p) => OwnOf(p))
        BY <1>1, <2>3 DEF Apart, IInv, OwnInv
      <3>3. step[p] \in {"look", "validate", "commit", "again", "make", "publish", "mark", "use"}
              => scene.kind[p] = "build"
        BY <1>1 DEF IInv, PathInv
      <3>4. CASE Start(p)
        BY <3>4, SceneType DEF Start, Kind
      <3>5. CASE Commit(p)
        BY <3>2, <3>3, <3>5 DEF Commit, OwnOf, Running, Ended
      <3>6. CASE CheckoutFails(p)
        <4>1. Running(p) /\ ~IndexLocked(p)
          BY <1>1, <2>3, <3>6 DEF CheckoutFails, IndexLocked, IInv, PathInv, Running, Ended
        <4>. QED  BY <3>2, <3>3, <3>6, <4>1 DEF CheckoutFails, OwnOf
      <3>7. CASE Publish(p)
        BY <2>3, <3>1, <3>2, <3>3, <3>7 DEF Publish, OwnOf, Running, Ended
      <3>8. CASE InstallFails(p)
        <4>1. Running(p) /\ Alone(p)
          BY <1>1, <3>2, <3>8, ApartIsAlone DEF InstallFails, Running, Ended
        <4>. QED  BY <3>2, <3>3, <3>8, <4>1 DEF InstallFails, OwnOf
      <3>9. CASE Mark(p)
        BY <3>1, <3>2, <3>9 DEF Mark, OwnOf, Running, Ended
      <3>10. CASE Look(p) \/ Validate(p) \/ Unmark(p) \/ Tear(p) \/ Again(p)
        BY <3>1, <3>10 DEF Look, Validate, Unmark, Tear, Again
      <3>11. CASE Remove(p) \/ Make(p) \/ MakePackage(p) \/ Install(p) \/ Use(p) \/ Kill(p)
        BY <3>1, <3>11 DEF Remove, Make, MakePackage, Install, Use, Kill
      <3>. QED  BY <1>1, <3>4, <3>5, <3>6, <3>7, <3>8, <3>9, <3>10, <3>11 DEF Step
    <2>. QED  BY <2>0, <2>1, <2>2, <2>3
  <1>2. ASSUME IInv, UNCHANGED vars PROVE Recovers'
    BY <1>2 DEF vars, IInv, Recovers, Careful, Undisturbed, Apart, AllBuild
  <1>. QED  BY <1>1, <1>2 DEF Next, Recovers

-----------------------------------------------------------------------------
LEMMA Invariance == Spec => []IInv
  <1>1. IInv /\ [Next]_vars => IInv'
    BY NextTypeOK, NextPathInv, NextWarmInv, NextTornInv, NextOwnInv, NextRecovers DEF IInv
  <1>. QED  BY <1>1, InitIInv, PTL DEF Spec

\* Every reachable state is of the right type, and a process is only at the
\* steps that the entry it is at has.
THEOREM TypeCorrect == Spec => []TypeOK
  <1>1. IInv => TypeOK
    BY DEF IInv
  <1>. QED  BY <1>1, Invariance, PTL

\* A mark vouches for a whole entry, whoever was killed where
\* (write_ready_marker, remove_cache_entry, c_cache_cleanup_remove_entry).
THEOREM MarkedIsWholeHolds == Spec => []MarkedIsWhole
  <1>1. IInv => MarkedIsWhole
    <2>. SUFFICES ASSUME IInv, Careful,
                         NEW e \in (IF Undisturbed THEN Stage ELSE Stage \ {"package"}) \X Key,
                         marked[e], entry[e] = "torn"
                  PROVE  Removed(e)
      BY DEF MarkedIsWhole, Removed
    <2>1. e \in Stage \X Key /\ (e[1] = "package" => Undisturbed)
      BY DEF Stage
    <2>2. CASE AllBuild /\ scene.warm
      <3>1. e[1] = "package" => scene.cmake
        <4>1. e[1] = "package" => e = <<"package", e[2]>> /\ e[2] \in Key
          BY <2>1
        <4>. QED  BY <4>1 DEF IInv, PathInv
      <3>. QED  BY <2>1, <2>2, <3>1 DEF IInv, WarmInv
    <2>3. CASE ~(AllBuild /\ scene.warm)
      BY <2>1, <2>3 DEF IInv, TornInv, Undisturbed
    <2>. QED  BY <2>2, <2>3
  <1>. QED  BY <1>1, Invariance, PTL

\* What a build uses is whole as long as it uses it (resolve_dependency).
THEOREM UsesWholeHolds == Spec => []UsesWhole
  <1>1. IInv => UsesWhole
    <2>. SUFFICES ASSUME IInv, Undisturbed, Careful, NEW p \in Process, step[p] = "use"
                  PROVE  /\ entry[At(p, "tree")] = "whole"
                         /\ scene.cmake => entry[At(p, "package")] = "whole"
      BY DEF UsesWhole
    <2>1. Running(p) /\ scene.kind[p] = "build" /\ TypeOK
      BY DEF Running, Ended, IInv, PathInv
    <2>2. CASE Apart
      BY <2>1, <2>2 DEF IInv, OwnInv, OwnOf
    <2>3. CASE AllBuild /\ scene.warm
      <3>1. \A s \in Stage : At(p, s) \in Stage \X Key /\ At(p, s)[1] = s
        BY <2>1, PlaceTypes
      <3>. QED  BY <2>3, <3>1 DEF IInv, WarmInv, Stage
    <2>. QED  BY <2>2, <2>3 DEF Undisturbed
  <1>. QED  BY <1>1, Invariance, PTL

\* Nothing a killed process leaves behind stops a later build
\* (resolve_dependency, ensure_git_mirror).
THEOREM RecoversHolds == Spec => []Recovers
  <1>1. IInv => Recovers
    BY DEF IInv
  <1>. QED  BY <1>1, Invariance, PTL

-----------------------------------------------------------------------------
(***************************************************************************)
(* Proofs about LockUpdate for any declarations and sizes of the lists.    *)
(* First what is found in a list of pins: a search finds the least place,  *)
(* which exists because every set of numbers has a least element; that     *)
(* also serves as induction over the loop of cmd_update (the least round   *)
(* after which it has not kept what it should).  Then the parts of         *)
(* LockInv, step by step.                                                  *)
(***************************************************************************)

LEMMA Least ==
  ASSUME NEW S \in SUBSET Nat, S # {}
  PROVE  \E i \in S : \A j \in S : i <= j
PROOF
  <1>1. PICK i \in S : \A j \in S : <<j, i>> \notin OpToRel(<, Nat)
    BY NatLessThanWellFounded, WFMin
  <1>2. ASSUME NEW j \in S PROVE i <= j
    <2>1. <<j, i>> \notin {ss \in Nat \X Nat : ss[1] < ss[2]}
      BY <1>1 DEF OpToRel
    <2>. QED  BY <2>1
  <1>. QED  BY <1>2

LEMMA FirstOfIs ==
  ASSUME NEW l, NEW I \in SUBSET Nat, NEW i \in I, \A j \in I : i <= j
  PROVE  FirstOf(l, I) = l[i]
PROOF
  <1>1. \A k \in I : (\A j \in I : k <= j) => k = i
    OBVIOUS
  <1>. QED  BY <1>1 DEF FirstOf

LEMMA FirstOfPlace ==
  ASSUME NEW l, NEW I \in SUBSET Nat, I # {}
  PROVE  \E i \in I : FirstOf(l, I) = l[i] /\ \A j \in I : i <= j
PROOF
  <1>1. PICK i \in I : \A j \in I : i <= j
    BY Least
  <1>. QED  BY <1>1, FirstOfIs

LEMMA PinFound ==
  ASSUME NEW l \in Seq(Entry), NEW d, Pinned(l, d)
  PROVE  /\ LockFor(l, d) \in Range(l) /\ LockFor(l, d) \in Entry
         /\ Matches(LockFor(l, d), d)
PROOF
  <1>1. Places(l, d) \in SUBSET Nat /\ Places(l, d) # {}
    BY DEF Places, Pinned
  <1>2. PICK i \in Places(l, d) : LockFor(l, d) = l[i]
    BY <1>1, FirstOfPlace DEF LockFor
  <1>. QED  BY <1>2 DEF Places, Range

LEMMA NameFound ==
  ASSUME NEW l \in Seq(Entry), NEW n
  PROVE  /\ FindName(l, n) = None <=> Named(l, n) = {}
         /\ FindName(l, n) # None =>
              FindName(l, n) \in Range(l) /\ FindName(l, n) \in Entry /\ FindName(l, n).name = n
         /\ Named(l, n) # {} <=> \E e \in Range(l) : e.name = n
PROOF
  <1>1. Named(l, n) \in SUBSET Nat
    BY DEF Named
  <1>2. CASE Named(l, n) # {}
    <2>1. PICK i \in Named(l, n) : FindName(l, n) = l[i]
      BY <1>1, <1>2, FirstOfPlace DEF FindName
    <2>2. l[i] \in Entry /\ l[i] \in Range(l) /\ l[i].name = n
      BY <2>1 DEF Named, Range
    <2>. QED  BY <1>2, <2>1, <2>2, DeclarationAssumption
  <1>3. CASE Named(l, n) = {}
    BY <1>3 DEF FindName, Named, Range
  <1>. QED  BY <1>2, <1>3

LEMMA PinAppended ==
  ASSUME NEW l \in Seq(Entry), NEW e \in Entry, NEW d
  PROVE  /\ Pinned(l, d) => Pinned(Append(l, e), d) /\ LockFor(Append(l, e), d) = LockFor(l, d)
         /\ ~Pinned(l, d) /\ Matches(e, d) =>
              Pinned(Append(l, e), d) /\ LockFor(Append(l, e), d) = e
PROOF
  <1> DEFINE k == Append(l, e)
  <1>1. /\ DOMAIN l = 1..Len(l) /\ DOMAIN k = 1..(Len(l) + 1) /\ Len(l) \in Nat
        /\ \A i \in 1..Len(l) : k[i] = l[i]
        /\ k[Len(l) + 1] = e
    OBVIOUS
  <1> HIDE DEF k
  <1>2. Places(l, d) \in SUBSET Nat /\ Places(k, d) \in SUBSET Nat
    BY <1>1 DEF Places
  <1>3. CASE Pinned(l, d)
    <2>1. PICK i \in Places(l, d) : LockFor(l, d) = l[i] /\ \A j \in Places(l, d) : i <= j
      BY <1>2, <1>3, FirstOfPlace DEF LockFor, Pinned
    <2>2. i \in Places(k, d) /\ k[i] = l[i]
      BY <1>1, <2>1 DEF Places
    <2>3. \A j \in Places(k, d) : i <= j
      BY <1>1, <2>1 DEF Places
    <2>4. LockFor(k, d) = k[i]
      BY <1>2, <2>2, <2>3, FirstOfIs DEF LockFor
    <2>. QED  BY <1>3, <2>1, <2>2, <2>4 DEF Pinned, k
  <1>4. CASE ~Pinned(l, d) /\ Matches(e, d)
    <2>1. Places(k, d) = {Len(l) + 1}
      BY <1>1, <1>4 DEF Places, Pinned
    <2>2. LockFor(k, d) = e
      BY <1>1, <1>2, <2>1, FirstOfIs DEF LockFor
    <2>. QED  BY <1>4, <2>1, <2>2 DEF Pinned, k
  <1>. QED  BY <1>3, <1>4

LEMMA FirstEntriesFound ==
  ASSUME NEW l \in Seq(Entry), NEW max \in Nat
  PROVE  /\ FirstEntries(l, max) \in Seq(Entry)
         /\ Len(FirstEntries(l, max)) <= max
         /\ Len(l) <= max => FirstEntries(l, max) = l
         /\ Range(FirstEntries(l, max)) \subseteq Range(l)
         /\ \A n : Named(FirstEntries(l, max), n) # {} =>
              Named(l, n) # {} /\ FindName(FirstEntries(l, max), n) = FindName(l, n)
PROOF
  <1> DEFINE k == FirstEntries(l, max)
             m == IF Len(l) > max THEN max ELSE Len(l)
  <1>1. m \in Nat /\ m <= Len(l) /\ m <= max /\ (Len(l) <= max => m = Len(l))
    OBVIOUS
  <1>2. k \in Seq(Entry) /\ Len(k) = m /\ \A i \in 1..m : k[i] = l[i]
    <2> HIDE DEF m
    <2>. QED  BY <1>1 DEF FirstEntries, m
  <1> HIDE DEF k, m
  <1>3. Len(l) <= max => k = l
    BY <1>1, <1>2
  <1>4. DOMAIN k = 1..m /\ DOMAIN k \subseteq DOMAIN l
    BY <1>1, <1>2
  <1>5. Range(k) \subseteq Range(l)
    BY <1>2, <1>4 DEF Range
  <1>6. ASSUME NEW n, Named(k, n) # {}
        PROVE  Named(l, n) # {} /\ FindName(k, n) = FindName(l, n)
    <2>1. Named(k, n) \in SUBSET Nat /\ Named(l, n) \in SUBSET Nat
      BY <1>2 DEF Named
    <2>2. PICK i \in Named(k, n) : FindName(k, n) = k[i] /\ \A j \in Named(k, n) : i <= j
      BY <1>6, <2>1, FirstOfPlace DEF FindName
    <2>3. i \in Named(l, n) /\ k[i] = l[i]
      BY <1>2, <1>4, <2>2 DEF Named
    <2>4. \A j \in Named(l, n) : i <= j
      BY <1>1, <1>2, <1>4, <2>2, <2>3 DEF Named
    <2>5. FindName(l, n) = l[i]
      BY <2>1, <2>3, <2>4, FirstOfIs DEF FindName
    <2>. QED  BY <2>2, <2>3, <2>5
  <1>. QED  BY <1>1, <1>2, <1>3, <1>5, <1>6 DEF k

\* One round of the loop of cmd_update, f being what the earlier ones left.
KeepStep(l, n, f, i) ==
  IF i = 0 THEN <<>>
  ELSE IF n \in {None, l[i].name} THEN f[i - 1]
  ELSE Append(f[i - 1], l[i])

\* The rounds of an f that is the loop; G keeps the provers from unfolding f
\* within itself.
LEMMA Rounds ==
  ASSUME NEW l, NEW n, NEW len \in Nat, NEW f
  PROVE  f = [i \in 0..len |-> KeepStep(l, n, f, i)]
           => \A i \in 0..len : f[i] = KeepStep(l, n, f, i)
PROOF
  <1> DEFINE G == [i \in 0..len |-> KeepStep(l, n, f, i)]
  <1>1. \A i \in 0..len : G[i] = KeepStep(l, n, f, i)
    OBVIOUS
  <1> HIDE DEF G
  <1>2. f = G => \A i \in 0..len : f[i] = KeepStep(l, n, f, i)
    BY <1>1
  <1>. QED  BY <1>2, Zenon DEF G

LEMMA LoopExists ==
  ASSUME NEW l, NEW n, NEW len \in Nat
  PROVE  \E f : f = [i \in 0..len |-> KeepStep(l, n, f, i)]
PROOF
  <1> DEFINE Bad == {m \in Nat : ~ \E f : f = [i \in 0..m |-> KeepStep(l, n, f, i)]}
  <1> SUFFICES ASSUME Bad # {} PROVE FALSE
    OBVIOUS
  <1>1. PICK m \in Bad : \A k \in Bad : m <= k
    BY Least
  <1>2. CASE m = 0
    <2>1. [i \in 0..0 |-> <<>>] = [i \in 0..0 |-> KeepStep(l, n, [j \in 0..0 |-> <<>>], i)]
      BY DEF KeepStep
    <2>. QED  BY <2>1, <1>2
  <1>3. CASE m # 0
    <2>1. m - 1 \in Nat /\ m - 1 \notin Bad
      BY <1>1, <1>3
    <2>2. \E f : f = [i \in 0..(m - 1) |-> KeepStep(l, n, f, i)]
      BY <2>1
    <2>3. PICK f : \A i \in 0..(m - 1) : f[i] = KeepStep(l, n, f, i)
      BY <2>1, <2>2, Rounds, Zenon
    <2> DEFINE g == [i \in 0..m |-> IF i = m THEN KeepStep(l, n, f, m) ELSE f[i]]
    <2>4. ASSUME NEW i \in 0..m PROVE g[i] = KeepStep(l, n, g, i)
      <3>1. CASE i = 0
        <4>1. 0 \in 0..(m - 1) /\ g[0] = f[0]
          BY <1>3, <2>1
        <4>. QED  BY <3>1, <2>3, <4>1 DEF KeepStep
      <3>2. CASE i # 0
        <4>1. i - 1 \in 0..(m - 1) /\ g[i - 1] = f[i - 1]
          BY <3>2, <2>1
        <4>2. g[i] = KeepStep(l, n, f, i)
          <5>1. i # m => i \in 0..(m - 1)
            BY <2>1
          <5>. QED  BY <2>1, <2>3, <5>1
        <4>. QED  BY <3>2, <4>1, <4>2 DEF KeepStep
      <3>. QED  BY <3>1, <3>2
    <2>5. g = [i \in 0..m |-> KeepStep(l, n, g, i)]
      BY <2>4
    <2>. QED  BY <1>1, <2>5
  <1>. QED  BY <1>2, <1>3

LEMMA KeptIsLoop ==
  ASSUME NEW l, NEW n, Len(l) \in Nat
  PROVE  \E f : /\ \A i \in 0..Len(l) : f[i] = KeepStep(l, n, f, i)
                /\ Kept(l, n) = f[Len(l)]
PROOF
  <1> DEFINE h == CHOOSE f : f = [i \in 0..Len(l) |-> KeepStep(l, n, f, i)]
  <1>1. h = [i \in 0..Len(l) |-> KeepStep(l, n, h, i)]
    BY LoopExists, Zenon
  <1>2. Kept(l, n) = h[Len(l)]
    BY DEF Kept, KeepStep
  <1> HIDE DEF h
  <1>3. \A i \in 0..Len(l) : h[i] = KeepStep(l, n, h, i)
    BY <1>1, Rounds, Zenon
  <1>. QED  BY <1>2, <1>3

\* What k, made of the first i entries of l, has in common with them.
KeptSoFar(l, n, k, i) ==
  /\ k \in Seq(Entry) /\ Len(k) <= i
  /\ \A j \in DOMAIN k : \E h \in 1..i : k[j] = l[h]
  /\ \A h \in 1..i : n \in {None, l[h].name} \/ \E j \in DOMAIN k : k[j] = l[h]
  /\ Distinct(l) => Distinct(k)

LEMMA KeptFound ==
  ASSUME NEW l \in Seq(Entry), NEW n
  PROVE  KeptSoFar(l, n, Kept(l, n), Len(l))
PROOF
  <1>1. PICK f : /\ \A i \in 0..Len(l) : f[i] = KeepStep(l, n, f, i)
                 /\ Kept(l, n) = f[Len(l)]
    BY KeptIsLoop
  <1> DEFINE Bad == {i \in 0..Len(l) : ~KeptSoFar(l, n, f[i], i)}
  <1>2. SUFFICES ASSUME Bad # {} PROVE FALSE
    BY <1>1
  <1>3. PICK i \in Bad : \A j \in Bad : i <= j
    <2>1. Bad \in SUBSET Nat
      OBVIOUS
    <2>. QED  BY <1>2, <2>1, Least
  <1>4. CASE i = 0
    <2>1. f[0] = <<>>
      BY <1>1 DEF KeepStep
    <2>2. KeptSoFar(l, n, <<>>, 0)
      BY DEF KeptSoFar, Distinct
    <2>. QED  BY <1>3, <1>4, <2>1, <2>2
  <1>5. CASE i # 0
    <2> DEFINE k == f[i - 1]
    <2>1. i - 1 \in 0..Len(l) /\ i \in DOMAIN l /\ l[i] \in Entry /\ i \in Nat
      BY <1>3, <1>5
    <2>2. KeptSoFar(l, n, k, i - 1)
      BY <1>3, <2>1
    <2>3. f[i] = IF n \in {None, l[i].name} THEN k ELSE Append(k, l[i])
      BY <1>1, <1>3, <1>5, <2>1 DEF KeepStep
    <2> HIDE DEF k
    <2>4. \A h \in 1..i : h = i \/ h \in 1..(i - 1)
      BY <2>1
    <2>5. CASE n \in {None, l[i].name}
      <3>1. KeptSoFar(l, n, k, i)
        <4>1. Len(k) <= i
          BY <2>1, <2>2 DEF KeptSoFar
        <4>2. \A j \in DOMAIN k : \E h \in 1..i : k[j] = l[h]
          BY <2>1, <2>2 DEF KeptSoFar
        <4>. QED  BY <2>2, <2>4, <2>5, <4>1, <4>2 DEF KeptSoFar
      <3>. QED  BY <1>3, <2>3, <2>5, <3>1
    <2>6. CASE n \notin {None, l[i].name}
      <3> DEFINE m == Append(k, l[i])
      <3>1. /\ k \in Seq(Entry) /\ DOMAIN k = 1..Len(k) /\ Len(k) \in Nat /\ Len(k) <= i - 1
            /\ m \in Seq(Entry) /\ DOMAIN m = 1..(Len(k) + 1) /\ Len(m) = Len(k) + 1
            /\ \A j \in 1..Len(k) : m[j] = k[j]
            /\ m[Len(k) + 1] = l[i]
        BY <2>1, <2>2 DEF KeptSoFar
      <3> HIDE DEF m
      <3>2. \A j \in DOMAIN m : j \in DOMAIN k \/ j = Len(k) + 1
        BY <3>1
      <3>3. \A j \in DOMAIN m : \E h \in 1..i : m[j] = l[h]
        <4>1. \A j \in DOMAIN k : \E h \in 1..i : m[j] = l[h]
          BY <2>1, <2>2, <3>1 DEF KeptSoFar
        <4>2. i \in 1..i
          BY <2>1, <1>5
        <4>3. \E h \in 1..i : m[Len(k) + 1] = l[h]
          BY <3>1, <4>2
        <4>. QED  BY <3>2, <4>1, <4>3
      <3>4. \A h \in 1..i : n \in {None, l[h].name} \/ \E j \in DOMAIN m : m[j] = l[h]
        <4>1. DOMAIN k \subseteq DOMAIN m /\ Len(k) + 1 \in DOMAIN m
          BY <3>1
        <4>2. \A h \in 1..(i - 1) : n \in {None, l[h].name} \/ \E j \in DOMAIN m : m[j] = l[h]
          BY <2>2, <3>1, <4>1 DEF KeptSoFar
        <4>. QED  BY <2>4, <3>1, <4>1, <4>2
      <3>5. ASSUME Distinct(l) PROVE Distinct(m)
        <4>1. Distinct(k)
          BY <2>2, <3>5 DEF KeptSoFar
        <4>2. ASSUME NEW j \in DOMAIN k, \A x \in {"name", "url", "requested"} : k[j][x] = l[i][x]
              PROVE  FALSE
          <5>1. PICK h \in 1..(i - 1) : k[j] = l[h]
            BY <2>2 DEF KeptSoFar
          <5>2. h \in DOMAIN l /\ h # i
            BY <2>1, <5>1
          <5>. QED  BY <2>1, <3>5, <4>2, <5>1, <5>2 DEF Distinct
        <4>3. \A j \in DOMAIN k : m[j] = k[j]
          BY <3>1
        <4>4. SUFFICES ASSUME NEW p \in DOMAIN m, NEW q \in DOMAIN m,
                              \A x \in {"name", "url", "requested"} : m[p][x] = m[q][x]
                       PROVE  p = q
          BY DEF Distinct
        <4>5. CASE p \in DOMAIN k /\ q \in DOMAIN k
          BY <4>1, <4>3, <4>4, <4>5 DEF Distinct
        <4>6. CASE p \notin DOMAIN k \/ q \notin DOMAIN k
          BY <3>1, <3>2, <4>2, <4>3, <4>4, <4>6
        <4>. QED  BY <4>5, <4>6
      <3>6. Len(m) <= i
        BY <2>1, <3>1
      <3>7. KeptSoFar(l, n, m, i)
        BY <3>1, <3>3, <3>4, <3>5, <3>6 DEF KeptSoFar
      <3>. QED  BY <1>3, <2>3, <2>6, <3>7 DEF m
    <2>. QED  BY <2>5, <2>6
  <1>. QED  BY <1>4, <1>5

(* One command. *)

LEMMA DirType ==
  ASSUME NEW e \in Entry
  PROVE  /\ Dir(e, "full") \in DepDir /\ Dir(e, "listed") \in DepDir
         /\ Dir(e, "full").name = e.name
         /\ \A d : SourceDir(d, e) \in DepDir
  BY DEF Entry, Dir, DepDir, SourceDir

LEMMA DeclaredIs ==
  ASSUME CommandInv, NEW d \in build
  PROVE  Declared(d.name) = d
PROOF
  <1>1. d \in {x \in build : x.name = d.name} /\ \A x \in build : x.name = d.name => x = d
    BY DEF CommandInv
  <1>2. \A x : x \in build /\ x.name = d.name <=> x = d
    BY <1>1
  <1>. QED  BY <1>2 DEF Declared

LEMMA FirstIs == \A S : S # {} => First(S) \in S
  BY DEF First

LEMMA TodoFirst ==
  ASSUME LockTypeOK, NEW n \in Name, n = First(todo)
  PROVE  n \in todo
  BY FirstIs, DeclarationAssumption DEF First

\* What resolving d does to the list of pins.
LEMMA PinKeeps ==
  ASSUME LockTypeOK, NEW d \in build, HasRoom(d)
  PROVE  /\ Pin(mem, d) \in Seq(Entry) /\ Len(Pin(mem, d)) <= C_MAX_DEPS
         /\ Pinned(Pin(mem, d), d)
         /\ \A x : Pinned(mem, x) =>
              Pinned(Pin(mem, d), x) /\ LockFor(Pin(mem, d), x) = LockFor(mem, x)
         /\ Range(mem) \subseteq Range(Pin(mem, d))
         /\ Distinct(mem) => Distinct(Pin(mem, d))
PROOF
  <1> DEFINE e == [name |-> d.name, url |-> d.url, requested |-> d.ref,
                   resolved |-> upstream[<<d.url, d.ref>>]]
             k == Append(mem, e)
  <1>0. mem \in Seq(Entry) /\ Len(mem) <= C_MAX_DEPS /\ C_MAX_DEPS \in Nat
    BY DeclarationAssumption DEF LockTypeOK
  <1>1. e \in Entry /\ Matches(e, d)
    <2>1. d \in Declaration /\ upstream \in [Ref -> 1..MaxCommit] /\ <<d.url, d.ref>> \in Ref
      BY DEF LockTypeOK, Ref
    <2>2. d.name \in Name /\ d.url \in Url /\ upstream[<<d.url, d.ref>>] \in 1..MaxCommit
      BY <2>1 DEF Name, Url
    <2>. QED  BY <2>1, <2>2 DEF Entry, Matches
  <1>2. CASE Pinned(mem, d)
    BY <1>0, <1>2 DEF Pin
  <1>3. CASE ~Pinned(mem, d)
    <2>1. Pin(mem, d) = k /\ Len(mem) < C_MAX_DEPS
      BY <1>3 DEF Pin, HasRoom
    <2>2. e.name = d.name /\ e.url = d.url /\ e.requested = d.ref
      OBVIOUS
    <2> HIDE DEF e
    <2>3. /\ k \in Seq(Entry) /\ DOMAIN k = 1..(Len(mem) + 1) /\ Len(k) = Len(mem) + 1
          /\ DOMAIN mem = 1..Len(mem) /\ Len(mem) \in Nat
          /\ \A j \in 1..Len(mem) : k[j] = mem[j]
          /\ k[Len(mem) + 1] = e
      BY <1>0, <1>1
    <2>4. /\ Pinned(k, d)
          /\ \A x : Pinned(mem, x) => Pinned(k, x) /\ LockFor(k, x) = LockFor(mem, x)
      BY <1>0, <1>1, <1>3, PinAppended
    <2> HIDE DEF k
    <2>5. Range(mem) \subseteq Range(k)
      BY <2>3 DEF Range
    <2>6. \A j \in DOMAIN k : j \in DOMAIN mem \/ j = Len(mem) + 1
      BY <2>3
    <2>7. ASSUME NEW j \in DOMAIN mem, \A x \in {"name", "url", "requested"} : mem[j][x] = e[x]
          PROVE  FALSE
      <3>1. Matches(mem[j], d)
        <4>1. mem[j]["name"] = e["name"] /\ mem[j]["url"] = e["url"]
              /\ mem[j]["requested"] = e["requested"]
          BY <2>7
        <4>. QED  BY <4>1, <2>2 DEF Matches
      <3>. QED  BY <3>1, <1>3 DEF Pinned, Places
    <2>8. ASSUME Distinct(mem) PROVE Distinct(k)
      <3>1. SUFFICES ASSUME NEW p \in DOMAIN k, NEW q \in DOMAIN k,
                            \A x \in {"name", "url", "requested"} : k[p][x] = k[q][x]
                     PROVE  p = q
        BY DEF Distinct
      <3>2. \A j \in DOMAIN mem : k[j] = mem[j]
        BY <2>3
      <3>3. CASE p \in DOMAIN mem /\ q \in DOMAIN mem
        BY <2>8, <3>1, <3>2, <3>3 DEF Distinct
      <3>4. CASE p \notin DOMAIN mem \/ q \notin DOMAIN mem
        BY <2>3, <2>6, <2>7, <3>1, <3>2, <3>4
      <3>. QED  BY <3>3, <3>4
    <2>9. Len(k) <= C_MAX_DEPS
      BY <1>0, <2>1, <2>3
    <2>. QED  BY <2>1, <2>3, <2>4, <2>5, <2>8, <2>9
  <1>. QED  BY <1>2, <1>3

LEMMA LoadIs ==
  ASSUME LockTypeOK
  PROVE  /\ LoadLock(lock) = lock
         /\ CleanupLoadLock(lock) \in Seq(Entry)
         /\ Range(CleanupLoadLock(lock)) \subseteq Range(lock)
         /\ Len(lock) <= C_CACHE_CLEANUP_MAX_DEPS => CleanupLoadLock(lock) = lock
         /\ \A n : Named(CleanupLoadLock(lock), n) # {} =>
              Named(lock, n) # {} /\ FindName(CleanupLoadLock(lock), n) = FindName(lock, n)
  BY FirstEntriesFound, DeclarationAssumption DEF LockTypeOK, LoadLock, CleanupLoadLock

LEMMA CommandOver ==
  ASSUME NEW how, Over(how)
  PROVE  /\ at' = "idle" /\ todo' = {} /\ mem' = <<>> /\ before' = <<>> /\ now' = None
         /\ command'.kind = "none" /\ ~command'.standalone /\ command' = NoCommand
         /\ result' = how /\ forwarded' \in {forwarded, {}} /\ UNCHANGED sound
  BY DEF Over, NoCommand

LEMMA InitLockInv == LockInit => LockInv
PROOF
  <1> SUFFICES ASSUME LockInit PROVE LockInv
    OBVIOUS
  <1>1. <<>> \in Seq(Entry) /\ Len(<<>>) = 0 /\ DOMAIN <<>> = {}
    OBVIOUS
  <1>2. LockTypeOK
    BY <1>1, DeclarationAssumption DEF LockInit, LockTypeOK, NoCommand
  <1>3. \A d, e \in build : d.name = e.name => d = e
    <2>1. SUFFICES ASSUME NEW d \in build, NEW e \in build, d.name = e.name PROVE d = e
      OBVIOUS
    <2>2. d.name \in Name
      BY <1>2 DEF LockTypeOK, Name
    <2>3. PICK c \in build : {x \in build : x.name = d.name} = {c}
      BY <2>2 DEF LockInit
    <2>. QED  BY <2>1, <2>3
  <1>. QED  BY <1>1, <1>2, <1>3 DEF LockInit, LockInv, CommandInv, PinsInv, ReadyInv, ReadyAfterSuccess, SoundInv, ListInv, Distinct, NoCommand

LEMMA Upstream ==
  ASSUME LockTypeOK, MoveUpstream
  PROVE  upstream' \in [Ref -> 1..MaxCommit]
  BY DeclarationAssumption DEF LockTypeOK, MoveUpstream

\* The dependency Publish is at.
LEMMA PublishedIs ==
  ASSUME LockInv, at = "publish"
  PROVE  \E d \in build : /\ now = d.name /\ Declared(now) = d /\ now \in Name
                          /\ LockFor(mem, d) \in Entry
                          /\ SourceDir(d, LockFor(mem, d)) \in src
PROOF
  <1>1. PICK d \in build : d.name = now /\ now \notin todo
    BY DEF LockInv, ReadyInv
  <1>2. Resolved(d) /\ mem \in Seq(Entry) /\ d \in Declaration
    BY <1>1 DEF LockInv, ReadyInv, LockTypeOK
  <1>3. LockFor(mem, d) \in Entry
    BY <1>2, PinFound DEF Resolved
  <1>. QED  BY <1>1, <1>2, <1>3, DeclaredIs DEF LockInv, Resolved, Name

\* The dependency Resolve is at.
LEMMA ResolvedIs ==
  ASSUME LockInv, NEW n \in Name, Resolve(n)
  PROVE  \E d \in build :
           /\ n = d.name /\ Declared(n) = d /\ n \in todo
           /\ mem' \in Seq(Entry) /\ Len(mem') <= C_MAX_DEPS
           /\ Pinned(mem', d) /\ LockFor(mem', d) \in Entry
           /\ \A x : Pinned(mem, x) => Pinned(mem', x) /\ LockFor(mem', x) = LockFor(mem, x)
           /\ Range(mem) \subseteq Range(mem') /\ (Distinct(mem) => Distinct(mem'))
           /\ src' = src \cup {SourceDir(d, LockFor(mem', d))}
PROOF
  <1>1. n \in todo
    BY TodoFirst DEF Resolve, LockInv
  <1>2. PICK d \in build : d.name = n
    BY <1>1 DEF Resolve, LockInv, ReadyInv
  <1>3. Declared(n) = d
    BY <1>2, DeclaredIs DEF LockInv
  <1>4. HasRoom(d) /\ mem' = Pin(mem, d)
    BY <1>3 DEF Resolve
  <1>5. LockFor(mem', d) \in Entry
    BY <1>4, PinKeeps, PinFound DEF LockInv
  <1>. QED  BY <1>1, <1>2, <1>3, <1>4, <1>5, PinKeeps DEF Resolve, LockInv

\* The dependency Retarget is at.
LEMMA RetargetedIs ==
  ASSUME LockInv, NEW n \in Name, Retarget(n)
  PROVE  /\ n \in todo /\ Named(before, n) # {}
         /\ \E m \in Retargeted(n) : manifest' = [manifest EXCEPT ![n] = m]
         /\ at' = "src" /\ now' = n /\ todo' = todo \ {n}
PROOF
  <1>1. n \in todo
    BY TodoFirst DEF Retarget, LockInv
  <1>2. Named(before, n) # {}
    <2>1. \E e \in Range(before) : e.name = n
      BY <1>1 DEF Retarget, LockInv, ListInv
    <2>2. before \in Seq(Entry)
      BY DEF LockInv, LockTypeOK
    <2>. QED  BY <2>1, <2>2, NameFound
  <1>. QED  BY <1>1, <1>2 DEF Retarget

LEMMA NextLockTypeOK == LockInv /\ [LockNext]_lockVars => LockTypeOK'
PROOF
  <1> SUFFICES ASSUME LockInv, [LockNext]_lockVars PROVE LockTypeOK'
    OBVIOUS
  <1>t. LockTypeOK
    BY DEF LockInv
  <1>e. <<>> \in Seq(Entry) /\ Len(<<>>) = 0
    OBVIOUS
  <1>c. NoCommand \in [kind : {"none", "build", "fetch", "update"},
                       wanted : Name \cup {None}, standalone : BOOLEAN]
    BY DEF NoCommand
  <1>1. CASE UNCHANGED lockVars
    BY <1>1, <1>t DEF lockVars, LockTypeOK
  <1>2. CASE EditBuild
    BY <1>2, <1>t DEF EditBuild, Disk, LockTypeOK
  <1>3. CASE MoveUpstream
    BY <1>3, <1>t, Upstream DEF MoveUpstream, Disk, LockTypeOK
  <1>4. CASE StartCommand
    <2>r. RepoNames \subseteq Name
      BY <1>t DEF LockTypeOK, RepoNames, Name
    <2>1. mem' \in Seq(Entry) /\ Len(mem') <= C_MAX_DEPS /\ before' \in Seq(Entry)
      BY <1>4, <1>t, <1>e, LoadIs DEF StartCommand, LockTypeOK
    <2>2. todo' \subseteq Name /\ sound' \subseteq Name
      BY <1>4, <1>t DEF StartCommand, LockTypeOK, Name
    <2>3. /\ command' \in [kind : {"none", "build", "fetch", "update"},
                           wanted : Name \cup {None}, standalone : BOOLEAN]
          /\ at' \in {"drop", "resolve"} /\ now' = None /\ result' = "none"
          /\ forwarded' \subseteq Name
      BY <1>4, <2>r DEF StartCommand
    <2>. QED  BY <1>4, <1>t, <2>1, <2>2, <2>3 DEF StartCommand, World, Disk, LockTypeOK
  <1>5. CASE Die \/ KillCommand \/ Compile \/ CleanupDone \/ GiveUp
    <2>1. /\ UNCHANGED <<build, upstream, lock, src, manifest, sound>>
          /\ at' = "idle" /\ todo' = {} /\ mem' = <<>> /\ before' = <<>> /\ now' = None
          /\ command' = NoCommand /\ result' \in {"ok", "updated", "none"}
          /\ forwarded' \in {forwarded, {}}
      BY <1>5 DEF Die, KillCommand, Compile, CleanupDone, GiveUp, World, Disk, Over
    <2>. QED  BY <1>t, <1>e, <1>c, <2>1, DeclarationAssumption DEF LockTypeOK
  <1>6. CASE Drop
    <2>1. Kept(lock, command.wanted) \in Seq(Entry) /\ Len(Kept(lock, command.wanted)) <= Len(lock)
      BY <1>t, KeptFound DEF LockTypeOK, KeptSoFar
    <2>2. Len(Kept(lock, command.wanted)) <= C_MAX_DEPS
      BY <2>1, <1>t, DeclarationAssumption DEF LockTypeOK
    <2>. QED  BY <1>6, <1>t, <2>1, <2>2 DEF Drop, World, LockTypeOK
  <1>7. ASSUME NEW n \in Name, Resolve(n) PROVE LockTypeOK'
    <2>1. PICK d \in build :
           /\ mem' \in Seq(Entry) /\ Len(mem') <= C_MAX_DEPS
           /\ LockFor(mem', d) \in Entry
           /\ src' = src \cup {SourceDir(d, LockFor(mem', d))}
      BY <1>7, ResolvedIs
    <2>2. src' \subseteq DepDir
      BY <1>t, <2>1, DirType DEF LockTypeOK
    <2>3. /\ todo' \subseteq Name
          /\ at' \in {"resolve", "publish"} /\ now' \in Name \cup {None}
      BY <1>7, <1>t DEF Resolve, LockTypeOK
    <2>. QED  BY <1>7, <1>t, <2>1, <2>2, <2>3 DEF Resolve, World, LockTypeOK
  <1>8. CASE PublishAssets
    <2>1. PICK d \in build : /\ now = d.name /\ Declared(now) = d /\ now \in Name
                             /\ SourceDir(d, LockFor(mem, d)) \in src
      BY <1>8, PublishedIs DEF PublishAssets
    <2> DEFINE m == [kind |-> IF Declared(now).assets = "repo" THEN "repo" ELSE "files",
                     dir |-> SourceDir(Declared(now), LockFor(mem, Declared(now)))]
    <2>2. m \in [kind : {"files", "repo"}, dir : DepDir]
      BY <1>t, <2>1 DEF LockTypeOK
    <2>3. manifest' = [manifest EXCEPT ![now] = m]
      BY <1>8 DEF PublishAssets
    <2> HIDE DEF m
    <2>4. manifest' \in [Name -> {None} \cup [kind : {"files", "repo"}, dir : DepDir]]
      BY <1>t, <2>1, <2>2, <2>3 DEF LockTypeOK
    <2>. QED  BY <1>8, <1>t, <2>4 DEF PublishAssets, World, LockTypeOK
  <1>9. CASE Save
    <2>1. lock' \in Seq(Entry) /\ Len(lock') <= C_MAX_DEPS
      BY <1>9, <1>t DEF Save, LockTypeOK
    <2>2. ToClean(before, command.wanted) \subseteq Name
      <3>1. \A i \in DOMAIN before : before[i] \in Entry
        BY <1>t DEF LockTypeOK
      <3>2. \A e \in Range(before) : e.name \in Name
        BY <3>1 DEF Range, Entry
      <3>. QED  BY <3>2 DEF ToClean
    <2>3. UNCHANGED <<World, src, manifest>>
      BY <1>9 DEF Save
    <2>4. CASE UNCHANGED <<command, now, todo, mem, before, forwarded, result, sound>> /\ at' = "compile"
      BY <1>t, <2>1, <2>3, <2>4 DEF World, LockTypeOK
    <2>5. CASE /\ UNCHANGED <<command, now, before, forwarded, result, sound>>
               /\ at' = "clean" /\ todo' = ToClean(before, command.wanted) /\ mem' = <<>>
      <3>1. mem' \in Seq(Entry) /\ Len(mem') <= C_MAX_DEPS /\ todo' \subseteq Name
        BY <1>e, <2>2, <2>5, DeclarationAssumption
      <3>. QED  BY <1>t, <2>1, <2>3, <2>5, <3>1 DEF World, LockTypeOK
    <2>6. CASE Over("ok")
      <3>1. /\ at' = "idle" /\ now' = None /\ todo' = {} /\ mem' = <<>> /\ before' = <<>>
            /\ command' = NoCommand /\ result' = "ok" /\ UNCHANGED <<forwarded, sound>>
        BY <2>6 DEF Over
      <3>2. mem' \in Seq(Entry) /\ Len(mem') <= C_MAX_DEPS
        BY <1>e, <3>1, DeclarationAssumption
      <3>. QED  BY <1>t, <1>e, <1>c, <2>1, <2>3, <3>1, <3>2 DEF World, LockTypeOK
    <2>. QED  BY <1>9, <2>4, <2>5, <2>6 DEF Save
  <1>10. ASSUME NEW n \in Name, Retarget(n) PROVE LockTypeOK'
    <2>1. PICK m \in Retargeted(n) : manifest' = [manifest EXCEPT ![n] = m]
      BY <1>10, RetargetedIs
    <2>2. m \in {None} \cup [kind : {"files", "repo"}, dir : DepDir]
      <3>1. manifest[n] \in {None} \cup [kind : {"files", "repo"}, dir : DepDir]
        BY <1>t DEF LockTypeOK
      <3>2. manifest[n] # None /\ NewRoot(n) \in src =>
              [manifest[n] EXCEPT !.dir = NewRoot(n)] \in [kind : {"files", "repo"}, dir : DepDir]
        BY <3>1, <1>t DEF LockTypeOK
      <3>. QED  BY <2>1, <3>1, <3>2 DEF Retargeted
    <2>3. manifest' \in [Name -> {None} \cup [kind : {"files", "repo"}, dir : DepDir]]
      BY <1>t, <2>1, <2>2 DEF LockTypeOK
    <2>. QED  BY <1>10, <1>t, <2>3 DEF Retarget, World, LockTypeOK
  <1>11. CASE PruneSource
    <2>1. src' \subseteq src /\ at' \in {"src", "clean"} /\ now' \in {now, None}
      BY <1>11 DEF PruneSource
    <2>. QED  BY <1>11, <1>t, <2>1 DEF PruneSource, World, LockTypeOK
  <1>12. CASE DepsClean
    BY <1>12, <1>t DEF DepsClean, World, LockTypeOK
  <1>13. CASE CClean
    BY <1>13, <1>t DEF CClean, World, LockTypeOK
  <1>. QED
    BY <1>1, <1>2, <1>3, <1>4, <1>5, <1>6, <1>7, <1>8, <1>9, <1>10, <1>11, <1>12, <1>13 DEF LockNext

\* The steps that end a command without touching the disk.
Ends == Die \/ KillCommand \/ Compile \/ CleanupDone \/ GiveUp

LEMMA EndsFrame ==
  ASSUME Ends
  PROVE  /\ UNCHANGED <<build, upstream, lock, src, manifest, sound>>
         /\ at' = "idle" /\ todo' = {} /\ mem' = <<>> /\ before' = <<>> /\ now' = None
         /\ command' = NoCommand /\ result' \in {"ok", "updated", "none"}
         /\ result' = "ok" => at = "compile" /\ UNCHANGED forwarded
         /\ result' = "updated" => at \in {"clean", "src"} /\ forwarded' = {}
         /\ forwarded' \in {forwarded, {}}
  BY DEF Ends, Die, KillCommand, Compile, CleanupDone, GiveUp, World, Disk, Over

\* Save, by what becomes of the command.
LEMMA SaveIs ==
  ASSUME Save
  PROVE  /\ at = "resolve" /\ todo = {}
         /\ lock' = IF mem = <<>> THEN lock ELSE mem
         /\ UNCHANGED <<build, upstream, src, manifest, sound>>
         /\ \/ /\ command.kind = "build" /\ at' = "compile"
               /\ UNCHANGED <<command, now, todo, mem, before, forwarded, result>>
            \/ /\ command.standalone /\ at' = "clean"
               /\ todo' = ToClean(before, command.wanted) /\ mem' = <<>>
               /\ UNCHANGED <<command, now, before, forwarded, result>>
            \/ /\ at' = "idle" /\ todo' = {} /\ mem' = <<>> /\ before' = <<>> /\ now' = None
               /\ command' = NoCommand /\ result' = "ok" /\ UNCHANGED forwarded
PROOF
  <1>1. /\ at = "resolve" /\ todo = {}
        /\ lock' = IF mem = <<>> THEN lock ELSE mem
        /\ UNCHANGED <<World, src, manifest>>
    BY DEF Save
  <1>2. CASE /\ command.kind = "build"
             /\ at' = "compile"
             /\ UNCHANGED <<command, now, todo, mem, before, forwarded, result, sound>>
    BY <1>1, <1>2 DEF World
  <1>3. CASE /\ command.standalone
             /\ at' = "clean" /\ todo' = ToClean(before, command.wanted) /\ mem' = <<>>
             /\ UNCHANGED <<command, now, before, forwarded, result, sound>>
    BY <1>1, <1>3 DEF World
  <1>4. CASE /\ command.kind # "build" /\ ~command.standalone
             /\ Over("ok")
    BY <1>1, <1>4 DEF World, Over
  <1>. QED  BY <1>2, <1>3, <1>4 DEF Save

LEMMA NextCommandInv == LockInv /\ [LockNext]_lockVars => CommandInv'
PROOF
  <1> SUFFICES ASSUME LockInv, [LockNext]_lockVars PROVE CommandInv'
    OBVIOUS
  <1>i. CommandInv
    BY DEF LockInv
  <1>1. CASE UNCHANGED lockVars
    BY <1>1, <1>i DEF lockVars, CommandInv
  <1>2. CASE EditBuild
    <2>1. PICK n \in Name, d \in Declaration \cup {None} :
            /\ d # None => d.name = n
            /\ build' = {x \in build : x.name # n} \cup (IF d = None THEN {} ELSE {d})
      BY <1>2 DEF EditBuild
    <2>2. \A x, y \in build' : x.name = y.name => x = y
      BY <2>1, <1>i DEF CommandInv
    <2>. QED  BY <1>2, <1>i, <2>2 DEF EditBuild, CommandInv
  <1>3. CASE MoveUpstream \/ DepsClean \/ CClean
    BY <1>3, <1>i DEF MoveUpstream, DepsClean, CClean, World, CommandInv
  <1>4. CASE StartCommand
    BY <1>4, <1>i DEF StartCommand, World, CommandInv
  <1>5. CASE Ends
    BY <1>5, <1>i, EndsFrame DEF CommandInv, NoCommand
  <1>6. CASE Drop \/ PublishAssets \/ PruneSource
    BY <1>6, <1>i DEF Drop, PublishAssets, PruneSource, World, CommandInv
  <1>7. CASE \E n \in Name : Resolve(n) \/ Retarget(n)
    BY <1>7, <1>i DEF Resolve, Retarget, World, CommandInv
  <1>8. CASE Save
    BY <1>8, <1>i, SaveIs DEF CommandInv, NoCommand
  <1>. QED
    BY <1>1, <1>2, <1>3, <1>4, <1>5, <1>6, <1>7, <1>8 DEF LockNext, Ends

LEMMA NextListInv == LockInv /\ [LockNext]_lockVars => ListInv'
PROOF
  <1> SUFFICES ASSUME LockInv, [LockNext]_lockVars PROVE ListInv'
    OBVIOUS
  <1>i. ListInv
    BY DEF LockInv
  <1>1. CASE UNCHANGED lockVars
    BY <1>1, <1>i DEF lockVars, ListInv
  <1>2. CASE EditBuild \/ MoveUpstream \/ DepsClean \/ CClean
    BY <1>2 DEF EditBuild, MoveUpstream, DepsClean, CClean, ListInv
  <1>3. CASE StartCommand \/ Drop \/ PublishAssets
    BY <1>3 DEF StartCommand, Drop, PublishAssets, ListInv
  <1>4. CASE Ends
    BY <1>4, EndsFrame DEF ListInv
  <1>5. CASE \E n \in Name : Resolve(n)
    BY <1>5 DEF Resolve, ListInv
  <1>6. CASE Save
    <2>1. ToClean(before, command.wanted) \subseteq {e.name : e \in Range(before)}
      BY DEF ToClean
    <2>. QED  BY <1>6, <2>1, SaveIs DEF ListInv
  <1>7. ASSUME NEW n \in Name, Retarget(n) PROVE ListInv'
    BY <1>7, <1>i DEF Retarget, ListInv
  <1>8. CASE PruneSource
    BY <1>8, <1>i DEF PruneSource, ListInv
  <1>. QED
    BY <1>1, <1>2, <1>3, <1>4, <1>5, <1>6, <1>7, <1>8 DEF LockNext, Ends

LEMMA NextPinsInv == LockInv /\ [LockNext]_lockVars => PinsInv'
PROOF
  <1> SUFFICES ASSUME LockInv, [LockNext]_lockVars PROVE PinsInv'
    OBVIOUS
  <1>i. PinsInv /\ LockTypeOK
    BY DEF LockInv
  <1>d. Distinct(<<>>)
    BY DEF Distinct
  <1>1. CASE UNCHANGED lockVars
    BY <1>1, <1>i DEF lockVars, PinsInv
  <1>2. CASE EditBuild \/ MoveUpstream \/ DepsClean \/ CClean
    BY <1>2, <1>i DEF EditBuild, MoveUpstream, DepsClean, CClean, Disk, PinsInv
  <1>3. CASE StartCommand
    BY <1>3, <1>i, LoadIs DEF StartCommand, Disk, PinsInv
  <1>4. CASE Ends
    BY <1>4, <1>i, <1>d, EndsFrame DEF PinsInv
  <1>5. CASE Drop
    <2>1. Distinct(Kept(lock, command.wanted))
      BY <1>i, KeptFound DEF KeptSoFar, PinsInv, LockTypeOK
    <2>. QED  BY <1>5, <2>1 DEF Drop, PinsInv
  <1>6. ASSUME NEW n \in Name, Resolve(n) PROVE PinsInv'
    <2>1. Range(mem) \subseteq Range(mem') /\ Distinct(mem')
      BY <1>6, <1>i, ResolvedIs DEF PinsInv
    <2>. QED  BY <1>6, <1>i, <2>1 DEF Resolve, PinsInv
  <1>7. CASE Save
    BY <1>7, <1>i, <1>d, SaveIs DEF PinsInv
  <1>8. CASE PublishAssets \/ PruneSource
    BY <1>8, <1>i DEF PublishAssets, PruneSource, PinsInv
  <1>9. ASSUME NEW n \in Name, Retarget(n) PROVE PinsInv'
    BY <1>9, <1>i DEF Retarget, PinsInv
  <1>. QED
    BY <1>1, <1>2, <1>3, <1>4, <1>5, <1>6, <1>7, <1>8, <1>9 DEF LockNext, Ends

\* What cleaning may take away.
LEMMA PruneIs ==
  ASSUME LockInv, PruneSource
  PROVE  /\ at = "src" /\ now \in Name /\ at' \in {"src", "clean"} /\ now' \in {now, None}
         /\ UNCHANGED <<build, upstream, lock, manifest, command, todo, mem, before, forwarded, result, sound>>
         /\ src' \subseteq src
         /\ \A x \in src : x \in src' \/ (x.name \in Overlap[now] /\ ~CurrentSource(now, x))
  BY DEF LockInv, ListInv, PruneSource, Obsolete, World

\* Everything is resolved when c.lock is saved.
LEMMA SaveReady ==
  ASSUME LockInv, Save, NEW d \in build
  PROVE  Ready(d)'
PROOF
  <1>1. /\ at = "resolve" /\ todo = {} /\ UNCHANGED <<src, forwarded>>
        /\ lock' = IF mem = <<>> THEN lock ELSE mem
    BY SaveIs
  <1>2. Resolved(d)
    BY <1>1 DEF LockInv, ReadyInv
  <1>3. mem # <<>>
    BY <1>2 DEF Resolved, Pinned, Places
  <1>. QED  BY <1>1, <1>2, <1>3 DEF Resolved, Ready, SourceDir

LEMMA NextReadyInv == LockInv /\ [LockNext]_lockVars => ReadyInv'
PROOF
  <1> SUFFICES ASSUME LockInv, [LockNext]_lockVars PROVE ReadyInv'
    OBVIOUS
  <1>i. ReadyInv /\ LockTypeOK
    BY DEF LockInv
  <1>1. CASE UNCHANGED lockVars
    BY <1>1, <1>i DEF lockVars, ReadyInv, Resolved, Ready, Spared, SourceDir
  <1>2. CASE EditBuild \/ MoveUpstream \/ DepsClean \/ CClean
    BY <1>2 DEF EditBuild, MoveUpstream, DepsClean, CClean, ReadyInv
  <1>3. CASE StartCommand
    <2>1. todo' = {d.name : d \in build'} /\ at' \in {"drop", "resolve"}
      BY <1>3 DEF StartCommand, World
    <2>. QED  BY <2>1 DEF ReadyInv
  <1>4. CASE Ends
    BY <1>4, EndsFrame DEF ReadyInv
  <1>5. CASE Drop
    <2>1. todo' = {d.name : d \in build'} /\ at' = "resolve"
      BY <1>5, <1>i DEF Drop, World, ReadyInv
    <2>. QED  BY <2>1 DEF ReadyInv
  <1>6. ASSUME NEW n \in Name, Resolve(n) PROVE ReadyInv'
    <2>1. PICK d \in build :
           /\ n = d.name /\ n \in todo
           /\ Pinned(mem', d)
           /\ \A x : Pinned(mem, x) => Pinned(mem', x) /\ LockFor(mem', x) = LockFor(mem, x)
           /\ src' = src \cup {SourceDir(d, LockFor(mem', d))}
      BY <1>6, ResolvedIs
    <2>2. /\ UNCHANGED <<build, forwarded>> /\ todo' = todo \ {n} /\ at = "resolve"
          /\ (at' = "publish" /\ now' = n) \/ at' = "resolve"
      BY <1>6 DEF Resolve, World
    <2>3. \A x \in build : Resolved(x) => Resolved(x)'
      BY <2>1, <2>2 DEF Resolved, SourceDir
    <2>4. Resolved(d)'
      BY <2>1, <2>2 DEF Resolved, SourceDir
    <2>5. \A x \in build : x.name = d.name => x = d
      BY DEF LockInv, CommandInv
    <2>6. \A x \in build : x.name \in todo' \/ Resolved(x)'
      BY <1>i, <2>1, <2>2, <2>3, <2>4, <2>5 DEF ReadyInv
    <2>. QED  BY <1>i, <2>1, <2>2, <2>6 DEF ReadyInv
  <1>7. CASE PublishAssets
    <2>1. UNCHANGED <<build, todo, mem, src, forwarded>> /\ at = "publish" /\ at' = "resolve"
      BY <1>7 DEF PublishAssets, World
    <2>2. \A x \in build : Resolved(x)' <=> Resolved(x)
      BY <2>1 DEF Resolved, SourceDir
    <2>. QED  BY <1>i, <2>1, <2>2 DEF ReadyInv
  <1>8. CASE Save
    <2>1. UNCHANGED build /\ at' \in {"compile", "clean", "idle"}
      BY <1>8, SaveIs
    <2>2. \A d \in build : Ready(d)'
      BY <1>8, SaveReady
    <2>. QED  BY <2>1, <2>2 DEF ReadyInv
  <1>9. ASSUME NEW n \in Name, Retarget(n) PROVE ReadyInv'
    <2>1. UNCHANGED <<build, lock, src, forwarded>> /\ at = "clean" /\ at' = "src"
      BY <1>9 DEF Retarget, World
    <2>2. \A d \in build : (Ready(d)' <=> Ready(d)) /\ (Spared(d)' <=> Spared(d))
      BY <2>1 DEF Ready, Spared, SourceDir
    <2>. QED  BY <1>i, <2>1, <2>2 DEF ReadyInv
  <1>10. CASE PruneSource
    <2>1. \A d \in build : Spared(d)' <=> Spared(d)
      BY <1>10, PruneIs DEF Spared
    <2>2. ASSUME NEW d \in build, Spared(d), Ready(d) PROVE Ready(d)'
      <3> DEFINE e == LockFor(lock, d)
      <3>0. UNCHANGED forwarded /\ SourceDir(d, e) = Dir(e, "full")
        BY <1>10, <2>2, PruneIs DEF LockInv, CommandInv, Spared, SourceDir
      <3>1. Pinned(lock, d) /\ lock \in Seq(Entry) /\ Dir(e, "full") \in src
        BY <1>i, <2>2, <3>0 DEF Ready, LockTypeOK
      <3>2. e \in Range(lock) /\ e \in Entry /\ e.name = d.name
        BY <3>1, PinFound DEF Matches
      <3>3. Dir(e, "full") \in src'
        <4>1. SUFFICES ASSUME Dir(e, "full").name \in Overlap[now], ~CurrentSource(now, Dir(e, "full"))
                       PROVE  FALSE
          BY <1>10, <3>1, PruneIs
        <4>2. now = d.name
          BY <1>10, <2>2, <3>2, <4>1, PruneIs, DirType DEF Spared, Unprefixed
        <4>3. After = lock
          BY <1>i, <2>2, LoadIs DEF Spared, After
        <4>. QED  BY <3>2, <4>1, <4>2, <4>3 DEF CurrentSource
      <3>. QED  BY <1>10, <3>0, <3>1, <3>3, PruneIs DEF Ready, SourceDir
    <2>. QED  BY <1>10, <1>i, <2>1, <2>2, PruneIs DEF ReadyInv
  <1>. QED
    BY <1>1, <1>2, <1>3, <1>4, <1>5, <1>6, <1>7, <1>8, <1>9, <1>10 DEF LockNext, Ends

LEMMA NextReadyAfterSuccess == LockInv /\ [LockNext]_lockVars => ReadyAfterSuccess'
PROOF
  <1> SUFFICES ASSUME LockInv, [LockNext]_lockVars PROVE ReadyAfterSuccess'
    OBVIOUS
  <1>i. ReadyInv /\ ReadyAfterSuccess
    BY DEF LockInv
  <1>1. CASE UNCHANGED lockVars
    BY <1>1, <1>i DEF lockVars, ReadyAfterSuccess, Ready, Spared, SourceDir
  <1>2. CASE MoveUpstream
    BY <1>2, <1>i DEF MoveUpstream, Disk, ReadyAfterSuccess, Ready, Spared, SourceDir
  <1>3. CASE EditBuild \/ DepsClean \/ CClean \/ StartCommand
    BY <1>3 DEF EditBuild, DepsClean, CClean, StartCommand, ReadyAfterSuccess
  <1>4. CASE Ends
    <2>1. at \in {"clean", "src"} => forwarded = {}
      BY DEF LockInv, CommandInv
    <2>2. result' # "none" => UNCHANGED forwarded
      BY <1>4, <2>1, EndsFrame
    <2>3. \A d \in build : Spared(d)' <=> Spared(d)
      BY <1>4, EndsFrame DEF Spared
    <2>4. result' # "none" => \A d \in build : Ready(d)' <=> Ready(d)
      BY <1>4, <2>2, EndsFrame DEF Ready, SourceDir
    <2>. QED  BY <1>4, <1>i, <2>3, <2>4, EndsFrame DEF ReadyInv, ReadyAfterSuccess
  <1>5. CASE Drop \/ PublishAssets \/ PruneSource \/ \E n \in Name : Resolve(n) \/ Retarget(n)
    <2>1. at # "idle" /\ result' = result
      BY <1>5 DEF Drop, PublishAssets, PruneSource, Resolve, Retarget
    <2>. QED  BY <2>1 DEF ReadyAfterSuccess, LockInv, CommandInv
  <1>6. CASE Save
    <2>1. UNCHANGED build
      BY <1>6, SaveIs
    <2>2. \A d \in build : Ready(d)'
      BY <1>6, SaveReady
    <2>. QED  BY <2>1, <2>2 DEF ReadyAfterSuccess
  <1>. QED
    BY <1>1, <1>2, <1>3, <1>4, <1>5, <1>6 DEF LockNext, Ends

(* The manifests. *)

LEMMA SoundInvIs ==
  /\ SoundInv <=> \A n \in sound : /\ Unprefixed(n) => manifest[n] = None \/ manifest[n].dir \in src
                                   /\ command.kind = "update" => Rooted(n)
  /\ SoundInv' <=> \A n \in sound' : /\ Unprefixed(n) => manifest'[n] = None \/ manifest'[n].dir \in src'
                                     /\ command'.kind = "update" => Rooted(n)'
  BY DEF SoundInv, Rooted, Unprefixed

LEMMA FoundSame ==
  /\ UNCHANGED before => \A n : Named(before, n)' = Named(before, n) /\ OldRoot(n)' = OldRoot(n)
  /\ UNCHANGED lock => \A n : FindName(After, n)' = FindName(After, n) /\ NewRoot(n)' = NewRoot(n)
PROOF
  <1>1. ASSUME UNCHANGED before, NEW n
        PROVE  Named(before, n)' = Named(before, n) /\ OldRoot(n)' = OldRoot(n)
    BY <1>1 DEF OldRoot
  <1>2. ASSUME UNCHANGED lock
        PROVE  After' = After
    BY <1>2 DEF After
  <1>3. ASSUME UNCHANGED lock, NEW n
        PROVE  FindName(After, n)' = FindName(After, n) /\ NewRoot(n)' = NewRoot(n)
    BY <1>2, <1>3 DEF NewRoot
  <1>. QED  BY <1>1, <1>3

\* Steps that leave the manifests alone and remove no checkout.
LEMMA SoundSame ==
  ASSUME SoundInv, UNCHANGED <<manifest, before, command, sound>>, src \subseteq src',
         \/ at' = at /\ UNCHANGED <<todo, now, lock>>
         \/ at \in {"drop", "resolve"} /\ at' \in {"resolve", "publish", "compile"}
  PROVE  SoundInv'
PROOF
  <1>1. \A n : Rooted(n) => Rooted(n)'
    BY FoundSame DEF Rooted
  <1>. QED  BY <1>1, SoundInvIs

LEMMA SoundOver ==
  ASSUME SoundInv, UNCHANGED <<manifest, sound, src>>, command' = NoCommand
  PROVE  SoundInv'
  BY SoundInvIs DEF NoCommand

LEMMA StartSound == LockInv /\ StartCommand => SoundInv'
PROOF
  <1> SUFFICES ASSUME LockInv, StartCommand PROVE SoundInv'
    OBVIOUS
  <1>1. /\ UNCHANGED <<lock, src, manifest>>
        /\ sound' = {n \in Name : InStep(n)}
        /\ at' \in {"drop", "resolve"}
        /\ before' \in {<<>>, CleanupLoadLock(lock)}
    BY DEF StartCommand, Disk
  <1>2. ASSUME NEW n \in sound' PROVE manifest'[n] # None /\ manifest'[n].dir \in src' /\ Rooted(n)'
    <2>1. /\ manifest[n] # None /\ manifest[n].dir \in src /\ FindName(lock, n) # None
          /\ manifest[n].dir = Dir(FindName(lock, n), "full")
      BY <1>1, <1>2 DEF InStep
    <2>2. FindName(lock, n) \in Entry /\ FindName(lock, n).name = n
      BY <2>1, NameFound DEF LockInv, LockTypeOK
    <2>3. manifest[n].dir.name = n
      BY <2>1, <2>2, DirType
    <2>4. Named(before', n) # {} => FindName(before', n) = FindName(lock, n)
      <3>1. CASE before' = <<>>
        BY <3>1 DEF Named
      <3>2. CASE before' = CleanupLoadLock(lock)
        BY <3>2, LoadIs DEF LockInv
      <3>. QED  BY <1>1, <3>1, <3>2
    <2>5. Named(before', n) # {} => manifest'[n].dir = OldRoot(n)'
      BY <1>1, <2>1, <2>4 DEF OldRoot
    <2>. QED  BY <1>1, <2>1, <2>3, <2>5 DEF Rooted
  <1>. QED  BY <1>2, SoundInvIs

LEMMA PublishSound == LockInv /\ PublishAssets => SoundInv'
PROOF
  <1> SUFFICES ASSUME LockInv, PublishAssets PROVE SoundInv'
    OBVIOUS
  <1>1. PICK d \in build : /\ Declared(now) = d /\ now \in Name
                          /\ SourceDir(d, LockFor(mem, d)) \in src
    BY PublishedIs DEF PublishAssets
  <1> DEFINE m == [kind |-> IF Declared(now).assets = "repo" THEN "repo" ELSE "files",
                   dir |-> SourceDir(Declared(now), LockFor(mem, Declared(now)))]
  <1>2. manifest' = [manifest EXCEPT ![now] = m] /\ m.dir \in src
    BY <1>1 DEF PublishAssets
  <1> HIDE DEF m
  <1>3. command'.kind = "build" /\ sound' = sound /\ src' = src
    BY DEF PublishAssets, LockInv, CommandInv
  <1>4. \A n \in sound : manifest'[n] \in {manifest[n], m}
    BY <1>2 DEF LockInv, LockTypeOK
  <1>. QED  BY <1>2, <1>3, <1>4, SoundInvIs DEF LockInv

LEMMA SaveSound == LockInv /\ Save => SoundInv'
PROOF
  <1> SUFFICES ASSUME LockInv, Save PROVE SoundInv'
    OBVIOUS
  <1>i. SoundInv
    BY DEF LockInv
  <1>1. CASE at' = "compile" /\ UNCHANGED <<command, before>>
    BY <1>1, <1>i, SaveIs, SoundSame
  <1>2. CASE /\ at' = "clean" /\ todo' = ToClean(before, command.wanted)
             /\ UNCHANGED <<command, before>>
    <2>1. before \in Seq(Entry)
      BY DEF LockInv, LockTypeOK
    <2>2. \A n \in todo' : Named(before, n) # {}
      BY <1>2, <2>1, NameFound DEF ToClean
    <2>3. at = "resolve" /\ UNCHANGED <<manifest, src, sound>>
      BY SaveIs
    <2>4. \A n : Rooted(n) => Rooted(n)'
      BY <1>2, <2>2, <2>3, FoundSame DEF Rooted
    <2>. QED  BY <1>i, <1>2, <2>3, <2>4, SoundInvIs
  <1>3. CASE command' = NoCommand
    BY <1>3, <1>i, SaveIs, SoundOver
  <1>. QED  BY <1>1, <1>2, <1>3, SaveIs

\* A manifest moves from the old checkout to the new one, or goes.
LEMMA RetargetSound ==
  ASSUME LockInv, NEW k \in Name, Retarget(k)
  PROVE  SoundInv'
PROOF
  <1>1. /\ k \in todo /\ Named(before, k) # {}
        /\ at' = "src" /\ now' = k /\ todo' = todo \ {k} /\ at = "clean"
        /\ UNCHANGED <<before, command, sound, lock, src>>
    BY RetargetedIs DEF Retarget
  <1>2. PICK m \in Retargeted(k) : manifest' = [manifest EXCEPT ![k] = m]
    BY RetargetedIs
  <1>3. manifest'[k] = m /\ \A n \in Name \ {k} : manifest'[n] = manifest[n]
    BY <1>2 DEF LockInv, LockTypeOK
  <1>4. command.kind = "update" /\ SoundInv /\ sound \subseteq Name
    BY <1>1 DEF LockInv, CommandInv, LockTypeOK
  <1>5. ASSUME NEW n \in sound, n # k
        PROVE  /\ Unprefixed(n) => manifest'[n] = None \/ manifest'[n].dir \in src'
               /\ Rooted(n)'
    <2>1. manifest'[n] = manifest[n] /\ Rooted(n)
      BY <1>3, <1>4, <1>5, SoundInvIs
    <2>2. Rooted(n)'
      BY <1>1, <1>5, <2>1, FoundSame DEF Rooted
    <2>. QED  BY <1>1, <1>4, <2>1, <2>2, SoundInvIs
  <1>6. ASSUME k \in sound
        PROVE  /\ Unprefixed(k) => manifest'[k] = None \/ manifest'[k].dir \in src'
               /\ Rooted(k)'
    <2>1. manifest[k] # None /\ manifest[k].dir = OldRoot(k) /\ manifest[k].dir.name = k
      BY <1>1, <1>4, <1>6, SoundInvIs DEF Rooted
    <2>2. FindName(before, k) # None
      BY <1>1, NameFound DEF LockInv, LockTypeOK
    <2>3. CASE ~Changed(k)
      <3>1. m = manifest[k] /\ FindName(After, k) = FindName(before, k)
        BY <1>2, <2>3 DEF Retargeted, Changed
      <3>2. manifest[k].dir = NewRoot(k)
        BY <2>1, <3>1 DEF OldRoot, NewRoot
      <3>3. Rooted(k)'
        BY <1>1, <1>3, <2>1, <2>2, <3>1, <3>2, FoundSame DEF Rooted
      <3>. QED  BY <1>1, <1>3, <1>4, <1>6, <3>1, <3>3, SoundInvIs
    <2>4. CASE Changed(k) /\ FindName(After, k) = None
      <3>1. m = None
        BY <1>2, <2>1, <2>4 DEF Retargeted
      <3>. QED  BY <1>1, <1>3, <3>1 DEF Rooted
    <2>5. CASE Changed(k) /\ FindName(After, k) # None
      <3>1. FindName(After, k) \in Entry /\ FindName(After, k).name = k
        BY <2>5, LoadIs, NameFound DEF LockInv, After
      <3>2. NewRoot(k).name = k
        BY <3>1, DirType DEF NewRoot
      <3>3. CASE OldRoot(k) = NewRoot(k)
        <4>1. m = manifest[k]
          BY <1>2, <2>1, <2>5, <3>3 DEF Retargeted
        <4>2. Rooted(k)'
          BY <1>1, <1>3, <2>1, <2>5, <3>2, <3>3, <4>1, FoundSame DEF Rooted
        <4>. QED  BY <1>1, <1>3, <1>4, <1>6, <4>1, <4>2, SoundInvIs
      <3>4. CASE OldRoot(k) # NewRoot(k)
        <4>1. m = [manifest[k] EXCEPT !.dir = NewRoot(k)] /\ NewRoot(k) \in src
          BY <1>2, <2>1, <2>5, <3>4 DEF Retargeted
        <4>2. manifest[k] \in [kind : {"files", "repo"}, dir : DepDir]
          BY <2>1 DEF LockInv, LockTypeOK
        <4>3. m.dir = NewRoot(k)
          BY <4>1, <4>2
        <4>4. Rooted(k)'
          BY <1>1, <1>3, <2>5, <3>2, <4>3, FoundSame DEF Rooted
        <4>. QED  BY <1>1, <1>3, <4>1, <4>3, <4>4
      <3>. QED  BY <3>3, <3>4
    <2>. QED  BY <2>3, <2>4, <2>5
  <1>. QED  BY <1>1, <1>5, <1>6, SoundInvIs

LEMMA PruneSound == LockInv /\ PruneSource => SoundInv'
PROOF
  <1> SUFFICES ASSUME LockInv, PruneSource PROVE SoundInv'
    OBVIOUS
  <1>1. command.kind = "update" /\ at = "src" /\ SoundInv
    BY PruneIs DEF LockInv, CommandInv
  <1>2. ASSUME NEW n \in sound PROVE Rooted(n)'
    <2>1. Rooted(n)
      BY <1>1, <1>2, SoundInvIs
    <2>2. n \in Name
      BY <1>2 DEF LockInv, LockTypeOK
    <2>. QED  BY <1>1, <2>1, <2>2, PruneIs, FoundSame, DeclarationAssumption DEF Rooted
  <1>3. ASSUME NEW n \in sound, Unprefixed(n), manifest[n] # None
        PROVE  manifest[n].dir \in src'
    <2> DEFINE x == manifest[n].dir
    <2>1. x \in src /\ x.name = n
      BY <1>1, <1>3, SoundInvIs DEF Rooted
    <2>2. SUFFICES ASSUME x.name \in Overlap[now], ~CurrentSource(now, x) PROVE FALSE
      BY <2>1, PruneIs
    <2>3. now = n
      BY <1>3, <2>1, <2>2, PruneIs DEF Unprefixed
    <2>4. FindName(After, n) # None /\ x = Dir(FindName(After, n), "full")
      BY <1>1, <1>3, <2>3, SoundInvIs DEF Rooted, NewRoot
    <2>5. FindName(After, n) \in Range(After) /\ FindName(After, n).name = n
      BY <2>4, LoadIs, NameFound DEF LockInv, After
    <2>. QED  BY <2>2, <2>3, <2>4, <2>5 DEF CurrentSource
  <1>. QED  BY <1>2, <1>3, PruneIs, SoundInvIs

LEMMA NextSoundInv == LockInv /\ [LockNext]_lockVars => SoundInv'
PROOF
  <1> SUFFICES ASSUME LockInv, [LockNext]_lockVars PROVE SoundInv'
    OBVIOUS
  <1>i. SoundInv
    BY DEF LockInv
  <1>1. CASE UNCHANGED lockVars \/ EditBuild \/ MoveUpstream
    BY <1>1, <1>i, SoundSame DEF lockVars, EditBuild, MoveUpstream, Disk
  <1>2. CASE DepsClean \/ CClean
    BY <1>2 DEF DepsClean, CClean, SoundInv
  <1>3. CASE Ends
    BY <1>3, <1>i, EndsFrame, SoundOver
  <1>4. CASE Drop
    BY <1>4, <1>i, SoundSame DEF Drop
  <1>5. ASSUME NEW n \in Name, Resolve(n) PROVE SoundInv'
    BY <1>5, <1>i, SoundSame DEF Resolve
  <1>. QED
    BY <1>1, <1>2, <1>3, <1>4, <1>5, StartSound, PublishSound, SaveSound, RetargetSound, PruneSound
    DEF LockNext, Ends

LEMMA LockInvariance == LockSpec => []LockInv
PROOF
  <1>1. LockInv /\ [LockNext]_lockVars => LockInv'
    BY NextLockTypeOK, NextCommandInv, NextListInv, NextPinsInv, NextReadyInv,
       NextReadyAfterSuccess, NextSoundInv DEF LockInv
  <1>. QED  BY InitLockInv, <1>1, PTL DEF LockSpec

\* The types of c.lock, of the cache and of the manifests, the bounds of the
\* lists and what each command may be at (main.c, cache_cleanup.h).
THEOREM LockTypeCorrect == LockSpec => []LockTypeOK
PROOF
  <1>1. LockInv => LockTypeOK
    BY DEF LockInv
  <1>. QED  BY <1>1, LockInvariance, PTL

\* A manifest that was in step leads to a checkout throughout the command
\* and after it, killed or not (cache_cleanup.h,
\* c_cache_cleanup_prune_after_update), for any declarations and any sizes of
\* the two lists.
THEOREM SoundStaysLiveHolds == LockSpec => []SoundStaysLive
PROOF
  <1>1. LockInv => SoundStaysLive
    BY DEF LockInv, SoundInv, SoundStaysLive, Live, CAsset
  <1>. QED  BY <1>1, LockInvariance, PTL

\* What build.c declares is pinned and checked out after a success
\* (resolve_all, c_cache_cleanup_prune_after_update).
THEOREM ReadyAfterSuccessHolds == LockSpec => []ReadyAfterSuccess
PROOF
  <1>1. LockInv => ReadyAfterSuccess
    BY DEF LockInv
  <1>. QED  BY <1>1, LockInvariance, PTL

\* Pins go only in the update that was asked to renew them, and a dependency
\* has one (load_lock, save_lock, cmd_update).
THEOREM PinsKeptHolds == LockSpec => PinsKept
PROOF
  <1> DEFINE Keeps == /\ \A e \in Range(lock) \ Range(lock') :
                           command.kind = "update" /\ command.wanted \in {None, e.name}
                      /\ Distinct(lock')
  <1>1. LockInv /\ [LockNext]_lockVars => Keeps
    <2> SUFFICES ASSUME LockInv, [LockNext]_lockVars PROVE Keeps
      OBVIOUS
    <2>1. Distinct(lock')
      BY NextPinsInv DEF PinsInv
    <2>2. CASE Drop
      <3>1. lock \in Seq(Entry) /\ lock' = Kept(lock, command.wanted)
        BY <2>2 DEF Drop, LockInv, LockTypeOK
      <3>2. ASSUME NEW e \in Range(lock), e \notin Range(lock')
            PROVE  command.wanted \in {None, e.name}
        <4>1. PICK h \in 1..Len(lock) : e = lock[h]
          BY <3>1, <3>2 DEF Range
        <4>2. ~ \E j \in DOMAIN lock' : lock'[j] = e
          BY <3>2 DEF Range
        <4>. QED  BY <3>1, <4>1, <4>2, KeptFound DEF KeptSoFar
      <3>3. command.kind = "update"
        BY <2>2 DEF Drop, LockInv, CommandInv
      <3>. QED  BY <2>1, <3>2, <3>3
    <2>3. CASE Save
      <3>1. Range(lock) \subseteq Range(lock')
        BY <2>3, SaveIs DEF LockInv, PinsInv
      <3>. QED  BY <2>1, <3>1
    <2>4. CASE ~Drop /\ ~Save
      <3>1. UNCHANGED lock
        BY <2>4, EndsFrame DEF LockNext, lockVars, Ends, EditBuild, MoveUpstream, StartCommand,
           Disk, Resolve, PublishAssets, Retarget, PruneSource, DepsClean, CClean
      <3>. QED  BY <2>1, <3>1
    <2>. QED  BY <2>2, <2>3, <2>4
  <1>2. LockInv /\ [LockNext]_lockVars => [Keeps]_lockVars
    BY <1>1
  <1>. QED  BY <1>2, LockInvariance, PTL DEF LockSpec, PinsKept
=============================================================================
