-------------------------- MODULE ObjectBuildProofs --------------------------
(***************************************************************************)
(* Proofs about ObjectBuild for any headers, contents, include relation    *)
(* and numbers of edits.  StampInv lets a builder trust a stamp and a hash *)
(* it remembers; ObjectInv says that a file which is not newer than the    *)
(* object is as it was when the object was made, so that an object which   *)
(* passes the test on all files of its depfile is current: the depfile     *)
(* lists the source, and the source's content decides on the headers.      *)
(***************************************************************************)
EXTENDS ObjectBuild, TLAPS

(* What a compiler makes. *)

LEMMA MadeDomain ==
  ASSUME NEW m \in Made
  PROVE  DOMAIN m \in SUBSET File /\ \A f \in DOMAIN m : m[f] \in Contents
  BY DEF Made

LEMMA MadeIntro ==
  ASSUME NEW F \in SUBSET File, NEW m \in [F -> Contents]
  PROVE  m \in Made
  BY DEF Made

LEMMA WantedIsMade ==
  ASSUME TypeOK
  PROVE  /\ Wanted \in Made /\ FromSource(Wanted)
         /\ DOMAIN Wanted = {Source} \cup Includes[file[Source].content]
         /\ \A f \in DOMAIN Wanted : Wanted[f] = file[f].content
  <1>1. {Source} \cup Includes[file[Source].content] \in SUBSET File
    BY IncludesAssumption DEF TypeOK, File
  <1>2. Wanted \in [{Source} \cup Includes[file[Source].content] -> Contents]
    BY <1>1 DEF TypeOK, Wanted
  <1>3. Wanted \in Made
    BY <1>1, <1>2, MadeIntro
  <1>. QED  BY <1>2, <1>3 DEF Wanted, FromSource

\* What holds the source and what the source as it is includes, with the
\* contents as they are, is what a compiler would make now.
LEMMA IsWanted ==
  ASSUME TypeOK, NEW m \in Made, FromSource(m), \A f \in DOMAIN m : m[f] = file[f].content
  PROVE  m = Wanted
  <1>1. DOMAIN m = {Source} \cup Includes[file[Source].content]
    BY DEF FromSource
  <1>2. m = [f \in DOMAIN m |-> m[f]]
    BY DEF Made
  <1>. QED  BY <1>1, <1>2 DEF Wanted

\* An object and a depfile that were written are there.
LEMMA NotNone ==
  ASSUME TypeOK, NEW m \in Made
  PROVE  [made |-> m, mtime |-> clock] # None /\ DOMAIN m # None /\ m # None
  <1>1. mode \in Modes /\ clock \in 0 .. mode.edits
    BY DEF TypeOK
  <1>. QED  BY <1>1, NoneAssumption, MadeDomain

(* compiler_cached_stamp and compiler_hash_file. *)

LEMMA HashType ==
  ASSUME TypeOK, NEW f \in File
  PROVE  Stamp(f) \in 0 .. clock /\ Hash(f) \in Contents
  BY DEF TypeOK, Stamp, Hash

LEMMA StatFilesEffect ==
  ASSUME TypeOK, NEW F, StatFiles(F)
  PROVE  /\ stamps' \in [File -> {None} \cup 0 .. clock]
         /\ \A f \in File : stamps'[f] \in {stamps[f], Stamp(f)}
  BY HashType DEF StatFiles, TypeOK

LEMMA HashFilesEffect ==
  ASSUME TypeOK, NEW F, HashFiles(F)
  PROVE  /\ stamps' \in [File -> {None} \cup 0 .. clock]
         /\ hashes' \in [File -> {None} \cup Contents]
         /\ phash' \in [File -> {None} \cup [content : Contents, mtime : 0 .. clock]]
         /\ \A f \in File :
              /\ stamps'[f] \in {stamps[f], Stamp(f)} /\ hashes'[f] \in {hashes[f], Hash(f)}
              /\ \/ phash'[f] = phash[f]
                 \/ hashes[f] = None /\ phash'[f] = [mtime |-> Stamp(f), content |-> Hash(f)]
  <1>1. stamps' \in [File -> {None} \cup 0 .. clock]
        /\ \A f \in File : stamps'[f] \in {stamps[f], Stamp(f)}
    BY StatFilesEffect DEF HashFiles
  <1>2. hashes' \in [File -> {None} \cup Contents]
        /\ \A f \in File : hashes'[f] \in {hashes[f], Hash(f)}
    BY HashType DEF HashFiles, TypeOK
  <1>3. phash' \in [File -> {None} \cup [content : Contents, mtime : 0 .. clock]]
    BY HashType DEF HashFiles, TypeOK, Persist
  <1>4. \A f \in File : \/ phash'[f] = phash[f]
                        \/ hashes[f] = None /\ phash'[f] = [mtime |-> Stamp(f), content |-> Hash(f)]
    BY DEF HashFiles, Persist
  <1>. QED  BY <1>1, <1>2, <1>3, <1>4

\* The actions by what they do to the builder's memory.
Hashing ==
  \/ HashSource \/ DropEntry \/ RestoreObject \/ Store \/ CrashInStore \/ CrashInDrop
Forgetful ==
  \/ Clean \/ UseFresh \/ NoEntry \/ RestoreDepfile \/ Invalidate \/ Read \/ Write
  \/ CompileFails \/ Mark \/ Crash \/ OrphanWrites

LEMMA Actions ==
  [Next]_vars <=> \/ \E f \in File, c \in Contents : Edit(f, c)
                  \/ Start \/ NotFresh \/ Hashing \/ Forgetful \/ UNCHANGED vars
  BY DEF Next, Build, Hashing, Forgetful

LEMMA HashingFrame ==
  ASSUME Hashing
  PROVE  /\ UNCHANGED <<mode, clock, file, orphan>> /\ pc \notin {"idle", "fresh"}
         /\ \E F : HashFiles(F)
  BY DEF Hashing, HashSource, DropEntry, RestoreObject, Store, CrashInStore, CrashInDrop

LEMMA ForgetfulFrame ==
  Forgetful => UNCHANGED <<mode, clock, file, phash, stamps, hashes, key>>
  BY DEF Forgetful, Clean, UseFresh, NoEntry, RestoreDepfile, Invalidate, Read, Write,
         CompileFails, Mark, Crash, OrphanWrites, memory

-----------------------------------------------------------------------------
LEMMA InitIInv == Init => IInv
  <1>. SUFFICES ASSUME Init PROVE IInv
    OBVIOUS
  <1>1. mode.edits \in Nat
    BY ModesAssumption DEF Init
  <1>2. TypeOK
    <2>1. clock \in 0 .. mode.edits /\ 0 \in 0 .. clock /\ began \in 0 .. clock
      BY <1>1 DEF Init
    <2>2. file \in [File -> [content : Contents, mtime : 0 .. clock]]
      BY <2>1 DEF Init
    <2>3. /\ phash \in [File -> {None} \cup [content : Contents, mtime : 0 .. clock]]
          /\ stamps \in [File -> {None} \cup 0 .. clock]
          /\ hashes \in [File -> {None} \cup Contents]
      BY DEF Init, NothingKnown
    <2>. QED  BY <2>1, <2>2, <2>3 DEF Init, TypeOK
  <1>3. HashIsHonest /\ StepInv /\ StampInv
    BY DEF Init, HashIsHonest, StepInv, StampInv, NothingKnown
  <1>4. ObjectInv
    BY DEF Init, ObjectInv
  <1>5. CacheInv
    BY DEF Init, CacheInv, Honest
  <1>. QED  BY <1>2, <1>3, <1>4, <1>5 DEF IInv

LEMMA NextTypeOK == IInv /\ [Next]_vars => TypeOK'
  <1>. SUFFICES ASSUME IInv, [Next]_vars PROVE TypeOK'
    OBVIOUS
  <1>0. TypeOK /\ StepInv /\ mode.edits \in Nat /\ clock \in Nat
    BY ModesAssumption DEF IInv, TypeOK
  <1>1. ASSUME NEW f \in File, NEW c \in Contents, Edit(f, c) PROVE TypeOK'
    <2>1. clock' \in 0 .. mode.edits /\ clock' = clock + 1 /\ 0 .. clock \subseteq 0 .. clock'
      BY <1>0, <1>1 DEF Edit, TypeOK
    <2>2. file' \in [File -> [content : Contents, mtime : 0 .. clock']]
      BY <1>0, <1>1, <2>1 DEF Edit, TypeOK
    <2>3. obj' \in {None} \cup [made : Made, mtime : 0 .. clock']
      BY <1>0, <1>1, <2>1 DEF Edit, TypeOK, disk
    <2>4. phash' \in [File -> {None} \cup [content : Contents, mtime : 0 .. clock']]
      BY <1>0, <1>1, <2>1 DEF Edit, TypeOK
    <2>5. stamps' \in [File -> {None} \cup 0 .. clock']
      BY <1>0, <1>1, <2>1 DEF Edit, TypeOK, memory
    <2>6. began' \in 0 .. clock'
      BY <1>0, <1>1, <2>1 DEF Edit, TypeOK
    <2>. QED
      BY <1>0, <1>1, <2>1, <2>2, <2>3, <2>4, <2>5, <2>6 DEF Edit, TypeOK, disk, cache, memory
  <1>2. CASE Start
    BY <1>0, <1>2 DEF Start, TypeOK, disk, cache, NothingKnown
  <1>3. CASE NotFresh
    <2>1. stamps' \in [File -> {None} \cup 0 .. clock]
      BY <1>0, <1>3, StatFilesEffect DEF NotFresh, TypeOK
    <2>. QED  BY <1>0, <1>3, <2>1 DEF NotFresh, TypeOK, disk, cache, outcome
  <1>4. CASE Hashing
    <2>1. /\ stamps' \in [File -> {None} \cup 0 .. clock']
          /\ hashes' \in [File -> {None} \cup Contents]
          /\ phash' \in [File -> {None} \cup [content : Contents, mtime : 0 .. clock']]
      BY <1>0, <1>4, HashingFrame, HashFilesEffect
    <2>. USE <1>0, <2>1 DEF TypeOK, disk, cache, outcome
    <2>2. CASE HashSource
      BY <2>2, HashType DEF HashSource, File
    <2>3. CASE DropEntry
      BY <2>3 DEF DropEntry
    <2>4. CASE RestoreObject
      BY <2>4 DEF RestoreObject, Entry, StepInv
    <2>5. ASSUME pc = "store" PROVE obj.made \in Made /\ dep \in SUBSET File /\ Meta \in Made
      <3>1. obj.made \in Made /\ dep \in SUBSET File
        BY <2>5 DEF StepInv
      <3>2. Meta \in [dep -> Contents]
        BY <3>1, HashType DEF Meta
      <3>. QED  BY <3>1, <3>2, MadeIntro
    <2>6. CASE Store
      BY <2>5, <2>6 DEF Store
    <2>7. CASE CrashInStore
      <3>1. CASE cdep' = cdep
        BY <2>5, <2>7, <3>1 DEF CrashInStore
      <3>2. CASE cdep' = [cdep EXCEPT ![key] = dep]
        BY <2>5, <2>7, <3>2 DEF CrashInStore
      <3>. QED  BY <2>7, <3>1, <3>2 DEF CrashInStore
    <2>8. CASE CrashInDrop
      <3>1. CASE cdep' = cdep
        BY <2>8, <3>1 DEF CrashInDrop
      <3>2. CASE cdep' = [cdep EXCEPT ![key] = None]
        BY <2>8, <3>2 DEF CrashInDrop
      <3>. QED  BY <2>8, <3>1, <3>2 DEF CrashInDrop
    <2>. QED  BY <1>4, <2>2, <2>3, <2>4, <2>6, <2>7, <2>8 DEF Hashing
  <1>5. CASE Forgetful
    <2>1. UNCHANGED <<mode, clock, file, phash, stamps, hashes, key>>
      BY <1>5, ForgetfulFrame
    <2>. USE <1>0, <2>1 DEF TypeOK, disk, cache, outcome
    <2>2. CASE Clean \/ UseFresh \/ NoEntry \/ CompileFails \/ Mark
      BY <2>2 DEF Clean, UseFresh, NoEntry, CompileFails, Mark, Succeed
    <2>3. CASE RestoreDepfile
      BY <2>3 DEF RestoreDepfile, StepInv
    <2>4. CASE Invalidate
      BY <2>4 DEF Invalidate
    <2>5. CASE Read
      BY <2>5, WantedIsMade DEF Read
    <2>6. CASE Write
      BY <2>6, MadeDomain DEF Write
    <2>7. CASE Crash
      BY <2>7 DEF Crash
    <2>8. CASE OrphanWrites
      BY <2>8, MadeDomain DEF OrphanWrites
    <2>. QED  BY <1>5, <2>2, <2>3, <2>4, <2>5, <2>6, <2>7, <2>8 DEF Forgetful
  <1>6. CASE UNCHANGED vars
    BY <1>0, <1>6 DEF TypeOK, vars, disk, cache, memory, outcome
  <1>. QED  BY <1>1, <1>2, <1>3, <1>4, <1>5, <1>6, Actions

-----------------------------------------------------------------------------
LEMMA NextStepInv == IInv /\ [Next]_vars => StepInv'
  <1>. SUFFICES ASSUME IInv, [Next]_vars PROVE StepInv'
    OBVIOUS
  <1>0. TypeOK /\ StepInv /\ Source \in File /\ mode \in Modes
    BY DEF IInv, TypeOK, File
  <1>. USE <1>0 DEF StepInv, disk, cache, memory
  <1>1. ASSUME NEW f \in File, NEW c \in Contents, Edit(f, c) PROVE StepInv'
    BY <1>1 DEF Edit
  <1>2. CASE Start \/ NotFresh
    BY <1>2 DEF Start, NotFresh
  <1>3. CASE HashSource
    BY <1>3, HashType DEF HashSource
  <1>4. CASE DropEntry \/ RestoreObject \/ Store \/ CrashInStore \/ CrashInDrop
    BY <1>4 DEF DropEntry, RestoreObject, Store, CrashInStore, CrashInDrop
  <1>5. CASE Clean \/ UseFresh \/ NoEntry \/ RestoreDepfile \/ Invalidate \/ Read
               \/ CompileFails \/ Mark \/ Crash
    BY <1>5 DEF Clean, UseFresh, NoEntry, RestoreDepfile, Invalidate, Read, CompileFails, Mark, Crash
  <1>6. CASE Write
    BY <1>6, NotNone DEF Write, TypeOK
  <1>7. CASE OrphanWrites
    BY <1>7, NotNone DEF OrphanWrites, TypeOK
  <1>8. CASE UNCHANGED vars
    BY <1>8 DEF vars
  <1>. QED  BY <1>1, <1>2, <1>3, <1>4, <1>5, <1>6, <1>7, <1>8, Actions DEF Hashing, Forgetful

\* The builder's hash of a file that nobody edits behind its back.
LEMMA HashIsContent ==
  ASSUME IInv, pc # "idle", ~mode.editing, NEW f \in File
  PROVE  Stamp(f) = file[f].mtime /\ Hash(f) = file[f].content
  BY DEF IInv, StampInv, HashIsHonest, Stamp, Hash

LEMMA NextHashes == IInv /\ [Next]_vars => HashIsHonest' /\ StampInv'
  <1>. SUFFICES ASSUME IInv, [Next]_vars PROVE HashIsHonest' /\ StampInv'
    OBVIOUS
  <1>0. TypeOK /\ HashIsHonest /\ StampInv /\ Source \in File /\ clock \in Nat
    BY ModesAssumption DEF IInv, TypeOK, File
  <1>1. ASSUME NEW f \in File, NEW c \in Contents, Edit(f, c) PROVE HashIsHonest' /\ StampInv'
    <2>0. /\ UNCHANGED <<mode, stamps, hashes, phash, pc, key>> /\ (pc # "idle" => mode.editing)
          /\ \A g \in File : /\ file[g].mtime \in 0 .. clock
                             /\ g # f => file'[g] = file[g]
                             /\ g = f => file'[g].mtime = clock + 1
      BY <1>0, <1>1 DEF Edit, memory, TypeOK
    <2>1. \A g \in File : file[g].mtime <= file'[g].mtime /\ (g = f => file[g].mtime < file'[g].mtime)
      BY <1>0, <2>0
    <2>2. \A g \in File : stamps[g] # None => stamps[g] \in Nat /\ stamps[g] <= clock
      BY <1>0 DEF TypeOK
    <2>5. \A g \in File : phash[g] # None => phash[g].mtime \in Nat /\ phash[g].mtime <= clock
      BY <1>0 DEF TypeOK
    <2>3. HashIsHonest'
      BY <1>0, <2>0, <2>1, <2>5 DEF HashIsHonest, StampInv
    <2>4. StampInv'
      <3>1. ASSUME NEW g \in File
            PROVE  /\ stamps'[g] # None => stamps'[g] <= file'[g].mtime
                   /\ phash'[g] # None => phash'[g].mtime <= file'[g].mtime
        <4>1. file[g].mtime \in Nat /\ file'[g].mtime \in Nat /\ file[g].mtime <= file'[g].mtime
          BY <1>0, <2>0, <2>1
        <4>0. /\ stamps[g] # None => stamps[g] <= file[g].mtime
              /\ phash[g] # None => phash[g].mtime <= file[g].mtime
          BY <1>0 DEF StampInv
        <4>. QED  BY <2>0, <2>2, <2>5, <4>0, <4>1
      <3>2. ~(pc' # "idle" /\ ~mode'.editing)
        BY <2>0
      <3>. QED  BY <3>1, <3>2 DEF StampInv
    <2>. QED  BY <2>3, <2>4
  <1>2. CASE Start
    BY <1>0, <1>2 DEF Start, HashIsHonest, StampInv, NothingKnown
  <1>3. CASE NotFresh
    <2>1. /\ UNCHANGED <<mode, file, phash, hashes>> /\ pc # "idle" /\ pc' = "key"
          /\ \A f \in File : stamps'[f] \in {stamps[f], Stamp(f)}
      BY <1>0, <1>3, StatFilesEffect DEF NotFresh
    <2>. QED  BY <1>0, <2>1 DEF HashIsHonest, StampInv, Stamp, TypeOK
  <1>4. CASE Hashing
    <2>0. /\ UNCHANGED <<mode, clock, file>> /\ pc \notin {"idle", "fresh"}
          /\ \A f \in File :
              /\ stamps'[f] \in {stamps[f], Stamp(f)} /\ hashes'[f] \in {hashes[f], Hash(f)}
              /\ \/ phash'[f] = phash[f]
                 \/ hashes[f] = None /\ phash'[f] = [mtime |-> Stamp(f), content |-> Hash(f)]
      BY <1>0, <1>4, HashingFrame, HashFilesEffect
    <2>1. ASSUME NEW f \in File
          PROVE  /\ stamps'[f] # None => stamps'[f] <= file[f].mtime
                 /\ phash'[f] # None => phash'[f].mtime <= file[f].mtime
      <3>1. file[f].mtime \in Nat /\ (stamps[f] # None => stamps[f] <= file[f].mtime)
            /\ (phash[f] # None => phash[f].mtime <= file[f].mtime)
        BY <1>0 DEF StampInv, TypeOK
      <3>2. Stamp(f) <= file[f].mtime
        BY <3>1 DEF Stamp
      <3>3. stamps'[f] # None => stamps'[f] <= file[f].mtime
        BY <2>0, <3>1, <3>2
      <3>4. phash'[f] # None => phash'[f].mtime <= file[f].mtime
        <4>1. CASE phash'[f] = phash[f]
          BY <3>1, <4>1
        <4>2. CASE phash'[f] = [mtime |-> Stamp(f), content |-> Hash(f)]
          BY <3>2, <4>2
        <4>. QED  BY <2>0, <4>1, <4>2
      <3>. QED  BY <3>3, <3>4
    <2>2. HashIsHonest'
      <3>1. ASSUME NEW f \in File, phash'[f] # None, phash'[f].mtime = file[f].mtime
            PROVE  phash'[f].content = file[f].content
        <4>1. CASE phash'[f] = phash[f]
          BY <1>0, <3>1, <4>1 DEF HashIsHonest
        <4>2. CASE hashes[f] = None /\ phash'[f] = [mtime |-> Stamp(f), content |-> Hash(f)]
          <5>1. Stamp(f) = file[f].mtime /\ phash'[f].content = Hash(f)
            BY <3>1, <4>2
          <5>. QED  BY <1>0, <3>1, <4>2, <5>1 DEF HashIsHonest, Hash
        <4>. QED  BY <2>0, <4>1, <4>2
      <3>. QED  BY <2>0, <3>1 DEF HashIsHonest
    <2>3. ASSUME ~mode.editing
          PROVE  /\ \A f \in File : /\ stamps'[f] \in {None, file[f].mtime}
                                    /\ hashes'[f] \in {None, file[f].content}
                 /\ pc' \notin {"idle", "fresh", "key"} => key' = file[Source].content
      <3>1. \A f \in File : Stamp(f) = file[f].mtime /\ Hash(f) = file[f].content
        BY <2>0, <2>3, HashIsContent
      <3>2. \A f \in File : stamps[f] \in {None, file[f].mtime} /\ hashes[f] \in {None, file[f].content}
        BY <1>0, <2>0, <2>3 DEF StampInv
      <3>3. pc' \notin {"idle", "fresh", "key"} => key' = file[Source].content
        BY <1>0, <1>4, <2>3, <3>1 DEF StampInv, Hashing, HashSource, DropEntry, RestoreObject, Store,
           CrashInStore, CrashInDrop
      <3>. QED  BY <2>0, <3>1, <3>2, <3>3
    <2>. QED  BY <2>0, <2>1, <2>2, <2>3 DEF StampInv
  <1>5. CASE Forgetful
    <2>1. UNCHANGED <<mode, file, phash, stamps, hashes, key>>
      BY <1>5, ForgetfulFrame
    <2>2. pc' # "idle" => pc # "idle" /\ (pc' \notin {"fresh", "key"} => pc \notin {"fresh", "key"})
      BY <1>5 DEF Forgetful, Clean, UseFresh, NoEntry, RestoreDepfile, Invalidate, Read, Write,
         CompileFails, Mark, Crash, OrphanWrites
    <2>. QED  BY <1>0, <2>1, <2>2 DEF HashIsHonest, StampInv
  <1>6. CASE UNCHANGED vars
    BY <1>0, <1>6 DEF vars, memory, HashIsHonest, StampInv
  <1>. QED  BY <1>1, <1>2, <1>3, <1>4, <1>5, <1>6, Actions

-----------------------------------------------------------------------------
(* The freshness test and the object cache of an undisturbed build.        *)

\* An object that passes the test is the one a compiler would make now.
LEMMA FreshIsUnchanged ==
  ASSUME IInv, Undisturbed, pc = "fresh", Tested, DepfileFresh
  PROVE  Unchanged
  <1>0. TypeOK /\ obj # None /\ dep # None /\ obj.made \in Made /\ obj.mtime \in Nat
    BY ModesAssumption DEF IInv, TypeOK, Tested, DepfileFresh
  <1>1. /\ dep = DOMAIN obj.made /\ FromSource(obj.made)
        /\ \A f \in dep : file[f].mtime <= obj.mtime => obj.made[f] = file[f].content
    BY <1>0 DEF IInv, ObjectInv
  <1>2. ASSUME NEW f \in dep PROVE file[f].mtime <= obj.mtime
    <2>1. f \in File
      BY <1>0, <1>2 DEF TypeOK
    <2>2. Stamp(f) = file[f].mtime /\ file[f].mtime \in Nat
      BY <1>0, <2>1, HashIsContent DEF Undisturbed, TypeOK
    <2>. QED  BY <1>0, <1>2, <2>2 DEF DepfileFresh, Newer
  <1>3. obj.made = Wanted
    BY <1>0, <1>1, <1>2, IsWanted
  <1>. QED  BY <1>1, <1>2, <1>3 DEF Unchanged

\* What the last build left, with nothing edited since, passes the test.
LEMMA UnchangedIsFresh ==
  ASSUME IInv, Undisturbed, pc = "fresh", verdict = "ok"
  PROVE  Tested /\ DepfileFresh
  <1>0. /\ TypeOK /\ marker /\ obj # None /\ dep # None /\ Unchanged
        /\ dep = DOMAIN obj.made /\ Source \in dep
    BY DEF IInv, ObjectInv, FromSource
  <1>1. ASSUME NEW f \in dep PROVE ~Newer(f)
    <2>1. f \in File
      BY <1>0, <1>1 DEF TypeOK
    <2>2. Stamp(f) = file[f].mtime /\ file[f].mtime \in Nat /\ obj.mtime \in Nat
      BY <1>0, <2>1, HashIsContent DEF Undisturbed, TypeOK
    <2>3. file[f].mtime <= obj.mtime
      BY <1>0, <1>1 DEF Unchanged
    <2>. QED  BY <2>2, <2>3 DEF Newer
  <1>. QED  BY <1>0, <1>1 DEF Tested, DepfileFresh

\* An entry of the cache whose files have their hashes is the object wanted.
LEMMA MatchIsWanted ==
  ASSUME IInv, Undisturbed, pc = "lookup", Entry, Matches
  PROVE  cobj[key] = Wanted /\ cdep[key] = DOMAIN Wanted
  <1>0. TypeOK /\ key \in Contents /\ cobj[key] \in Made
    BY DEF IInv, StepInv, TypeOK, Entry
  <1>1. cobj[key] = cmeta[key] /\ cdep[key] = DOMAIN cmeta[key] /\ FromSource(cobj[key])
    BY <1>0 DEF IInv, CacheInv, Honest, Entry
  <1>2. \A f \in DOMAIN cobj[key] : cobj[key][f] = file[f].content
    BY <1>0, <1>1, MadeDomain, HashIsContent DEF Matches, Undisturbed
  <1>. QED  BY <1>0, <1>1, <1>2, IsWanted

LEMMA NextObjectInv == IInv /\ [Next]_vars => ObjectInv'
  <1>1. ASSUME IInv, Undisturbed, [Next]_vars, UNCHANGED file PROVE ObjectInv'
    <2>0. /\ TypeOK /\ StepInv /\ ObjectInv /\ CacheInv /\ clock \in Nat
          /\ (Wanted' = Wanted) /\ orphan = None
          /\ mode.kills => pc \notin {"lookup", "restore", "store"}
      BY <1>1, ModesAssumption DEF IInv, TypeOK, StepInv, Undisturbed, Wanted
    <2>. USE <1>1, <2>0
    <2>1. /\ Wanted \in Made /\ FromSource(Wanted)
          /\ \A f \in DOMAIN Wanted : Wanted[f] = file[f].content /\ file[f].mtime <= clock
      BY WantedIsMade, MadeDomain DEF TypeOK
    \* Steps that leave the object alone, or leave none.
    <2>2. ASSUME UNCHANGED <<obj, dep>> \/ (obj' = None /\ dep' = None),
                 pc # "restore",
                 input' \in {None, input, Wanted},
                 pc' \notin {"restore", "store", "mark"},
                 verdict' = "ok" => /\ pc' \in {"idle", "fresh"} /\ UNCHANGED <<obj, dep>>
                                    /\ marker' /\ obj # None /\ dep # None /\ Unchanged
          PROVE  ObjectInv'
      BY <2>2 DEF ObjectInv, Unchanged, FromSource, Undisturbed
    <2>3. CASE Start \/ Clean \/ UseFresh
      <3>1. CASE Start
        BY <2>2, <3>1 DEF Start, disk, ObjectInv
      <3>2. CASE Clean
        BY <2>2, <3>2 DEF Clean
      <3>3. CASE UseFresh
        BY <2>2, <3>3, FreshIsUnchanged DEF UseFresh, disk, Succeed, Tested, DepfileFresh, memory
      <3>. QED  BY <2>3, <3>1, <3>2, <3>3
    <2>4. CASE NotFresh
      BY <2>2, <2>4, UnchangedIsFresh DEF NotFresh, disk, outcome
    <2>5. CASE HashSource \/ NoEntry \/ DropEntry \/ Invalidate \/ Read
      <3>1. verdict # "ok" /\ verdict' = verdict
        BY <2>5 DEF HashSource, NoEntry, DropEntry, Invalidate, Read, ObjectInv, outcome
      <3>2. CASE HashSource \/ NoEntry \/ DropEntry
        BY <2>2, <3>1, <3>2 DEF HashSource, NoEntry, DropEntry, disk
      <3>3. CASE Invalidate \/ Read
        BY <2>2, <3>1, <3>3 DEF Invalidate, Read, disk
      <3>. QED  BY <2>5, <3>2, <3>3
    <2>6. CASE CompileFails \/ Crash
      <3>1. CASE CompileFails
        BY <2>2, <3>1 DEF CompileFails
      <3>2. CASE Crash
        BY <2>2, <3>2 DEF Crash, disk
      <3>. QED  BY <2>6, <3>1, <3>2
    \* Steps that put an object there.
    <2>7. CASE RestoreObject
      <3>1. obj' = [made |-> Wanted, mtime |-> clock] /\ obj' # None /\ cdep'[key'] = DOMAIN Wanted
        BY <2>7, <2>1, MatchIsWanted, NotNone DEF RestoreObject, cache
      <3>2. pc' = "restore" /\ input' = input /\ verdict' = verdict /\ verdict # "ok"
        BY <2>7 DEF RestoreObject, outcome, ObjectInv
      <3>. QED  BY <2>1, <3>1, <3>2 DEF ObjectInv, Unchanged
    <2>8. CASE RestoreDepfile
      <3>1. /\ obj' = obj /\ obj # None /\ Unchanged /\ dep' = DOMAIN Wanted /\ dep' # None
            /\ pc' = "mark" /\ input' = input /\ verdict' = verdict /\ verdict # "ok"
        BY <2>8, <2>1, NotNone DEF RestoreDepfile, ObjectInv, outcome, Unchanged
      <3>. QED  BY <2>1, <3>1 DEF ObjectInv, Unchanged, FromSource
    <2>9. CASE Write
      <3>1. /\ obj' = [made |-> Wanted, mtime |-> clock] /\ obj' # None
            /\ dep' = DOMAIN Wanted /\ dep' # None
            /\ pc' \in {"store", "mark"} /\ input' = None /\ verdict' = verdict /\ verdict # "ok"
        BY <2>9, <2>1, NotNone DEF Write, ObjectInv, outcome
      <3>. QED  BY <2>1, <3>1 DEF ObjectInv, Unchanged, FromSource
    <2>10. CASE Store
      <3>1. UNCHANGED <<obj, dep, input, verdict>> /\ pc = "store" /\ pc' = "mark"
        BY <2>10 DEF Store, disk, outcome
      <3>. QED  BY <3>1 DEF ObjectInv, Unchanged, FromSource, Undisturbed
    <2>11. CASE Mark
      <3>1. UNCHANGED <<obj, dep, input>> /\ pc = "mark" /\ pc' = "idle" /\ marker'
        BY <2>11 DEF Mark
      <3>. QED  BY <3>1 DEF ObjectInv, Unchanged, FromSource, Undisturbed
    <2>12. CASE CrashInStore \/ CrashInDrop \/ OrphanWrites
      BY <2>12 DEF CrashInStore, CrashInDrop, OrphanWrites
    <2>13. CASE UNCHANGED vars
      BY <2>13 DEF vars, disk, cache, memory, outcome, ObjectInv, Undisturbed, Unchanged, FromSource
    <2>14. ASSUME NEW f \in File, NEW c \in Contents PROVE ~Edit(f, c)
      BY <1>1 DEF Edit, TypeOK
    <2>. QED
      BY <2>3, <2>4, <2>5, <2>6, <2>7, <2>8, <2>9, <2>10, <2>11, <2>12, <2>13, <2>14
         DEF Next, Build
  <1>2. ASSUME IInv, Undisturbed, NEW f \in File, NEW c \in Contents, Edit(f, c) PROVE ObjectInv'
    <2>1. /\ pc = "idle" /\ UNCHANGED <<pc, obj, dep, input>> /\ verdict' = "none" /\ input = None
          /\ TypeOK /\ ObjectInv /\ clock \in Nat
      BY <1>2, ModesAssumption DEF Edit, disk, IInv, TypeOK, Undisturbed
    <2>2. /\ \A g \in File : g # f => file'[g] = file[g]
          /\ file'[f].mtime = clock + 1
      BY <1>2, <2>1 DEF Edit, TypeOK
    <2>3. ASSUME obj # None, dep # None, NEW g \in dep, file'[g].mtime <= obj.mtime
          PROVE  g # f /\ file'[g] = file[g]
      <3>1. obj.mtime \in 0 .. clock /\ g \in File
        BY <2>1, <2>3 DEF TypeOK
      <3>. QED  BY <2>1, <2>2, <2>3, <3>1
    <2>. QED  BY <1>2, <2>1, <2>3 DEF ObjectInv, FromSource
  <1>3. [Next]_vars => UNCHANGED file \/ \E f \in File, c \in Contents : Edit(f, c)
    BY HashingFrame, ForgetfulFrame, Actions DEF Start, NotFresh, vars
  <1>4. [Next]_vars => mode' = mode
    BY HashingFrame, ForgetfulFrame, Actions DEF Start, NotFresh, vars, Edit
  <1>. QED  BY <1>1, <1>2, <1>3, <1>4 DEF ObjectInv, Undisturbed

LEMMA NextCacheInv == IInv /\ [Next]_vars => CacheInv'
  <1>. SUFFICES ASSUME IInv, [Next]_vars, Undisturbed' PROVE CacheInv'
    BY DEF CacheInv
  <1>0. /\ TypeOK /\ StepInv /\ ObjectInv /\ Undisturbed /\ CacheInv
        /\ mode.kills => pc \notin {"lookup", "restore", "store"}
    <2>1. mode' = mode
      BY HashingFrame, ForgetfulFrame, Actions DEF Start, NotFresh, vars, Edit
    <2>. QED  BY <2>1, ModesAssumption DEF IInv, TypeOK, StepInv, Undisturbed
  <1>1. ASSUME NEW c \in Contents, cobj'[c] # None, cdep'[c] # None, cmeta'[c] # None
        PROVE  /\ cobj'[c] = cmeta'[c] /\ cdep'[c] = DOMAIN cmeta'[c]
               /\ cobj'[c][Source] = c /\ FromSource(cobj'[c])
    <2>1. CASE UNCHANGED cache
      BY <1>0, <1>1, <2>1 DEF cache, CacheInv, Honest
    <2>2. CASE DropEntry
      BY <1>0, <1>1, <2>2 DEF DropEntry, CacheInv, Honest, TypeOK
    <2>3. CASE Store
      <3>0. pc = "store" /\ key \in Contents /\ obj # None /\ dep # None /\ key = file[Source].content
        BY <1>0, <2>3 DEF Store, StepInv, IInv, StampInv, Undisturbed
      <3>1. obj.made = Wanted /\ dep = DOMAIN Wanted
        BY <1>0, <3>0 DEF ObjectInv, Unchanged
      <3>2. \A f \in dep : Hash(f) = Wanted[f]
        BY <1>0, <3>0, <3>1, HashIsContent, WantedIsMade, MadeDomain DEF Undisturbed
      <3>3. Meta = Wanted
        BY <3>1, <3>2 DEF Meta, Wanted
      <3>4. Wanted[Source] = key /\ FromSource(Wanted)
        BY <1>0, <3>0, WantedIsMade
      <3>. QED  BY <1>0, <1>1, <2>3, <3>0, <3>1, <3>3, <3>4 DEF Store, CacheInv, Honest, TypeOK
    <2>4. UNCHANGED cache \/ DropEntry \/ Store
      BY <1>0 DEF Next, Build, vars, Edit, Clean, Start, UseFresh, NotFresh, HashSource, NoEntry,
         RestoreObject, RestoreDepfile, Invalidate, Read, Write, CompileFails, Mark, Crash,
         CrashInStore, CrashInDrop, OrphanWrites
    <2>. QED  BY <2>1, <2>2, <2>3, <2>4
  <1>. QED  BY <1>1 DEF CacheInv, Honest, FromSource

-----------------------------------------------------------------------------
LEMMA Invariance == Spec => []IInv
  <1>1. IInv /\ [Next]_vars => IInv'
    BY NextTypeOK, NextStepInv, NextHashes, NextObjectInv, NextCacheInv DEF IInv
  <1>. QED  BY <1>1, InitIInv, PTL DEF Spec

\* Every reachable state is of the right type: a hash is that of a content, and
\* nothing has an mtime of the future.
THEOREM TypeCorrect == Spec => []TypeOK
  <1>1. IInv => TypeOK
    BY DEF IInv
  <1>. QED  BY <1>1, Invariance, PTL

\* After a build that succeeded the object is the one a compiler makes from the
\* files as they are (compiler_depfile_fresh, compiler_object_cache_restore).
THEOREM BuildIsCurrentHolds == Spec => []BuildIsCurrent
  <1>1. IInv => BuildIsCurrent
    BY DEF IInv, ObjectInv, BuildIsCurrent, Current, Unchanged
  <1>. QED  BY <1>1, Invariance, PTL

\* The metadata of a cache entry tells what its object was made from
\* (compiler_object_cache_store).
THEOREM CacheIsHonestHolds == Spec => []CacheIsHonest
  <1>1. IInv => CacheIsHonest
    BY DEF IInv, CacheInv, CacheIsHonest
  <1>. QED  BY <1>1, Invariance, PTL

\* A hash kept from an earlier build is the hash of the file with that mtime,
\* also when files are edited while a build runs (compiler_hash_file).
THEOREM HashIsHonestHolds == Spec => []HashIsHonest
  <1>1. IInv => HashIsHonest
    BY DEF IInv
  <1>. QED  BY <1>1, Invariance, PTL
=============================================================================
