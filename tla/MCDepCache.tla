----------------------------- MODULE MCDepCache -----------------------------
(***************************************************************************)
(* Instances of DepCache for TLC.                                          *)
(***************************************************************************)
EXTENDS DepCache, TLC

CONSTANTS p1, p2, p3, k1, k2, k3

Scene(kind, key, kills, serial, warm, cmake) ==
  [kind |-> kind, key |-> key, kills |-> kills, serial |-> serial, warm |-> warm, cmake |-> cmake]

Builds == [p \in Process |-> "build"]
OneKey == [p \in Process |-> k1]

\* Builds and cleaners of one dependency, one after the other, killed
\* anywhere, but for cleaners at work on a package.
Sequential ==
  {Scene(kind, OneKey, {"build"}, TRUE, warm, TRUE) :
     kind \in [Process -> Kind], warm \in BOOLEAN}
  \cup {Scene(kind, OneKey, {"build", "prune"}, TRUE, warm, FALSE) :
          kind \in [Process -> {"build", "prune"}], warm \in BOOLEAN}

\* Builds side by side that find the cache full.
Warm == {Scene(Builds, OneKey, {"build"}, FALSE, TRUE, TRUE)}

\* Builds side by side of dependencies from one repository, for the first time.
Siblings ==
  {Scene(Builds, (p1 :> k1) @@ (p2 :> k2) @@ (p3 :> k3),
         {"build"}, FALSE, FALSE, cmake) : cmake \in BOOLEAN}

\* Builds and cleaners of the same entries side by side.
Together ==
  {Scene(kind, OneKey, {}, FALSE, warm, FALSE) :
     kind \in [Process -> Kind], warm \in BOOLEAN}
  \cup {Scene(Builds, OneKey, {}, FALSE, FALSE, TRUE)}

Sound == Sequential \cup Warm \cup Siblings \cup Together
=============================================================================
