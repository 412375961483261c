---------------------------- MODULE MCTargetGraph ----------------------------
(***************************************************************************)
(* Instances of TargetGraph for TLC: all projects with three targets, and  *)
(* those of four targets in which one program links libraries.             *)
(***************************************************************************)
EXTENDS TargetGraph

FourTargets == 1 .. 4
Three == 1 .. 3

\* Duplicate-free lists over S, in every order.
Lists(S) == {s \in UNION {[1 .. n -> S] : n \in 0 .. Cardinality(S)} : Distinct(s)}

\* The list of the members of S in ascending order.
Ascending(S) ==
  CHOOSE s \in [1 .. Cardinality(S) -> S] : \A i, j \in DOMAIN s : i < j => s[i] < s[j]

\* Three targets (the fourth is not linked): every dependency list, every kind
\* and, up to the names of the targets, every list of goals.
EveryProject ==
  {[deps |-> [t \in Target |-> IF t = 4 THEN <<>> ELSE g[t]],
    kind |-> [t \in Target |-> IF t = 4 THEN "static" ELSE k[t]],
    goals |-> [i \in 1 .. n |-> i]] :
     g \in {f \in [Three -> Lists(Three)] : \A t \in Three : t \notin Members(f[t])},
     k \in [Three -> {"static", "program"}],
     n \in Three}

\* Target 1 is a program, the others are libraries linked in ascending order.
OneProgram ==
  {[deps |-> [t \in Target |-> Ascending(g[t])],
    kind |-> [t \in Target |-> IF t = 1 THEN "program" ELSE k],
    goals |-> <<1>>] :
     g \in {h \in [Target -> SUBSET Target] : \A t \in Target : t \notin h[t]},
     k \in {"static", "shared"}}

AllProjects == EveryProject \cup OneProgram
=============================================================================
