---------------------------- MODULE MCObjectCache ----------------------------
(***************************************************************************)
(* Instances of ObjectCache for TLC: three builds, two of which have the   *)
(* same headers.                                                           *)
(***************************************************************************)
EXTENDS ObjectCache, TLC

CONSTANTS a, b, c

ThreeBuilds == (a :> 1) @@ (b :> 2) @@ (c :> 1)

AllRegimes == {[turns |-> TRUE, kills |-> FALSE], [turns |-> FALSE, kills |-> TRUE]}
=============================================================================
